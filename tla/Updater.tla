------------------------------ MODULE Updater ------------------------------
(***************************************************************************)
(* One core.Updater running in a session: routine() takes one local bundle,*)
(* one group of remote bundles or one state request at a time, in any      *)
(* order (a Go select).  The rest of the session is its environment: the   *)
(* other engines issue one bundle per frame from the frame they belong to  *)
(* the session, the network delivers them in any order, and nagle() hands  *)
(* them over in groups.                                                    *)
(*                                                                         *)
(* Only the host's Communicator creates engine events, so only the host's  *)
(* bundles carry them.                                                     *)
(***************************************************************************)
EXTENDS UpdaterState

CONSTANTS
  Self, Host,      \* this engine, and the one whose bundles carry engine events
  Founders,        \* the engines in EngineInfo at BaseFrame
  Joiners,         \* the engines the host may let in later
  Droppable,       \* the engines an EngineDropped event may name
  Bootstrapped,    \* TRUE: started by Bootstrap (a client), FALSE: by Start
  BaseFrame,       \* the frame the updater is given
  FirstTick,       \* the first frame the Bundler emits
  Inputs,          \* per engine, the game event lists one frame may hold
  Callers,         \* goroutines that ask for game states
  AskedFrames,     \* the frames they ask for
  MaxFrame,        \* bound: no engine issues a bundle for a later frame
  MaxLead,         \* bound: no engine issues a bundle more than this ahead of
                   \*   the start of this updater's window
  MaxAhead,        \* bound: while it joins, this engine's next bundle is for
                   \*   a frame at most this far ahead of its global_frame
  MaxGroup         \* bound: the bundles nagle() puts in one group

Frames == BaseFrame + 1 .. MaxFrame

ASSUME ConfigAssumption ==
  /\ {Self, Host} \cup Founders \cup Joiners \cup Droppable \subseteq EngineId
  /\ Host \in Founders /\ Host \notin Droppable /\ Self \notin Droppable
  /\ Joiners \cap (Founders \ Droppable) = {}
  /\ Bootstrapped \in BOOLEAN
  /\ Self \in IF Bootstrapped THEN Joiners ELSE Founders
  /\ {BaseFrame, MaxFrame, FirstTick, MaxLead, MaxAhead} \subseteq Nat
  /\ BaseFrame < MaxFrame /\ MaxGroup \in Nat \ {0}
  /\ AskedFrames \subseteq Int
  /\ \A id \in EngineId : Inputs[id] \subseteq Seq(Event)

VARIABLES
  u,         \* the Updater's fields
  clock,     \* the frame of the next bundle on Local_bundles
  issued,    \* per frame, the bundles the engines of the session have sent
  inflight,  \* <<id, frame>> of the bundles still on their way to Self
  calls      \* per caller, the state request it made last

vars == <<u, clock, issued, inflight, calls>>

-----------------------------------------------------------------------------
(* The session.                                                            *)

(* The frames whose bundles carry e.                                       *)
Carry(e) == {f \in Frames : Places(issued[f], e) # {}}

(* An engine belongs to the session from the frame on which its            *)
(* EngineJoined event is applied, that frame included.                     *)
MemberAt(id, frame) ==
  id \in Founders \/ \E f \in Carry(EngineJoined(id)) : f <= frame

(* The engine events the host may put in its next bundle.                  *)
EngineEvents(id) ==
  {<<>>} \cup
  IF id # Host THEN {}
  ELSE {<<EngineJoined(j)>> : j \in {k \in Joiners : Carry(EngineJoined(k)) = {}}}
       \cup {<<EngineDropped(d)>> : d \in {k \in Droppable : Carry(EngineDropped(k)) = {}}}

MayIssue(id) == [game : Inputs[id], engine : EngineEvents(id)]

(* The other engines supply the frames one after the other.                *)
NextToIssue(id, frame) ==
  /\ frame <= u.first + MaxLead
  /\ MemberAt(id, frame) /\ id \notin DOMAIN issued[frame]
  /\ \A f \in BaseFrame + 1 .. frame - 1 : MemberAt(id, f) => id \in DOMAIN issued[f]

Bundle(p) == [frame |-> p[2], bundle |-> Only(p[1], issued[p[2]][p[1]])]

(* The groups of bundles nagle() may have collected.                       *)
Groups ==
  UNION {{g \in [1 .. n -> inflight] : Cardinality({g[i] : i \in 1 .. n}) = n} :
           n \in 1 .. MaxGroup}

-----------------------------------------------------------------------------
(* Callers of RequestFinalGameState and RequestFastGameState.              *)

Idle == [status |-> "idle"]
Waiting(final, asked) == [status |-> "waiting", final |-> final, asked |-> asked]
Answered(final, asked, response) ==
  [status |-> "answered", final |-> final, asked |-> asked, response |-> response]

Pending(requests) == {requests[i].caller : i \in DOMAIN requests}

(* The callers whose requests a handler took off the queues have been sent *)
(* the state of the frame they asked for: a final one when it reached the  *)
(* start of the window, a fast one when it became the local frame.         *)
Responses(next) ==
  [c \in Callers |->
     LET asked == calls[c].asked
     IN  IF calls[c].status # "waiting" THEN calls[c]
         ELSE IF calls[c].final /\ c \notin Pending(next.final_requests)
           THEN Answered(TRUE, asked, [found |-> TRUE, frame |-> asked,
                                       game |-> next.bootstrap_frames[asked].game])
         ELSE IF ~calls[c].final /\ c \notin Pending(next.fast_requests)
           THEN Answered(FALSE, asked, StateAt(next, asked))
         ELSE calls[c]]

-----------------------------------------------------------------------------
BootFrame == [frame |-> BaseFrame, game |-> <<>>, info |-> Founders]

Init ==
  /\ u = IF Bootstrapped THEN Bootstrap(Self, BootFrame)
         ELSE Start(Self, BaseFrame, FrameData(Founders, <<>>, EmptyBundle))
  /\ clock = FirstTick
  /\ issued = [f \in BaseFrame .. MaxFrame |->
                 IF Bootstrapped /\ f = BaseFrame THEN [id \in Founders |-> NoEvents]
                 ELSE EmptyBundle]
  \* The conn was given to the Communicator before BaseFrame was complete:
  \* bundles of that frame may still be on their way.
  /\ inflight = IF Bootstrapped THEN {<<id, BaseFrame>> : id \in Founders} ELSE {}
  /\ calls = [c \in Callers |-> Idle]

(* Another engine sends its bundle for a frame.                            *)
Issue(id) ==
  \E frame \in Frames, events \in MayIssue(id) :
    /\ NextToIssue(id, frame)
    /\ issued' = [issued EXCEPT ![frame] = Absorb(@, Only(id, events))]
    /\ inflight' = inflight \cup {<<id, frame>>}
    /\ UNCHANGED <<u, clock, calls>>

(* A panic in a handler ends the process; what the handler had done by     *)
(* then is seen by nobody.                                                 *)
Result(next) == IF next.panicked THEN Panic(u) ELSE next

(* The bounds on the Bundler's clock.                                      *)
MayTick ==
  /\ clock <= MaxFrame /\ clock <= u.first + MaxLead
  /\ u.skip_to_frame = -1 =>
       /\ clock < MaxFrame /\ clock < u.first + MaxLead
       /\ clock < u.global_frame + MaxAhead

(* The Bundler's next bundle is taken from Local_bundles.  What the        *)
(* handler broadcasts is issued to the session.                            *)
LocalBundle ==
  /\ ~u.panicked
  /\ MayTick
  /\ \E events \in IF Discards(u, clock) THEN {NoEvents} ELSE MayIssue(Self) :
       LET fb == [frame |-> clock, bundle |-> Only(Self, events)]
           sent == Broadcast(u, fb)
           next == HandleLocal(u, fb)
       IN  /\ u' = Result(next)
           /\ clock' = clock + 1
           /\ issued' = IF next.panicked THEN issued
                        ELSE [f \in DOMAIN issued |->
                                IF f \in DOMAIN sent THEN Absorb(issued[f], sent[f])
                                ELSE issued[f]]
           /\ calls' = IF next.panicked THEN calls ELSE Responses(next)
  /\ UNCHANGED inflight

(* A group of bundles is taken from remote_bundles.                        *)
RemoteBundles ==
  /\ ~u.panicked
  /\ \E group \in Groups :
       LET next == HandleRemote(u, [i \in DOMAIN group |-> Bundle(group[i])])
       IN  /\ u' = Result(next)
           /\ inflight' = inflight \ {group[i] : i \in DOMAIN group}
           /\ calls' = IF next.panicked THEN calls ELSE Responses(next)
  /\ UNCHANGED <<clock, issued>>

RequestFinalGameState(c) ==
  /\ ~u.panicked
  /\ calls[c].status # "waiting"
  /\ \E frame \in AskedFrames :
       /\ u' = RequestFinal(u, [caller |-> c, frame |-> frame])
       /\ calls' = [calls EXCEPT ![c] =
                      IF FinalReady(u, frame) THEN Answered(TRUE, frame, FinalResponse(u, frame))
                      ELSE Waiting(TRUE, frame)]
  /\ UNCHANGED <<clock, issued, inflight>>

RequestFastGameState(c) ==
  /\ ~u.panicked
  /\ calls[c].status # "waiting"
  /\ \E frame \in AskedFrames :
       LET next == RequestFast(u, [caller |-> c, frame |-> frame])
       IN  /\ u' = next
           /\ calls' = [calls EXCEPT ![c] =
                          IF FastReady(u, frame) /\ ~next.panicked
                            THEN Answered(FALSE, frame, FastResponse(u, frame))
                            ELSE Waiting(FALSE, frame)]
  /\ UNCHANGED <<clock, issued, inflight>>

Peers == EngineId \ {Self}

(* Nothing is left to do below the bounds: every member has issued every   *)
(* frame and everything has been handled.                                  *)
Finished ==
  /\ clock = MaxFrame + 1 \/ u.skip_to_frame = -1
  /\ inflight = {}
  /\ \A id \in Peers, f \in Frames : MemberAt(id, f) => id \in DOMAIN issued[f]
  /\ UNCHANGED vars

Next ==
  \/ \E id \in Peers : Issue(id)
  \/ LocalBundle
  \/ RemoteBundles
  \/ \E c \in Callers : RequestFinalGameState(c)
  \/ \E c \in Callers : RequestFastGameState(c)
  \/ Finished

Spec == Init /\ [][Next]_vars

(* The Ticker keeps ticking in every engine, a bundle that was sent        *)
(* arrives and routine() keeps selecting.  Handled and Ticked say what the *)
(* two handlers do to inflight and clock, which no other action changes,   *)
(* so that fairness of them is fairness of RemoteBundles and LocalBundle.  *)
Ticked == ~u.panicked /\ MayTick /\ clock' = clock + 1
Handled(p) ==
  /\ ~u.panicked /\ p \in inflight
  /\ \E group \in Groups :
       LET handled == {group[i] : i \in DOMAIN group}
       IN  p \in handled /\ inflight' = inflight \ handled

Fairness ==
  /\ \A id \in Peers : WF_issued(Issue(id))
  /\ WF_clock(Ticked)
  /\ \A p \in EngineId \X Frames : WF_inflight(Handled(p))

FairSpec == Spec /\ Fairness

-----------------------------------------------------------------------------
(* Types.                                                                  *)

RequestType == [caller : Callers, frame : Int]

(* Every field keeps its type; the window data covers exactly the window,  *)
(* and one bootstrap frame has been sent for each frame up to its start.   *)
TypeOK ==
  /\ u.id = Self
  /\ u.first \in BaseFrame .. MaxFrame
  /\ DOMAIN u.data = Window(u.first) /\ \A f \in Window(u.first) : IsFrameData(u.data[f])
  /\ {u.local_frame, u.global_frame, u.oldest_dirty_frame} \subseteq Nat
  /\ u.skip_to_frame \in Nat \cup {-1}
  /\ u.final_requests \in Seq(RequestType) /\ u.fast_requests \in Seq(RequestType)
  /\ DOMAIN u.bootstrap_frames = BaseFrame .. u.first
  /\ \A f \in BaseFrame .. u.first :
       /\ u.bootstrap_frames[f].info \subseteq EngineId
       /\ IsGame(u.bootstrap_frames[f].game)
  /\ u.panicked \in BOOLEAN
  /\ clock \in Nat
  /\ DOMAIN issued = BaseFrame .. MaxFrame
  /\ \A f \in BaseFrame .. MaxFrame : IsEventBundle(issued[f])
  /\ inflight \subseteq EngineId \X (BaseFrame .. MaxFrame)
  /\ DOMAIN calls = Callers

-----------------------------------------------------------------------------
(* Safety.                                                                 *)

Received(frame) == {id \in DOMAIN issued[frame] : <<id, frame>> \notin inflight}
ReceivedBundle(frame) == [id \in Received(frame) |-> issued[frame][id]]

Final(frame) == u.bootstrap_frames[frame]

(* The window holds every bundle received for a frame after its start,     *)
(* whatever the order they came in: nothing handed over or broadcast by    *)
(* routine() is lost, misplaced, or left behind in a recycled slot.        *)
WindowHoldsReceived ==
  ~u.panicked =>
    /\ \A f \in u.first + 1 .. u.global_frame :
         u.data[f].made /\ u.data[f].bundle = ReceivedBundle(f)
    /\ \A f \in Frames : f > u.global_frame => Received(f) = {}

(* The frame after a client's first one keeps the host's info and game     *)
(* until a bundle for it arrives.                                          *)
Placeholder(v, frame) ==
  /\ Bootstrapped /\ frame = BaseFrame + 1
  /\ DOMAIN v.data[frame].bundle = {}
  /\ v.data[frame].info = Founders

(* advance() leaves no frame dirty: the state of every frame in the window *)
(* is the one before it with its current bundle applied, back to a final   *)
(* state that has not been touched since it was sent as a bootstrap frame. *)
SpeculationUpToDate ==
  ~u.panicked =>
    /\ u.oldest_dirty_frame = u.global_frame + 1
    /\ u.data[u.first].info = Final(u.first).info
    /\ u.data[u.first].game = Final(u.first).game
    /\ \A f \in u.first + 1 .. u.global_frame :
         Placeholder(u, f) \/ u.data[f] = ThinkFrame(u.data[f - 1], u.data[f])

(* A frame becomes final only when every engine known on it has been heard *)
(* from: its state is the outcome of all the bundles issued for it, those  *)
(* that arrive or are issued later included.                               *)
FinalFollowsIssued ==
  \A f \in BaseFrame + 1 .. u.first :
    LET engines == ApplyEngineEvents(Final(f - 1).info, issued[f])
    IN  /\ Final(f).info = engines
        /\ Final(f).game = ApplyAndThink(Final(f - 1).game, engines, issued[f])

(* The window never waits for nothing: its second frame always lacks a     *)
(* bundle from an engine known on it (Updater.data_window: "The windows    *)
(* will advance as soon as all events for a given frame have been          *)
(* received").                                                             *)
NotStalled ==
  ~u.panicked /\ u.first < MaxFrame =>
    LET f == u.first + 1
    IN  ~(ApplyEngineEvents(Final(u.first).info, ReceivedBundle(f)) \subseteq Received(f))

(* As long as no engine is more than Max_frames ahead of the window and a  *)
(* joining engine's clock is not ahead of the session, no handler reaches  *)
(* outside the window, writes to a nil bundle or meets an id collision.    *)
NoPanic == ~u.panicked

(* A final request is answered with the state the session agreed on for    *)
(* the frame asked for, or with nothing when that frame is no longer held. *)
FinalAnswersAgree ==
  \A c \in Callers :
    LET call == calls[c]
    IN  call.status = "answered" /\ call.final /\ call.response.found =>
          /\ call.response.frame \in DOMAIN u.bootstrap_frames
          /\ call.response.game = Final(call.response.frame).game
          /\ call.asked >= 0 => call.response.frame = call.asked

(* A fast state holds every local event of the frames up to its own, at    *)
(* its place, before any other engine has confirmed anything.              *)
FastAnswersHoldLocalEvents ==
  \A c \in Callers :
    LET call == calls[c]
        response == call.response
    IN  call.status = "answered" /\ ~call.final /\ response.found =>
          /\ Len(response.game) = response.frame - BaseFrame
          /\ \A i \in 1 .. Len(response.game) :
               /\ Self \in DOMAIN response.game[i]
               /\ response.game[i][Self] = issued[BaseFrame + i][Self].game

(* A fast request that local_frame passes is never answered ("stored in    *)
(* final_requests or fast_requests to be fulfilled later").  Only two      *)
(* things do that: the updater joins past the frame asked for, or          *)
(* fulfillFastRequests skips it when it answers another for that frame.    *)
Overdue ==
  {c \in Callers : calls[c].status = "waiting" /\ ~calls[c].final
                    /\ calls[c].asked <= u.local_frame}
SkippedByJoin(c) == u.skip_to_frame > 0 /\ calls[c].asked < u'.local_frame
SkippedByAnswer(c) ==
  \E d \in Callers \ {c} :
    /\ calls[d].status = "waiting" /\ ~calls[d].final /\ calls'[d].status = "answered"
    /\ calls[d].asked = calls[c].asked /\ calls[c].asked = u'.local_frame
FastRequestsPassed ==
  [][~u'.panicked =>
       \A c \in Overdue' \ Overdue : SkippedByJoin(c) \/ SkippedByAnswer(c)]_vars

-----------------------------------------------------------------------------
(* The abstract specification: bootstrap_frames is a log of final states.  *)

Abstract == INSTANCE FinalLog WITH
  log <- u.bootstrap_frames,
  BaseState <- [info |-> Founders, game |-> <<>>]

(* The updater implements the log of final states: no step revises one,    *)
(* and each step that adds some adds the outcome of all bundles issued.    *)
ImplementsFinalLog == Abstract!Spec

-----------------------------------------------------------------------------
(* Liveness.                                                               *)

(* While engines keep supplying bundles every frame becomes final.         *)
EveryFrameBecomesFinal == <>(u.first = MaxFrame)

(* Every request for a final state is answered ("stored in final_requests  *)
(* or fast_requests to be fulfilled later").                               *)
FinalRequestsAnswered ==
  \A c \in Callers :
    (calls[c].status = "waiting" /\ calls[c].final /\ calls[c].asked <= MaxFrame)
      ~> (calls[c].status = "answered")
=============================================================================
