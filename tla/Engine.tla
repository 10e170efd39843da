-------------------------------- MODULE Engine --------------------------------
(***************************************************************************)
(* One engine (pnf.go): the goroutines of its Bundler, Updater, Auditor    *)
(* and Communicator, and the channels that makeUnstarted puts between      *)
(* them.  What the components compute is in their own modules; here they   *)
(* wait for each other.  Local events are collected into bundles and       *)
(* broadcast, remote bundles pass from the conns to the Updater.  A remote *)
(* bundle is <<conn, number>>, number 0 for the zero FrameBundle that is   *)
(* received when the conn's channel is closed.                             *)
(***************************************************************************)
EXTENDS Integers, FiniteSets, SequencesExt

CONSTANTS
  Event,       \* what the application passes to ApplyEvent
  Conn,        \* the conns to other engines
  HostConn,    \* of a client, the one it has joined
  MaxRemote,   \* bound: the bundles that come in on a conn
  Cap,         \* the capacity of remote_bundles
  MaxDue       \* bound: frames broadcast and not final that are told apart

ASSUME EngineAssumption ==
  /\ HostConn \in Conn /\ Conn \cap Event = {}
  /\ MaxRemote \in Nat /\ {Cap, MaxDue} \subseteq Nat \ {0}

VARIABLES
  role,          \* "host" or "client"
  bundler,       \* "off", "select", "send" or "closed"
  current,       \* current_events and current_engine_events
  stopping,      \* a caller is blocked in Bundler.Shutdown()
  updater,       \* "off", "select", "broadcast" or "advance"
  hand,          \* the events of the bundle it broadcasts
  due,           \* the frames it has broadcast that are not final
  skip,          \* skip_to_frame: "join" for -1, "frame" for a frame, "no" for 0
  communicator,  \* "off", "select", "wait" or "closed"
  heard,         \* the events that have been broadcast
  task,          \* per conn: "away", "boot", "event", "conn", "fan", "done"
  arrived,       \* per conn, the bundles that have come in
  fan,           \* per conn, the bundle its connRoutine sends on remote_fan_in
  kept,          \* the bundles of Join()'s goroutine
  forwarders,    \* the bundles whose goroutine sends on Raw_remote_bundles
  auditor,       \* "off" or "on"
  raw,           \* the bundle the Auditor has in hand, if any
  remote,        \* what is in Remote_bundles
  group,         \* what nagle() has collected
  nagled,        \* it is blocked in its send to the updater
  absorbed,      \* the bundles the Updater has received
  crashed

bundlerVars == <<bundler, current, stopping>>
updaterVars == <<updater, hand, due, skip>>
connVars == <<task, arrived, fan>>
pipeVars == <<kept, forwarders, auditor, raw, remote, group, nagled, absorbed>>
vars == <<role, bundlerVars, updaterVars, communicator, heard, connVars, pipeVars, crashed>>

(* A client's Join has received and kept a bundle of the host's.           *)
Init ==
  /\ role \in {"host", "client"}
  /\ bundler = "off" /\ current = {} /\ stopping = FALSE
  /\ updater = "off" /\ hand = {} /\ due = 0 /\ skip = IF role = "client" THEN "join" ELSE "no"
  /\ communicator = "off" /\ heard = {}
  /\ kept = IF role = "client" THEN <<<<HostConn, 1>>>> ELSE <<>>
  /\ task = [c \in Conn |-> "away"] /\ fan = [c \in Conn |-> 0]
  /\ arrived = [c \in Conn |-> IF role = "client" /\ c = HostConn THEN 1 ELSE 0]
  /\ forwarders = {} /\ auditor = "off" /\ raw = <<>> /\ remote = <<>>
  /\ group = {} /\ nagled = FALSE /\ absorbed = {}
  /\ crashed = FALSE

-----------------------------------------------------------------------------
(* NewNetEngine and NewNetClientEngine start the four in this order.       *)
Start ==
  \/ /\ bundler = "off" /\ bundler' = "select"
     /\ UNCHANGED <<updater, communicator, task, auditor>>
  \/ /\ bundler # "off" /\ updater = "off" /\ updater' = "select"
     /\ UNCHANGED <<bundler, communicator, task, auditor>>
  \/ /\ updater # "off" /\ communicator = "off" /\ communicator' = "select"
     /\ task' = IF role = "client" THEN [task EXCEPT ![HostConn] = "conn"] ELSE task
     /\ UNCHANGED <<bundler, updater, auditor>>
  \/ /\ communicator # "off" /\ auditor = "off" /\ auditor' = "on"
     /\ UNCHANGED <<bundler, updater, communicator, task>>

StartEngine ==
  /\ Start
  /\ UNCHANGED <<role, current, stopping, hand, due, skip, heard, arrived, fan,
                 kept, forwarders, raw, remote, group, nagled, absorbed, crashed>>

-----------------------------------------------------------------------------
(* The cases of Bundler.routine().  The application has the engine when    *)
(* all of it is started.                                                   *)
Started == auditor = "on"

ApplyEvent(e) ==
  /\ Started /\ bundler = "select" /\ e \notin current \cup hand \cup heard
  /\ current' = current \cup {e}
  /\ UNCHANGED <<role, bundler, stopping, updaterVars, communicator, heard,
                 connVars, pipeVars, crashed>>

(* bootstrapRoutine is done when its EngineJoined event is taken.          *)
TakeEngineEvent(c) ==
  /\ bundler = "select" /\ task[c] = "event"
  /\ current' = current \cup {c}
  /\ task' = [task EXCEPT ![c] = "conn"]
  /\ UNCHANGED <<role, bundler, stopping, updaterVars, communicator, heard,
                 arrived, fan, pipeVars, crashed>>

(* A tick that completes a frame                                           *)
Tick ==
  /\ bundler = "select"
  /\ bundler' = "send"
  /\ UNCHANGED <<role, current, stopping, updaterVars, communicator, heard, connVars,
                 pipeVars, crashed>>

(* Bound: either the Bundler or the Communicator is shut down.             *)
Shutdown ==
  /\ Started /\ ~stopping /\ communicator = "select"
  /\ stopping' = TRUE
  /\ UNCHANGED <<role, bundler, current, updaterVars, communicator, heard,
                 connVars, pipeVars, crashed>>

CloseBundler ==
  /\ bundler = "select" /\ stopping
  /\ bundler' = "closed"
  /\ UNCHANGED <<role, current, stopping, updaterVars, communicator, heard,
                 connVars, pipeVars, crashed>>

-----------------------------------------------------------------------------
(* The Updater drops the bundles, and with them the events, that a client  *)
(* makes before it has joined and for frames before the one it joins on.   *)
(* Before the first one it keeps it broadcasts those it has dropped, empty *)
(* of events, which are not told apart from it here.                       *)
TakeLocalBundle ==
  /\ bundler = "send" /\ updater = "select"
  /\ bundler' = "select" /\ current' = {}
  /\ \/ skip # "no" /\ UNCHANGED <<updater, hand, skip>>
     \/ skip # "join" /\ updater' = "broadcast" /\ hand' = current /\ skip' = "no"
  /\ UNCHANGED <<role, stopping, due, communicator, heard, connVars, pipeVars, crashed>>

(* Once Local_bundles is closed a zero bundle for frame 0 is received: it  *)
(* is skipped, or reaches below the window.                                *)
TakeZeroLocalBundle ==
  /\ bundler = "closed" /\ updater = "select" /\ skip = "no"
  /\ crashed' = TRUE
  /\ UNCHANGED <<role, bundlerVars, updaterVars, communicator, heard, connVars, pipeVars>>

(* With a bug: the Communicator sends EngineJoined events itself.          *)
BroadcastInline ==
  /\ updater = "broadcast" /\ communicator = "select"
  /\ \A c \in Conn : task[c] # "event"
  /\ updater' = "advance"
  /\ heard' = heard \cup hand /\ hand' = {}
  /\ due' = IF due < MaxDue THEN due + 1 ELSE due
  /\ UNCHANGED <<role, bundlerVars, skip, communicator, connVars, pipeVars, crashed>>

Broadcast ==
  /\ updater = "broadcast" /\ communicator = "select"
  /\ updater' = "advance"
  /\ heard' = heard \cup hand /\ hand' = {}
  /\ due' = IF due < MaxDue THEN due + 1 ELSE due
  /\ UNCHANGED <<role, bundlerVars, skip, communicator, connVars, pipeVars, crashed>>

(* advance() sends each frame that becomes final on Bootstrap_frames.      *)
SendBootstrapFrame ==
  /\ updater = "advance" /\ due > 0 /\ communicator = "select"
  /\ due' = due - 1
  /\ UNCHANGED <<role, bundlerVars, updater, hand, skip, communicator, heard, connVars,
                 pipeVars, crashed>>

Advanced ==
  /\ updater = "advance"
  /\ updater' = "select"
  /\ UNCHANGED <<role, bundlerVars, hand, due, skip, communicator, heard, connVars,
                 pipeVars, crashed>>

(* A group of remote bundles; one of them may hold the EngineJoined event  *)
(* of this engine.                                                         *)
AbsorbGroup ==
  /\ nagled /\ updater = "select"
  /\ absorbed' = absorbed \cup {b \in group : b[2] # 0}
  /\ group' = {} /\ nagled' = FALSE
  /\ updater' = "advance"
  /\ skip' \in {skip} \cup
       {IF skip = "join" /\ \E b \in group : b[2] # 0 THEN "frame" ELSE skip}
  /\ UNCHANGED <<role, bundlerVars, hand, due, communicator, heard, connVars, kept,
                 forwarders, auditor, raw, remote, crashed>>

-----------------------------------------------------------------------------
(* The host's Communicator accepts a conn; its client confirms.            *)
Accept(c) ==
  /\ Started /\ communicator = "select" /\ role = "host" /\ task[c] = "away"
  /\ task' = [task EXCEPT ![c] = "boot"]
  /\ UNCHANGED <<role, bundlerVars, updaterVars, communicator, heard, arrived, fan, pipeVars,
                 crashed>>

Confirm(c) ==
  /\ task[c] = "boot" /\ communicator = "select"
  /\ task' = [task EXCEPT ![c] = "event"]
  /\ UNCHANGED <<role, bundlerVars, updaterVars, communicator, heard, arrived, fan, pipeVars,
                 crashed>>

(* connRoutine receives a bundle; once the conn is closed, one more that   *)
(* is zero, or data that ends it at once.                                  *)
Arrive(c) ==
  /\ task[c] = "conn" /\ communicator = "select" /\ arrived[c] < MaxRemote
  /\ arrived' = [arrived EXCEPT ![c] = @ + 1]
  /\ task' = [task EXCEPT ![c] = "fan"]
  /\ fan' = [fan EXCEPT ![c] = arrived[c] + 1]
  /\ UNCHANGED <<role, bundlerVars, updaterVars, communicator, heard, pipeVars, crashed>>

ConnEnds(c) ==
  /\ task[c] = "conn" /\ communicator = "wait"
  /\ task' \in {[task EXCEPT ![c] = next] : next \in {"fan", "done"}}
  /\ fan' = [fan EXCEPT ![c] = 0]
  /\ UNCHANGED <<role, bundlerVars, updaterVars, communicator, heard, arrived, pipeVars, crashed>>

(* routine() receives from remote_fan_in and starts a goroutine for the    *)
(* bundle; while it waits for the conns to end, what they send is drained. *)
FanIn(c) ==
  /\ task[c] = "fan" /\ communicator \in {"select", "wait"}
  /\ forwarders' = IF communicator = "select" THEN forwarders \cup {<<c, fan[c]>>} ELSE forwarders
  /\ task' = [task EXCEPT ![c] = IF fan[c] = 0 THEN "done" ELSE "conn"]
  /\ UNCHANGED <<role, bundlerVars, updaterVars, communicator, heard, arrived, fan, kept,
                 auditor, raw, remote, group, nagled, absorbed, crashed>>

ShutdownCommunicator ==
  /\ Started /\ ~stopping /\ communicator = "select"
  /\ communicator' = "wait"
  /\ UNCHANGED <<role, bundlerVars, updaterVars, heard, connVars, pipeVars, crashed>>

(* Raw_remote_bundles is closed: whoever still sends on it panics.         *)
CloseCommunicator ==
  /\ communicator = "wait" /\ \A c \in Conn : task[c] \in {"away", "done"}
  /\ communicator' = "closed"
  /\ crashed' = (forwarders # {} \/ kept # <<>>)
  /\ UNCHANGED <<role, bundlerVars, updaterVars, heard, connVars, pipeVars>>

-----------------------------------------------------------------------------
(* Audit with a bug: the bundle in hand is replaced by the next.           *)
AuditOver ==
  /\ auditor = "on"
  /\ \E b \in forwarders : forwarders' = forwarders \ {b} /\ raw' = <<b>>
  /\ UNCHANGED <<role, bundlerVars, updaterVars, communicator, heard, connVars, kept, auditor,
                 remote, group, nagled, absorbed, crashed>>

(* The Auditor receives a bundle from any of the goroutines that send it   *)
(* one; from a closed channel, zero bundles for ever.                      *)
Audit ==
  /\ auditor = "on" /\ raw = <<>>
  /\ \/ \E b \in forwarders : forwarders' = forwarders \ {b} /\ raw' = <<b>> /\ kept' = kept
     \/ kept # <<>> /\ kept' = Tail(kept) /\ raw' = <<Head(kept)>> /\ forwarders' = forwarders
     \/ communicator = "closed" /\ raw' = <<<<HostConn, 0>>>> /\ UNCHANGED <<kept, forwarders>>
  /\ UNCHANGED <<role, bundlerVars, updaterVars, communicator, heard, connVars, auditor,
                 remote, group, nagled, absorbed, crashed>>

PassAudit ==
  /\ raw # <<>> /\ Len(remote) < Cap
  /\ remote' = remote \o raw /\ raw' = <<>>
  /\ UNCHANGED <<role, bundlerVars, updaterVars, communicator, heard, connVars, kept,
                 forwarders, auditor, group, nagled, absorbed, crashed>>

(* nagle() collects for a microsecond from the first bundle on, then       *)
(* blocks until the updater takes the group.                               *)
Collect ==
  /\ updater # "off" /\ ~nagled /\ remote # <<>>
  /\ group' = group \cup {Head(remote)} /\ remote' = Tail(remote)
  /\ UNCHANGED <<role, bundlerVars, updaterVars, communicator, heard, connVars, kept,
                 forwarders, auditor, raw, nagled, absorbed, crashed>>

(* EndGroup with a bug: the microsecond starts again with every bundle.    *)
EndGroupWhenFull ==
  /\ Cardinality(group) > 1 /\ ~nagled
  /\ nagled' = TRUE
  /\ UNCHANGED <<role, bundlerVars, updaterVars, communicator, heard, connVars, kept,
                 forwarders, auditor, raw, remote, group, absorbed, crashed>>

EndGroup ==
  /\ group # {} /\ ~nagled
  /\ nagled' = TRUE
  /\ UNCHANGED <<role, bundlerVars, updaterVars, communicator, heard, connVars, kept,
                 forwarders, auditor, raw, remote, group, absorbed, crashed>>

-----------------------------------------------------------------------------
BundlerTurn == (\E c \in Conn : TakeEngineEvent(c)) \/ Tick \/ CloseBundler
UpdaterTurn == Broadcast \/ SendBootstrapFrame \/ Advanced
ConnTurn(c) == FanIn(c) \/ ConnEnds(c)
Pipe == PassAudit \/ Collect \/ EndGroup

Next ==
  /\ ~crashed
  /\ \/ StartEngine \/ Shutdown \/ ShutdownCommunicator \/ CloseCommunicator
     \/ \E e \in Event : ApplyEvent(e)
     \/ BundlerTurn \/ TakeLocalBundle \/ TakeZeroLocalBundle \/ UpdaterTurn \/ AbsorbGroup
     \/ \E c \in Conn : Accept(c) \/ Confirm(c) \/ Arrive(c) \/ ConnTurn(c)
     \/ Audit \/ Pipe

(* Goroutines that can go on do, and time passes.  A select picks at       *)
(* random among the cases that are ready, so a case that is ready again    *)
(* and again is picked: Tick, CloseBundler, TakeEngineEvent, and the two   *)
(* cases of the updater.                                                   *)
Fairness ==
  /\ WF_vars(~crashed /\ StartEngine)
  /\ WF_vars(~crashed /\ UpdaterTurn) /\ WF_vars(~crashed /\ Pipe)
  /\ WF_vars(~crashed /\ Audit)
  /\ SF_vars(~crashed /\ Tick) /\ SF_vars(~crashed /\ CloseBundler)
  /\ SF_vars(~crashed /\ TakeLocalBundle) /\ SF_vars(~crashed /\ AbsorbGroup)
  /\ \A c \in Conn :
       SF_vars(~crashed /\ TakeEngineEvent(c)) /\ WF_vars(~crashed /\ ConnTurn(c))

Spec == Init /\ [][Next]_vars /\ Fairness

-----------------------------------------------------------------------------
(* Every bundle that has come in on a conn is in exactly one place: in the *)
(* hands of one goroutine of connRoutine, Join, routine, Auditor or nagle, *)
(* in Remote_bundles, or with the Updater; until the Communicator is shut  *)
(* down, which drops what the conns still send.                            *)
Places(b) ==
  <<b \in absorbed, b \in group, b \in Range(remote), b \in Range(raw), b \in forwarders,
    b \in Range(kept), task[b[1]] = "fan" /\ fan[b[1]] = b[2]>>
RemoteConserved ==
  communicator \in {"off", "select"} =>
    \A c \in Conn : \A n \in 1 .. arrived[c] :
      Cardinality({i \in 1 .. 7 : Places(<<c, n>>)[i]}) = 1

(* It reaches the Updater, however the rest of the engine is occupied, as  *)
(* long as nothing is shut down.                                           *)
RemoteArrives ==
  \A c \in Conn, n \in 1 .. MaxRemote :
    arrived[c] >= n ~> <<c, n>> \in absorbed \/ communicator \in {"wait", "closed"} \/ crashed

(* An event that the Bundler has taken, a host's EngineJoined for a conn   *)
(* included, is broadcast, unless something is shut down: no circle of     *)
(* Bundler, Updater, Communicator and bootstrapRoutine waits for itself.   *)
(* A client's events count from its first bundle on.                       *)
EventsGetOut ==
  \A e \in Event \cup Conn :
    (e \in current /\ skip = "no") \/ (e \in Conn /\ task[e] = "event")
      ~> e \in heard \/ stopping \/ communicator \in {"wait", "closed"}

(* Bundler.Shutdown() returns, as long as the Communicator runs.           *)
BundlerShutdownReturns == stopping ~> bundler = "closed"
=============================================================================
