---------------------------- MODULE Communicator ----------------------------
(***************************************************************************)
(* core.Communicator (core/communicator.go): a host's routine(), with its  *)
(* bootstrapRoutine and connRoutine goroutines, and the clients that Join  *)
(* it.  A bundle is <<engine, frame>>; a client and the host's conn to it  *)
(* have the same name.  The host's Updater is the environment: it          *)
(* broadcasts its bundles in order, and sends a frame on Bootstrap_frames  *)
(* after it has broadcast its own bundle for it.                           *)
(*                                                                         *)
(* Data on a conn arrives in the order it was sent; a bundle has a         *)
(* goroutine of its own, so bundles arrive in any order.                   *)
(***************************************************************************)
EXTENDS Integers, SequencesExt

CONSTANTS
  Conn,     \* the clients that may connect
  Host,     \* the host's engine
  MayFail,  \* the clients that may close their conn instead of confirming
  MaxFrame  \* bound: no engine issues a bundle for a later frame

ASSUME CommunicatorAssumption ==
  Host \notin Conn /\ MayFail \subseteq Conn /\ MaxFrame \in Nat

VARIABLES
  routine,       \* "select", "wait" (in active_conns.Wait) or "closed"
  stopping,      \* a caller is blocked in Shutdown()
  conns, bootstraps, horizon, active_conns,
  task,          \* per conn, the goroutine that serves it
  closed,        \* the conns that have been closed
  broadcast,     \* the last frame on Broadcast_bundles
  final,         \* the last frame on Bootstrap_frames
  joined,        \* per conn, the frame of its EngineJoined event, 0: none yet
  relayed,       \* the bundles that routine() has passed on
  outgoing,      \* <<conn, bundle>>: bundles on their way to a client
  incoming,      \* bundles on their way from the clients
  data,          \* per conn, the data on its way to the client
  reply,         \* per conn, the client's confirmation: "none", "ready", "bad"
  stage, start,  \* per client, where it is in Join(), and initial.Horizon
  kept           \* per client, the bundles for its Auditor

hostVars == <<routine, stopping, conns, bootstraps, horizon, active_conns, task, closed>>
updaterVars == <<broadcast, final, joined>>
clientVars == <<stage, start, kept>>
vars == <<hostVars, updaterVars, relayed, outgoing, incoming, data, reply, clientVars>>

Greater(a, b) == IF a > b THEN a ELSE b
Bundle == (Conn \cup {Host}) \X (Nat \ {0})

Init ==
  /\ routine = "select" /\ stopping = FALSE
  /\ conns = <<>> /\ bootstraps = <<>>
  /\ horizon = 0 /\ active_conns = 0
  /\ task = [c \in Conn |-> "none"] /\ closed = {}
  /\ broadcast = 0 /\ final = 0 /\ joined = [c \in Conn |-> 0]
  /\ relayed = {} /\ outgoing = {} /\ incoming = {}
  /\ data = [c \in Conn |-> <<>>] /\ reply = [c \in Conn |-> "none"]
  /\ stage = [c \in Conn |-> "away"] /\ start = [c \in Conn |-> 0]
  /\ kept = [c \in Conn |-> {}]

-----------------------------------------------------------------------------
(* routine().                                                              *)

(* Accept with a bug: the conn is not counted, or the client is promised   *)
(* the frame of the newest bundle.                                         *)
AcceptUncounted(c) ==
  /\ routine = "select" /\ stage[c] = "away" /\ horizon < MaxFrame
  /\ data' = [data EXCEPT ![c] = Append(@, [kind |-> "initial", frame |-> horizon + 1])]
  /\ conns' = Append(conns, c)
  /\ bootstraps' = Append(bootstraps, [conn |-> c, start |-> horizon + 1])
  /\ task' = [task EXCEPT ![c] = "bootstrap"]
  /\ stage' = [stage EXCEPT ![c] = "greeted"]
  /\ UNCHANGED <<routine, stopping, active_conns, horizon, closed, updaterVars, relayed,
                 outgoing, incoming, reply, start, kept>>
AcceptAtHorizon(c) ==
  /\ routine = "select" /\ stage[c] = "away" /\ horizon < MaxFrame
  /\ data' = [data EXCEPT ![c] = Append(@, [kind |-> "initial", frame |-> horizon])]
  /\ conns' = Append(conns, c)
  /\ bootstraps' = Append(bootstraps, [conn |-> c, start |-> horizon])
  /\ active_conns' = active_conns + 1
  /\ task' = [task EXCEPT ![c] = "bootstrap"]
  /\ stage' = [stage EXCEPT ![c] = "greeted"]
  /\ UNCHANGED <<routine, stopping, horizon, closed, updaterVars, relayed, outgoing,
                 incoming, reply, start, kept>>

(* case conn := <-c.Net.NewConns(): the client is promised the first frame *)
(* of which nothing has been seen.                                         *)
Accept(c) ==
  /\ routine = "select" /\ stage[c] = "away" /\ horizon < MaxFrame
  /\ data' = [data EXCEPT ![c] = Append(@, [kind |-> "initial", frame |-> horizon + 1])]
  /\ conns' = Append(conns, c)
  /\ bootstraps' = Append(bootstraps, [conn |-> c, start |-> horizon + 1])
  /\ active_conns' = active_conns + 1
  /\ task' = [task EXCEPT ![c] = "bootstrap"]
  /\ stage' = [stage EXCEPT ![c] = "greeted"]
  /\ UNCHANGED <<routine, stopping, horizon, closed, updaterVars, relayed, outgoing,
                 incoming, reply, start, kept>>

(* A goroutine sends bundle to each conn of receivers.                     *)
PassOn(bundle, receivers) ==
  /\ horizon' = Greater(horizon, bundle[2])
  /\ relayed' = relayed \cup {bundle}
  /\ outgoing' = outgoing \cup (receivers \X {bundle})

(* case bundle := <-c.Broadcast_bundles                                    *)
BroadcastBundle ==
  /\ routine = "select" /\ broadcast < MaxFrame
  /\ broadcast' = broadcast + 1
  /\ PassOn(<<Host, broadcast + 1>>, ToSet(conns))
  /\ UNCHANGED <<routine, stopping, conns, bootstraps, active_conns, task, closed, final,
                 joined, incoming, data, reply, clientVars>>

(* case remote_bundle := <-c.remote_fan_in, from the connRoutine of c.     *)
RelayBundle(c) ==
  /\ routine = "select" /\ task[c] = "conn"
  /\ \E bundle \in incoming :
       /\ bundle[1] = c
       /\ PassOn(bundle, ToSet(conns) \ {c})
       /\ incoming' = incoming \ {bundle}
  /\ UNCHANGED <<routine, stopping, conns, bootstraps, active_conns, task, closed,
                 updaterVars, data, reply, clientVars>>

(* The loop that removes the conns that have been sent their frame: one    *)
(* that is removed is replaced by the last, and the index moves on.        *)
Removal(frame) ==
  LET left[i \in 0 .. Len(bootstraps)] ==
        IF i = 0 THEN bootstraps
        ELSE LET now == left[i - 1]
             IN  IF i <= Len(now) /\ now[i].start = frame
                   THEN SubSeq([now EXCEPT ![i] = Last(now)], 1, Len(now) - 1)
                   ELSE now
  IN  left
Remaining(frame) == Removal(frame)[Len(bootstraps)]

(* SendBootstrapFrame with a bug: one client is served per frame.          *)
SendBootstrapFrameOnce ==
  /\ routine = "select" /\ final < broadcast
  /\ final' = final + 1
  /\ LET ready == {j \in DOMAIN bootstraps : bootstraps[j].start = final + 1}
     IN  data' = [c \in Conn |->
                    IF \E i \in ready : bootstraps[i].conn = c /\ \A j \in ready : i <= j
                      THEN Append(data[c], [kind |-> "boot", frame |-> final + 1])
                      ELSE data[c]]
  /\ bootstraps' = Remaining(final + 1)
  /\ UNCHANGED <<routine, stopping, conns, horizon, active_conns, task, closed, broadcast,
                 joined, relayed, outgoing, incoming, reply, clientVars>>

(* case boostrap_frame := <-c.Bootstrap_frames                             *)
SendBootstrapFrame ==
  /\ routine = "select" /\ final < broadcast
  /\ final' = final + 1
  /\ LET ready == {bootstraps[i].conn :
                     i \in {j \in DOMAIN bootstraps : bootstraps[j].start = final + 1}}
     IN  data' = [c \in Conn |->
                    IF c \in ready THEN Append(data[c], [kind |-> "boot", frame |-> final + 1])
                    ELSE data[c]]
  /\ bootstraps' = Remaining(final + 1)
  /\ UNCHANGED <<routine, stopping, conns, horizon, active_conns, task, closed, broadcast,
                 joined, relayed, outgoing, incoming, reply, clientVars>>

Shutdown ==
  /\ ~stopping
  /\ stopping' = TRUE
  /\ UNCHANGED <<routine, conns, bootstraps, horizon, active_conns, task, closed,
                 updaterVars, relayed, outgoing, incoming, data, reply, clientVars>>

(* case <-c.shutdown                                                       *)
CloseConns ==
  /\ routine = "select" /\ stopping
  /\ routine' = "wait"
  /\ closed' = closed \cup ToSet(conns)
  /\ UNCHANGED <<stopping, conns, bootstraps, horizon, active_conns, task,
                 updaterVars, relayed, outgoing, incoming, data, reply, clientVars>>

(* active_conns.Wait() returns.                                            *)
Finish ==
  /\ routine = "wait" /\ active_conns = 0
  /\ routine' = "closed"
  /\ UNCHANGED <<stopping, conns, bootstraps, horizon, active_conns, task, closed,
                 updaterVars, relayed, outgoing, incoming, data, reply, clientVars>>

-----------------------------------------------------------------------------
(* bootstrapRoutine and connRoutine.                                       *)

(* Welcome with a bug: the confirmation is not waited for.                 *)
WelcomeAtOnce(c) ==
  /\ task[c] = "bootstrap"
  /\ \E frame \in broadcast + 1 .. broadcast + 2 : joined' = [joined EXCEPT ![c] = frame]
  /\ task' = [task EXCEPT ![c] = "conn"]
  /\ UNCHANGED <<routine, stopping, conns, bootstraps, horizon, active_conns, closed,
                 broadcast, final, relayed, outgoing, incoming, data, reply, clientVars>>

(* The client is ready: the Bundler takes the EngineJoined event, which    *)
(* goes into the next bundle, or the one after when a bundle is being      *)
(* handled already.                                                        *)
Welcome(c) ==
  /\ task[c] = "bootstrap" /\ reply[c] = "ready"
  /\ \E frame \in broadcast + 1 .. broadcast + 2 : joined' = [joined EXCEPT ![c] = frame]
  /\ task' = [task EXCEPT ![c] = "conn"]
  /\ UNCHANGED <<routine, stopping, conns, bootstraps, horizon, active_conns, closed,
                 broadcast, final, relayed, outgoing, incoming, data, reply, clientVars>>

(* The conn was closed, or the confirmation is not one: the goroutine      *)
(* ends, and the conn is neither removed nor counted down.                 *)
BootstrapFails(c) ==
  /\ task[c] = "bootstrap" /\ (c \in closed \/ reply[c] = "bad")
  /\ task' = [task EXCEPT ![c] = "failed"]
  /\ closed' = closed \cup {c}
  /\ UNCHANGED <<routine, stopping, conns, bootstraps, horizon, active_conns,
                 updaterVars, relayed, outgoing, incoming, data, reply, clientVars>>

EndConn(c) ==
  /\ task[c] = "conn" /\ c \in closed
  /\ task' = [task EXCEPT ![c] = "ended"]
  /\ active_conns' = active_conns - 1
  /\ UNCHANGED <<routine, stopping, conns, bootstraps, horizon, closed,
                 updaterVars, relayed, outgoing, incoming, data, reply, clientVars>>

-----------------------------------------------------------------------------
(* The clients: Join(), then the connRoutine for the host.                 *)

ReadInitial(c) ==
  /\ stage[c] = "greeted" /\ data[c] # <<>>
  /\ start' = [start EXCEPT ![c] = Head(data[c]).frame]
  /\ data' = [data EXCEPT ![c] = Tail(@)]
  /\ stage' = [stage EXCEPT ![c] = "joining"]
  /\ UNCHANGED <<hostVars, updaterVars, relayed, outgoing, incoming, reply, kept>>

(* Collect with a bug: the first bundle after its frame is dropped too.    *)
CollectLate(c) ==
  /\ stage[c] = "joining"
  /\ \E sent \in outgoing :
       /\ sent[1] = c
       /\ outgoing' = outgoing \ {sent}
       /\ kept' = IF sent[2][2] > start[c] + 1 THEN [kept EXCEPT ![c] = @ \cup {sent[2]}]
                  ELSE kept
  /\ UNCHANGED <<hostVars, updaterVars, relayed, incoming, data, reply, stage, start>>

(* While it waits for its frame a client keeps what comes after that frame.*)
Collect(c) ==
  /\ stage[c] = "joining"
  /\ \E sent \in outgoing :
       /\ sent[1] = c
       /\ outgoing' = outgoing \ {sent}
       /\ kept' = IF sent[2][2] > start[c] THEN [kept EXCEPT ![c] = @ \cup {sent[2]}] ELSE kept
  /\ UNCHANGED <<hostVars, updaterVars, relayed, incoming, data, reply, stage, start>>

ReadBoot(c) ==
  /\ stage[c] = "joining" /\ data[c] # <<>>
  /\ data' = [data EXCEPT ![c] = Tail(@)]
  /\ reply' = [reply EXCEPT ![c] = "ready"]
  /\ stage' = [stage EXCEPT ![c] = "playing"]
  /\ UNCHANGED <<hostVars, updaterVars, relayed, outgoing, incoming, start, kept>>

(* The frame cannot be decoded: the client closes its conn.                *)
GiveUp(c) ==
  /\ c \in MayFail /\ stage[c] = "joining" /\ data[c] # <<>>
  /\ data' = [data EXCEPT ![c] = Tail(@)]
  /\ reply' = [reply EXCEPT ![c] = "bad"]
  /\ stage' = [stage EXCEPT ![c] = "gone"]
  /\ UNCHANGED <<hostVars, updaterVars, relayed, outgoing, incoming, start, kept>>

Receive(c) ==
  /\ stage[c] = "playing"
  /\ \E sent \in outgoing :
       /\ sent[1] = c
       /\ outgoing' = outgoing \ {sent}
       /\ kept' = [kept EXCEPT ![c] = @ \cup {sent[2]}]
  /\ UNCHANGED <<hostVars, updaterVars, relayed, incoming, data, reply, stage, start>>

(* A client that has seen its EngineJoined event supplies every frame from *)
(* that event's on, one after the other.                                   *)
Play(c) ==
  /\ stage[c] = "playing" /\ <<Host, joined[c]>> \in kept[c]
  /\ \E frame \in joined[c] .. MaxFrame :
       /\ <<c, frame>> \notin relayed \cup incoming
       /\ frame > joined[c] => <<c, frame - 1>> \in relayed \cup incoming
       /\ incoming' = incoming \cup {<<c, frame>>}
  /\ UNCHANGED <<hostVars, updaterVars, relayed, outgoing, data, reply, clientVars>>

HostStep(c) == Accept(c) \/ RelayBundle(c) \/ Welcome(c) \/ BootstrapFails(c) \/ EndConn(c)
ClientStep(c) ==
  ReadInitial(c) \/ Collect(c) \/ ReadBoot(c) \/ GiveUp(c) \/ Receive(c) \/ Play(c)

Next ==
  \/ BroadcastBundle \/ SendBootstrapFrame \/ Shutdown \/ CloseConns \/ Finish
  \/ \E c \in Conn : HostStep(c)
  \/ \E c \in Conn : ClientStep(c)

Spec == Init /\ [][Next]_vars

(* Each goroutine runs, and what is sent arrives.  A case of routine()'s   *)
(* select that is ready stays ready until it is picked or routine() stops, *)
(* and each can be picked a bounded number of times only.                  *)
Fairness ==
  /\ WF_vars(BroadcastBundle) /\ WF_vars(SendBootstrapFrame)
  /\ WF_vars(CloseConns) /\ WF_vars(Finish)
  /\ \A c \in Conn :
       /\ WF_vars(RelayBundle(c)) /\ WF_vars(Welcome(c))
       /\ WF_vars(BootstrapFails(c)) /\ WF_vars(EndConn(c))
       /\ WF_vars(ReadInitial(c)) /\ WF_vars(ReadBoot(c) \/ GiveUp(c))
       /\ WF_vars(Collect(c)) /\ WF_vars(Receive(c)) /\ WF_vars(Play(c))

FairSpec == Spec /\ Fairness

-----------------------------------------------------------------------------
Stages == {"away", "greeted", "joining", "playing", "gone"}
Tasks == {"none", "bootstrap", "conn", "ended", "failed"}
Boot == [conn : Conn, start : Nat]
Message == [kind : {"initial", "boot"}, frame : Nat]

TypeOK ==
  /\ routine \in {"select", "wait", "closed"} /\ stopping \in BOOLEAN
  /\ conns \in Seq(Conn) /\ bootstraps \in Seq(Boot)
  /\ {horizon, active_conns, broadcast, final} \subseteq Nat
  /\ task \in [Conn -> Tasks] /\ closed \subseteq Conn
  /\ joined \in [Conn -> Nat]
  /\ relayed \subseteq Bundle /\ incoming \subseteq Bundle /\ outgoing \subseteq Conn \X Bundle
  /\ data \in [Conn -> Seq(Message)] /\ reply \in [Conn -> {"none", "ready", "bad"}]
  /\ stage \in [Conn -> Stages] /\ start \in [Conn -> Nat]
  /\ kept \in [Conn -> SUBSET Bundle]

(* The frame a client has been, or is about to be, told it starts on.      *)
Promised(c) == IF stage[c] = "greeted" THEN Head(data[c]).frame ELSE start[c]

(* A client gets every bundle after its first frame that routine() passes  *)
(* on: those of the host and of the other clients, whether they are passed *)
(* on before, while or after the client is bootstrapped.  Its Updater      *)
(* takes for granted that no such bundle is lost on the way.               *)
NothingMissed ==
  \A c \in ToSet(conns), bundle \in relayed :
    bundle[1] # c /\ bundle[2] > Promised(c) /\ stage[c] # "gone"
      => bundle \in kept[c] \/ <<c, bundle>> \in outgoing

(* The frame a client was promised is still to become final, or is on its  *)
(* way to it: no client waits for a frame that has passed.                 *)
PromiseKept ==
  \A c \in Conn :
    stage[c] \in {"greeted", "joining"} =>
      \/ final < Promised(c)
      \/ [kind |-> "boot", frame |-> Promised(c)] \in ToSet(data[c])

(* A client's EngineJoined event comes after its first frame, so it is not *)
(* among the bundles the client discards, and no bundle of the client is   *)
(* for a frame before the event.                                           *)
JoinsAfterItsFrame ==
  \A c \in Conn :
    /\ joined[c] # 0 => joined[c] > start[c]
    /\ \A bundle \in relayed \cup incoming : bundle[1] = c => bundle[2] > start[c]

(* Every client that is accepted gets into the game, unless it gives up or *)
(* the host shuts down.                                                    *)
JoinsComplete ==
  \A c \in Conn : stage[c] = "greeted" ~> joined[c] # 0 \/ stage[c] = "gone" \/ stopping

(* Shutdown() gets routine() to return: "Clean out remote_fan_in so that   *)
(* our conn routines can terminate", then active_conns, an "Easy way to    *)
(* accurately count live connections", is waited for.                      *)
ShutdownReturns == stopping ~> routine = "closed"
=============================================================================
