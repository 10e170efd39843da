----------------------------- MODULE NetworkMock -----------------------------
(***************************************************************************)
(* NetworkMock, HostMock and ConnMock (core/network_mock.go): the network  *)
(* of engines that live in one process.  A conn is its pair_id, an end of  *)
(* it a <<pair_id, host>>.  Each payload is carried by a goroutine of its  *)
(* own on each of its hops, so they overtake each other.  A panic, in      *)
(* whatever goroutine, takes the process down.                             *)
(***************************************************************************)
EXTENDS Naturals, FiniteSets, SequencesExt

CONSTANTS
  Caller,      \* goroutines that call Join
  MaxHosts,    \* bound: the HostMocks made
  MaxConns,    \* bound: the conns made
  MaxPayloads  \* bound: the payloads sent

ASSUME NetworkMockAssumption == {MaxHosts, MaxConns, MaxPayloads} \subseteq Nat

VARIABLES
  made,      \* net.host_id: the HostMocks made so far
  hosts,     \* net.hosts
  hosting,   \* the hosts whose ping and join are not nil
  found,     \* the hosts that Pings have returned
  joining,   \* per caller, the Join under way: <<from, to>> or Idle
  locked,    \* host_mutex is held by the goroutine that Join starts
  conns,     \* per conn, its ends' hosts: conn_data of them both
  offers,    \* the goroutines with a conn for the reader of NewConns()
  taken,     \* <<conn, host>>: the conns received from NewConns()
  sent,      \* per end of a conn, the payloads sent to it
  flight,    \* the goroutines that carry a payload
  received,  \* per end of a conn, the payloads received there
  purges,    \* per end, the sends on purge its Close has left
  running,   \* the ends whose ConnMock.routine runs
  relaying,  \* the ends whose HostMock.connRoutine runs
  crashed    \* a goroutine has panicked

hostVars == <<made, hosts, hosting, found>>
joinVars == <<joining, locked, conns, offers, taken>>
payloads == <<sent, flight, received>>
ends == <<purges, running, relaying>>
vars == <<hostVars, joinVars, payloads, ends, crashed>>

Id == 1 .. MaxHosts
End == (1 .. MaxConns) \X Id
Idle == <<0, 0>>

Init ==
  /\ made = 0 /\ hosts = <<>> /\ hosting = {} /\ found = {}
  /\ joining = [c \in Caller |-> Idle] /\ locked = FALSE
  /\ conns = <<>> /\ offers = {} /\ taken = {}
  /\ sent = [e \in End |-> <<>>] /\ received = [e \in End |-> <<>>] /\ flight = {}
  /\ purges = [e \in End |-> 0] /\ running = {} /\ relaying = {}
  /\ crashed = FALSE

-----------------------------------------------------------------------------
(* Ping returns the hosts that have a ping function.  The callers keep     *)
(* what it returned.  Bound: a host is pinged as soon as it hosts.         *)
Pinged(now, before) == before \cup (now \cap Range(hosts))

NewHostMock ==
  /\ ~locked /\ made < MaxHosts
  /\ made' = made + 1
  /\ hosts' = Append(hosts, made + 1)
  /\ UNCHANGED <<hosting, found, joinVars, payloads, ends, crashed>>

(* Host(ping, join), both nil when on is FALSE; the first step of Shutdown *)
(* Bound: a host hosts once.                                               *)
Host(h, on) ==
  /\ ~locked /\ h <= made /\ (on => h \notin found)
  /\ hosting' = IF on THEN hosting \cup {h} ELSE hosting \ {h}
  /\ found' = Pinged(hosting', found)
  /\ UNCHANGED <<made, hosts, joinVars, payloads, ends, crashed>>

(* RemoveHost with a bug: the slice keeps its length.                      *)
RemoveHostKeeps(h) ==
  /\ ~locked /\ h \notin hosting /\ Len(hosts) = made
  /\ \E i \in DOMAIN hosts : hosts[i] = h /\ hosts' = [hosts EXCEPT ![i] = Last(hosts)]
  /\ UNCHANGED <<made, hosting, found, joinVars, payloads, ends, crashed>>

(* The second step of Shutdown: the last host takes its place.             *)
(* Bound: one host is shut down.                                           *)
RemoveHost(h) ==
  /\ ~locked /\ h \notin hosting /\ Len(hosts) = made
  /\ \E i \in DOMAIN hosts :
       hosts[i] = h /\ hosts' = Front([hosts EXCEPT ![i] = Last(hosts)])
  /\ UNCHANGED <<made, hosting, found, joinVars, payloads, ends, crashed>>

-----------------------------------------------------------------------------
(* The conn_data of h has a conn to r                                      *)
Connected(h, r) == \E id \in DOMAIN conns : conns[id] = <<h, r>> \/ conns[id] = <<r, h>>

(* Join reads its own conn_data without the mutex, and another Join that   *)
(* writes there before it has done so may crash the process.               *)
StartJoin(c, h, r) ==
  /\ joining[c] = Idle /\ Len(conns) < MaxConns /\ h <= made /\ r \in found /\ r # h
  /\ ~Connected(h, r)
  /\ joining' = [joining EXCEPT ![c] = <<h, r>>]
  /\ UNCHANGED <<hostVars, locked, conns, offers, taken, payloads, ends, crashed>>

(* With a bug: the remote's conns are not looked at once the mutex is held *)
MayJoinUnchecked(call) == call # Idle /\ call[2] \in Range(hosts)

MayJoin(call) == call # Idle /\ call[2] \in Range(hosts) /\ ~Connected(call[1], call[2])

(* The remote host is gone or already connected, or its join refuses.      *)
JoinFails(c) ==
  /\ ~locked /\ joining[c] # Idle
  /\ MayJoin(joining[c]) => joining[c][2] \in hosting
  /\ joining' = [joining EXCEPT ![c] = Idle]
  /\ UNCHANGED <<hostVars, locked, conns, offers, taken, payloads, ends, crashed>>

(* join of a host that has been turned off is nil.                         *)
JoinPanics(c) ==
  /\ ~locked /\ MayJoin(joining[c]) /\ joining[c][2] \notin hosting
  /\ crashed' = TRUE
  /\ UNCHANGED <<hostVars, joinVars, payloads, ends>>

(* join accepts: makeConnMockPair starts the four routines of a conn, and  *)
(* a goroutine is left to unlock the mutex.                                *)
JoinAccepted(c) ==
  LET id == Len(conns) + 1
      pair == Range(joining[c])
  IN  /\ ~locked /\ MayJoin(joining[c]) /\ joining[c][2] \in hosting /\ id <= MaxConns
      /\ conns' = Append(conns, joining[c])
      /\ running' = running \cup ({id} \X pair)
      /\ relaying' = relaying \cup ({id} \X pair)
      /\ joining' = [joining EXCEPT ![c] = Idle]
      /\ locked' = TRUE
      /\ \E i \in DOMAIN hosts :
           hosts[i] = joining[c][2] /\ offers' = offers \cup {[conn |-> id, index |-> i, to |-> 0]}
      /\ \E d \in Caller : crashed' \in {FALSE, d # c /\ joining[d][1] \in pair}
      /\ UNCHANGED <<hostVars, taken, payloads, purges>>

Unlock ==
  /\ locked
  /\ locked' = FALSE
  /\ UNCHANGED <<hostVars, joining, conns, offers, taken, payloads, ends, crashed>>

(* With a bug: hosts[0] is taken for the remote host.                      *)
OfferFirst(o) ==
  /\ o \in offers /\ o.to = 0 /\ (locked => o.conn # Len(conns))
  /\ hosts # <<>> /\ offers' = (offers \ {o}) \cup {[o EXCEPT !.to = hosts[1]]}
  /\ UNCHANGED <<hostVars, joining, locked, conns, taken, payloads, ends, crashed>>

(* Only after the unlock does the goroutine look up hosts[i], which may    *)
(* be another host by now, or out of range.                                *)
Offer(o) ==
  /\ o \in offers /\ o.to = 0 /\ (locked => o.conn # Len(conns))
  /\ IF o.index \in DOMAIN hosts
       THEN offers' = (offers \ {o}) \cup {[o EXCEPT !.to = hosts[o.index]]} /\ crashed' = crashed
       ELSE crashed' = TRUE /\ offers' = offers
  /\ UNCHANGED <<hostVars, joining, locked, conns, taken, payloads, ends>>

(* A receive from h's NewConns()                                           *)
TakeNewConn(o) ==
  /\ o \in offers /\ o.to # 0
  /\ offers' = offers \ {o}
  /\ taken' = taken \cup {<<o.conn, o.to>>}
  /\ UNCHANGED <<hostVars, joining, locked, conns, payloads, ends, crashed>>

-----------------------------------------------------------------------------
EndsOf(id) == {id} \X Range(conns[id])
Remote(e) == CHOOSE f \in EndsOf(e[1]) : f # e

(* SendData or SendFrameBundle at one end, to the other.  The host's end   *)
(* is used by whoever received it from NewConns().                         *)
Send(e) ==
  LET to == Remote(e)
  IN  /\ e \in running /\ (e[2] = conns[e[1]][2] => \E h \in Id : <<e[1], h>> \in taken)
      /\ Cardinality(UNION {{f} \X DOMAIN sent[f] : f \in End}) < MaxPayloads
      /\ sent' = [sent EXCEPT ![to] = Append(@, "payload")]
      /\ flight' = flight \cup {[to |-> to, n |-> Len(sent[to]) + 1, at |-> "send"]}
      /\ UNCHANGED <<hostVars, joinVars, received, ends, crashed>>

(* With a bug: what one end's connRoutine takes is left for the other's.   *)
RelayCopy(p) ==
  /\ p \in flight /\ p.at = "send" /\ EndsOf(p.to[1]) \cap relaying # {}
  /\ flight' = flight \cup {[p EXCEPT !.at = "relay"]}
  /\ UNCHANGED <<hostVars, joinVars, sent, received, ends, crashed>>

(* The connRoutine of either end takes it.                                 *)
Relay(p) ==
  /\ p \in flight /\ p.at = "send" /\ EndsOf(p.to[1]) \cap relaying # {}
  /\ flight' = (flight \ {p}) \cup {[p EXCEPT !.at = "relay"]}
  /\ UNCHANGED <<hostVars, joinVars, sent, received, ends, crashed>>

Arrive(p) ==
  /\ p \in flight /\ p.at = "relay" /\ p.to \in running
  /\ flight' = (flight \ {p}) \cup {[p EXCEPT !.at = "recv"]}
  /\ UNCHANGED <<hostVars, joinVars, sent, received, ends, crashed>>

Receive(p) ==
  /\ p \in flight /\ p.at = "recv"
  /\ flight' = flight \ {p}
  /\ received' = [received EXCEPT ![p.to] = Append(@, p.n)]
  /\ UNCHANGED <<hostVars, joinVars, sent, ends, crashed>>

(* Close makes two sends on purge: one is received by the end's routine,   *)
(* the other by its connRoutine.  Nobody receives those of a second Close. *)
Close(e) ==
  /\ e \in UNION {EndsOf(id) : id \in DOMAIN conns} /\ purges[e] = 0
  /\ purges' = [purges EXCEPT ![e] = 2]
  /\ UNCHANGED <<hostVars, joinVars, payloads, running, relaying, crashed>>

(* The routine closes the channels of received payloads: goroutines still  *)
(* blocked in a send on them panic.                                        *)
StopRoutine(e) ==
  /\ e \in running /\ purges[e] > 0
  /\ running' = running \ {e}
  /\ purges' = [purges EXCEPT ![e] = @ - 1]
  /\ crashed' = \E p \in flight : p.to = e /\ p.at = "recv"
  /\ UNCHANGED <<hostVars, joinVars, payloads, relaying>>

(* With a bug: it waits for its goroutines before it receives.             *)
StopRelayWaits(e) ==
  /\ e \in relaying /\ purges[e] > 0 /\ ~\E p \in flight : p.to = e /\ p.at = "relay"
  /\ relaying' = relaying \ {e}
  /\ purges' = [purges EXCEPT ![e] = @ - 1]
  /\ UNCHANGED <<hostVars, joinVars, payloads, running, crashed>>

(* connRoutine then waits for its goroutines and returns.                  *)
StopRelay(e) ==
  /\ e \in relaying /\ purges[e] > 0
  /\ relaying' = relaying \ {e}
  /\ purges' = [purges EXCEPT ![e] = @ - 1]
  /\ UNCHANGED <<hostVars, joinVars, payloads, running, crashed>>

-----------------------------------------------------------------------------
HostNext ==
  \/ NewHostMock
  \/ \E h \in Id : RemoveHost(h) \/ \E on \in BOOLEAN : Host(h, on)

JoinNext ==
  \/ Unlock
  \/ \E c \in Caller : JoinFails(c) \/ JoinPanics(c) \/ JoinAccepted(c)
  \/ \E c \in Caller, h, r \in Id : StartJoin(c, h, r)
  \/ \E o \in offers : Offer(o) \/ TakeNewConn(o)

ConnNext ==
  \/ \E e \in End : Close(e) \/ StopRoutine(e) \/ StopRelay(e)
  \/ \E e \in running : Send(e)
  \/ \E p \in flight : Relay(p) \/ Arrive(p) \/ Receive(p)

(* Bound: conns are used in a network of two hosts, which changes no more  *)
(* from then on.                                                           *)
Unused == sent = [e \in End |-> <<>>] /\ purges = [e \in End |-> 0]
Settled == made <= 2 /\ offers = {} /\ \A c \in Caller : joining[c] = Idle

Next ==
  /\ ~crashed
  /\ \/ Unused /\ (HostNext \/ JoinNext)
     \/ Settled /\ ConnNext

(* A routine whose select can receive from purge does so in the end: it    *)
(* never blocks elsewhere.                                                 *)
Stop == ~crashed /\ \E e \in End : StopRoutine(e) \/ StopRelay(e)

Spec == Init /\ [][Next]_vars /\ WF_vars(Stop)
-----------------------------------------------------------------------------
TypeOK ==
  /\ made \in 0 .. MaxHosts /\ Range(hosts) \subseteq 1 .. made /\ IsInjective(hosts)
  /\ hosting \subseteq 1 .. made /\ found \subseteq 1 .. made
  /\ joining \in [Caller -> {Idle} \cup (Id \X Id)]
  /\ locked \in BOOLEAN /\ crashed \in BOOLEAN
  /\ conns \in Seq(Id \X Id) /\ Len(conns) <= MaxConns
  /\ offers \subseteq [conn : DOMAIN conns, index : Id, to : Id \cup {0}]
  /\ taken \subseteq End
  /\ \A e \in End : Range(received[e]) \subseteq DOMAIN sent[e] /\ purges[e] \in 0 .. 2
  /\ flight \subseteq [to : End, n : 1 .. MaxPayloads, at : {"send", "relay", "recv"}]
  /\ running \subseteq End /\ relaying \subseteq End

(* Two hosts never have two conns between them, whoever joins whom from    *)
(* however many goroutines: conn_data is read a second time with the mutex *)
(* held (HostMock.Join).                                                   *)
OneConnPerPair ==
  \A i, j \in DOMAIN conns : i # j => Range(conns[i]) # Range(conns[j])

(* As long as no host has been shut down, a conn comes out of NewConns()   *)
(* of the host that was joined, although Join looks that host up again     *)
(* after it has let go of the mutex.                                       *)
NewConnsReachTheirHost ==
  Len(hosts) = made =>
    \A id \in DOMAIN conns :
      /\ \A h \in Id : <<id, h>> \in taken => h = conns[id][2]
      /\ \A o \in offers : o.conn = id => o.to \in {0, conns[id][2]}

(* Each direction of a conn carries what is sent on it, each payload at    *)
(* most once, if not in order (ConnMock, core/network.go:18).              *)
ConnSpec == INSTANCE Conn WITH
  Direction <- End, Kind <- {"payload"}, InOrder <- FALSE
ImplementsConn == ConnSpec!Spec

(* The first Close of a conn returns, whatever is in flight on it.         *)
CloseReturns ==
  \A e \in End : e \in running \cap relaying /\ purges[e] > 0 ~> purges[e] = 0 \/ crashed
=============================================================================
