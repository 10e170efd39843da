-------------------------- MODULE NetworkMockProofs --------------------------
(***************************************************************************)
(* Two engines of a process never have two conns between them, a conn is   *)
(* handed to the host that was joined, and each of its directions          *)
(* implements Conn.                                                        *)
(***************************************************************************)
EXTENDS NetworkMock, SharedLemmas, FiniteSetTheorems

-----------------------------------------------------------------------------
(* The inductive invariant.                                                *)

HostsInv ==
  /\ made \in 0 .. MaxHosts /\ hosts \in Seq(1 .. made) /\ IsInjective(hosts)
  /\ Len(hosts) \in {made, made - 1}
  /\ hosting \subseteq 1 .. made /\ found \subseteq 1 .. made

(* Nobody joins itself.                                                    *)
JoinsInv ==
  /\ joining \in [Caller -> {Idle} \cup (Id \X Id)]
  /\ \A c \in Caller : joining[c] # Idle => joining[c][1] # joining[c][2]
  /\ conns \in Seq(Id \X Id) /\ Len(conns) <= MaxConns
  /\ \A id \in DOMAIN conns : conns[id][1] # conns[id][2]
  /\ locked \in BOOLEAN

(* An offer knows the index of its host as long as no host was removed.    *)
OffersInv ==
  /\ offers \subseteq [conn : DOMAIN conns, index : Id, to : Id \cup {0}]
  /\ taken \subseteq (DOMAIN conns) \X Id
  /\ Len(hosts) = made =>
       /\ \A o \in offers :
            /\ o.index \in DOMAIN hosts /\ hosts[o.index] = conns[o.conn][2]
            /\ o.to \in {0, conns[o.conn][2]}
       /\ \A t \in taken : t[2] = conns[t[1]][2]

(* The ends of the conns that have been made.                              *)
ConnEnds == {e \in End : e[1] \in DOMAIN conns /\ e[2] \in Range(conns[e[1]])}

Carrier == [to : End, n : 1 .. MaxPayloads, at : {"send", "relay", "recv"}]

EndsTyped ==
  /\ sent \in [End -> Seq({"payload"})] /\ received \in [End -> Seq(Nat)]
  /\ flight \subseteq Carrier
  /\ purges \in [End -> 0 .. 2]
  /\ running \subseteq ConnEnds /\ relaying \subseteq ConnEnds
  /\ crashed \in BOOLEAN

(* A payload is received or in flight, once, and never both.               *)
FlightInv ==
  /\ \A e \in End : Range(received[e]) \subseteq DOMAIN sent[e]
  /\ \A p \in flight : p.n \in DOMAIN sent[p.to] /\ p.n \notin Range(received[p.to])
  /\ \A p, q \in flight : p.to = q.to /\ p.n = q.n => p = q

IInv == HostsInv /\ JoinsInv /\ OffersInv /\ OneConnPerPair /\ EndsTyped /\ FlightInv

-----------------------------------------------------------------------------
(* The hosts.                                                              *)

LEMMA HostFacts ==
  ASSUME HostsInv
  PROVE  /\ MaxHosts \in Nat /\ MaxConns \in Nat /\ MaxPayloads \in Nat
         /\ made \in Nat /\ Len(hosts) \in Nat /\ DOMAIN hosts = 1 .. Len(hosts)
         /\ \A i \in DOMAIN hosts : hosts[i] \in 1 .. made /\ hosts[i] \in Id
         /\ DOMAIN hosts \subseteq Id /\ 1 .. made \subseteq Id
<1>1. MaxHosts \in Nat /\ MaxConns \in Nat /\ MaxPayloads \in Nat /\ made \in Nat
  BY NetworkMockAssumption DEF HostsInv
<1>2. Len(hosts) \in Nat /\ DOMAIN hosts = 1 .. Len(hosts) /\ \A i \in DOMAIN hosts : hosts[i] \in 1 .. made
  BY DEF HostsInv
<1>3. Id = 1 .. MaxHosts /\ made <= MaxHosts /\ Len(hosts) <= made
  <2>1. made \in 0 .. MaxHosts /\ Len(hosts) \in {made, made - 1}
    BY DEF HostsInv
  <2>2. Id = 1 .. MaxHosts
    BY DEF Id
  <2>3. made <= MaxHosts
    BY <1>1, <2>1
  <2>4. Len(hosts) <= made
    <3>1. Len(hosts) = made \/ Len(hosts) = made - 1
      BY <2>1
    <3>2. \A m, l \in Nat : l = m \/ l = m - 1 => l <= m
      OBVIOUS
    <3> QED
      BY <1>1, <1>2, <3>1, <3>2
  <2> QED
    BY <2>2, <2>3, <2>4
<1>4. 1 .. made \subseteq Id /\ DOMAIN hosts \subseteq Id
  BY <1>1, <1>2, <1>3
<1> QED
  BY <1>1, <1>2, <1>4

LEMMA NewHostStep ==
  ASSUME HostsInv, NewHostMock
  PROVE  /\ HostsInv' /\ (Len(hosts') = made' => Len(hosts) = made)
         /\ \A i \in DOMAIN hosts : i \in DOMAIN hosts' /\ hosts'[i] = hosts[i]
<1>1. made' = made + 1 /\ hosts' = Append(hosts, made + 1) /\ made + 1 \in 0 .. MaxHosts
      /\ hosting' = hosting /\ found' = found
  BY HostFacts DEF NewHostMock
<1>2. hosts \in Seq(1 .. made + 1) /\ made + 1 \in 1 .. made + 1
  <2>1. 1 .. made \subseteq 1 .. made + 1
    BY HostFacts
  <2> QED
    BY <2>1, SeqMonotonic, HostFacts DEF HostsInv
<1>3. /\ hosts' \in Seq(1 .. made + 1) /\ Len(hosts') = Len(hosts) + 1
      /\ \A i \in 1 .. Len(hosts) : hosts'[i] = hosts[i]
      /\ hosts'[Len(hosts) + 1] = made + 1
  BY <1>1, <1>2, AppendProperties
<1>4. DOMAIN hosts' = 1 .. Len(hosts) + 1
  BY <1>3
<1>5. IsInjective(hosts')
  <2> SUFFICES ASSUME NEW a \in DOMAIN hosts', NEW b \in DOMAIN hosts', hosts'[a] = hosts'[b]
               PROVE  a = b
    BY DEF IsInjective
  <2>1. a \in DOMAIN hosts \/ a = Len(hosts) + 1
    BY <1>4, HostFacts
  <2>2. b \in DOMAIN hosts \/ b = Len(hosts) + 1
    BY <1>4, HostFacts
  <2>3. \A i \in DOMAIN hosts : hosts[i] # made + 1
    BY HostFacts
  <2> QED
    BY <1>3, <2>1, <2>2, <2>3, HostFacts DEF HostsInv, IsInjective
<1> QED
  BY <1>1, <1>3, <1>4, <1>5, HostFacts DEF HostsInv

(* The last host takes the place of the one that is removed.               *)
LEMMA RemoveHostStep ==
  ASSUME HostsInv, NEW h \in Id, RemoveHost(h)
  PROVE  HostsInv' /\ Len(hosts') # made'
<1>1. PICK i \in DOMAIN hosts : hosts[i] = h /\ hosts' = Front([hosts EXCEPT ![i] = Last(hosts)])
  BY DEF RemoveHost
<1> DEFINE n == Len(hosts)
           moved == [hosts EXCEPT ![i] = hosts[n]]
<1>2. n \in Nat /\ i \in 1 .. n /\ n \in 1 .. n /\ hosts[n] \in 1 .. made /\ n = made
  BY HostFacts DEF RemoveHost
<1>3. /\ moved \in Seq(1 .. made) /\ Len(moved) = n
      /\ \A j \in 1 .. n : moved[j] = IF j = i THEN hosts[n] ELSE hosts[j]
  BY <1>2, ExceptSeq DEF HostsInv
<1>4. hosts' = SubSeq(moved, 1, n - 1)
  BY <1>1, <1>3 DEF Front, Last
<1> HIDE DEF moved
<1>5. /\ hosts' \in Seq(1 .. made) /\ Len(hosts') = n - 1
      /\ \A j \in 1 .. n - 1 : hosts'[j] = moved[j]
  <2>1. ASSUME NEW j \in 1 .. n - 1 PROVE moved[j] \in 1 .. made
    <3>1. j \in 1 .. n
      BY <1>2
    <3> QED
      BY <1>3, <3>1, ElementOfSeq
  <2>2. 1 \in Int /\ n - 1 \in Int
    BY <1>2
  <2> QED
    BY <1>2, <1>4, <2>1, <2>2, SubSeqProperties
<1>6. IsInjective(hosts')
  <2> SUFFICES ASSUME NEW a \in DOMAIN hosts', NEW b \in DOMAIN hosts', hosts'[a] = hosts'[b]
               PROVE  a = b
    BY DEF IsInjective
  <2>1. a \in 1 .. n - 1 /\ b \in 1 .. n - 1 /\ moved[a] = moved[b]
    BY <1>5
  <2>2. /\ \A j \in 1 .. n : j \in DOMAIN hosts
        /\ \A j \in 1 .. n - 1 : j \in 1 .. n /\ j # n
    BY <1>2, HostFacts
  <2>3. \A j, k \in DOMAIN hosts : hosts[j] = hosts[k] => j = k
    BY DEF HostsInv, IsInjective
  <2> QED
    BY <1>2, <1>3, <2>1, <2>2, <2>3
<1>7. made' = made /\ hosting' = hosting /\ found' = found
  BY DEF RemoveHost
<1> QED
  BY <1>2, <1>5, <1>6, <1>7, HostFacts DEF HostsInv

LEMMA HostStep ==
  ASSUME HostsInv, NEW h \in Id, NEW on \in BOOLEAN, Host(h, on)
  PROVE  HostsInv' /\ made' = made /\ hosts' = hosts
<1>1. made' = made /\ hosts' = hosts /\ hosting' \subseteq hosting \cup {h} /\ h \in 1 .. made
  BY HostFacts DEF Host, Id
<1>2. found' = found \cup (hosting' \cap Range(hosts))
  BY DEF Host, Pinged
<1>3. hosting' \subseteq 1 .. made /\ found' \subseteq 1 .. made
  BY <1>1, <1>2 DEF HostsInv
<1> QED
  BY <1>1, <1>3 DEF HostsInv

-----------------------------------------------------------------------------
(* Joins, and the conns they make.                                         *)

LEMMA JoinFacts ==
  ASSUME JoinsInv
  PROVE  /\ Len(conns) \in Nat /\ DOMAIN conns = 1 .. Len(conns)
         /\ \A id \in DOMAIN conns : conns[id] \in Id \X Id
         /\ \A c \in Caller : joining[c] # Idle => joining[c] \in Id \X Id
BY DEF JoinsInv

LEMMA OfferTyped ==
  ASSUME NEW A, NEW B, A \subseteq B, NEW I, NEW T, NEW o \in [conn : A, index : I, to : T]
  PROVE  o \in [conn : B, index : I, to : T] /\ o.conn \in A /\ o.index \in I /\ o.to \in T
OBVIOUS

LEMMA StartJoinStep ==
  ASSUME JoinsInv, NEW c \in Caller, NEW h \in Id, NEW r \in Id, StartJoin(c, h, r)
  PROVE  JoinsInv'
<1>1. /\ joining' = [joining EXCEPT ![c] = <<h, r>>] /\ r # h
      /\ conns' = conns /\ locked' = locked
  BY DEF StartJoin
<1> QED
  BY <1>1 DEF JoinsInv

LEMMA JoinFailsStep ==
  ASSUME JoinsInv, NEW c \in Caller, JoinFails(c)
  PROVE  JoinsInv'
<1>1. /\ joining' = [joining EXCEPT ![c] = Idle] /\ conns' = conns /\ locked' = locked
  BY DEF JoinFails
<1> QED
  BY <1>1 DEF JoinsInv

(* Two pairs of distinct hosts are the same two hosts in one of two orders *)
LEMMA SamePair ==
  ASSUME NEW S, NEW x \in S \X S, NEW y \in S \X S, x[1] # x[2], y[1] # y[2], Range(x) = Range(y)
  PROVE  x = y \/ x = <<y[2], y[1]>>
<1>1. \A z \in S \X S : Range(z) = {z[1], z[2]}
  BY DEF Range
<1>2. {x[1], x[2]} = {y[1], y[2]}
  BY <1>1
<1>3. (x[1] = y[1] /\ x[2] = y[2]) \/ (x[1] = y[2] /\ x[2] = y[1])
  BY <1>2
<1> QED
  BY <1>3

LEMMA JoinAcceptedStep ==
  ASSUME HostsInv, JoinsInv, OffersInv, OneConnPerPair, NEW c \in Caller, JoinAccepted(c)
  PROVE  /\ (JoinsInv /\ OffersInv /\ OneConnPerPair)'
         /\ DOMAIN conns' = DOMAIN conns \cup {Len(conns) + 1}
         /\ \A id \in DOMAIN conns : conns'[id] = conns[id]
         /\ conns'[Len(conns) + 1] = joining[c]
         /\ Len(conns) + 1 \in 1 .. MaxConns /\ joining[c] \in Id \X Id
<1> DEFINE id == Len(conns) + 1
<1>1. /\ joining[c] # Idle /\ ~Connected(joining[c][1], joining[c][2])
      /\ id <= MaxConns /\ conns' = Append(conns, joining[c])
      /\ joining' = [joining EXCEPT ![c] = Idle] /\ locked' = TRUE
      /\ UNCHANGED <<hostVars, taken>>
  BY DEF JoinAccepted, MayJoin
<1>2. PICK i \in DOMAIN hosts :
        hosts[i] = joining[c][2] /\ offers' = offers \cup {[conn |-> id, index |-> i, to |-> 0]}
  BY DEF JoinAccepted
<1>3. joining[c] \in Id \X Id /\ joining[c][1] # joining[c][2] /\ Len(conns) \in Nat
  BY <1>1, JoinFacts DEF JoinsInv
<1>4. /\ conns' \in Seq(Id \X Id) /\ Len(conns') = id
      /\ \A k \in 1 .. Len(conns) : conns'[k] = conns[k]
      /\ conns'[id] = joining[c]
  BY <1>1, <1>3, AppendProperties DEF JoinsInv
<1>5. /\ DOMAIN conns' = DOMAIN conns \cup {id} /\ DOMAIN conns = 1 .. Len(conns)
      /\ id \notin DOMAIN conns
  BY <1>3, <1>4, JoinFacts
<1> HIDE DEF id
<1>6. JoinsInv'
  BY <1>1, <1>3, <1>4, <1>5 DEF JoinsInv
<1>7. OneConnPerPair'
  <2>1. ASSUME NEW k \in DOMAIN conns, Range(conns[k]) = Range(joining[c]) PROVE FALSE
    <3>1. conns[k] \in Id \X Id /\ conns[k][1] # conns[k][2]
      BY JoinFacts DEF JoinsInv
    <3>2. conns[k] = joining[c] \/ conns[k] = <<joining[c][2], joining[c][1]>>
      BY <1>3, <2>1, <3>1, SamePair
    <3>3. joining[c] = <<joining[c][1], joining[c][2]>>
      BY <1>3
    <3> QED
      BY <1>1, <3>2, <3>3 DEF Connected
  <2> SUFFICES ASSUME NEW j \in DOMAIN conns', NEW k \in DOMAIN conns', j # k
               PROVE  Range(conns'[j]) # Range(conns'[k])
    BY DEF OneConnPerPair
  <2>2. CASE j \in DOMAIN conns /\ k \in DOMAIN conns
    BY <1>4, <1>5, <2>2 DEF OneConnPerPair
  <2>3. CASE j = id /\ k \in DOMAIN conns
    BY <1>4, <1>5, <2>1, <2>3
  <2>4. CASE k = id /\ j \in DOMAIN conns
    BY <1>4, <1>5, <2>1, <2>4
  <2> QED
    BY <1>5, <2>2, <2>3, <2>4
<1>8. OffersInv'
  <2> DEFINE new == [conn |-> id, index |-> i, to |-> 0]
  <2>1. i \in Id
    BY HostFacts
  <2>2. ASSUME NEW o \in offers' PROVE o \in [conn : DOMAIN conns', index : Id, to : Id \cup {0}]
    <3>1. CASE o \in offers
      BY <1>5, <3>1, OfferTyped DEF OffersInv
    <3>2. CASE o = new
      BY <1>5, <2>1, <3>2
    <3> QED
      BY <1>2, <3>1, <3>2
  <2>3. taken' \subseteq (DOMAIN conns') \X Id
    BY <1>1, <1>5 DEF OffersInv
  <2>4. hosts' = hosts /\ made' = made /\ taken' = taken
    BY <1>1 DEF hostVars
  <2>5. ASSUME Len(hosts) = made, NEW o \in offers'
        PROVE  /\ o.index \in DOMAIN hosts /\ hosts[o.index] = conns'[o.conn][2]
               /\ o.to \in {0, conns'[o.conn][2]}
    <3>1. CASE o \in offers
      <4>1. o.conn \in DOMAIN conns
        BY <3>1, OfferTyped DEF OffersInv
      <4> QED
        BY <1>4, <1>5, <2>5, <3>1, <4>1 DEF OffersInv
    <3>2. CASE o = new
      BY <1>2, <1>4, <3>2
    <3> QED
      BY <1>2, <3>1, <3>2
  <2>6. ASSUME Len(hosts) = made, NEW t \in taken' PROVE t[2] = conns'[t[1]][2]
    <3>1. t[1] \in DOMAIN conns /\ t[2] = conns[t[1]][2]
      BY <2>4, <2>6 DEF OffersInv
    <3> QED
      BY <1>4, <1>5, <3>1
  <2> QED
    BY <2>2, <2>3, <2>4, <2>5, <2>6 DEF OffersInv
<1> QED
  BY <1>1, <1>3, <1>4, <1>5, <1>6, <1>7, <1>8 DEF id

LEMMA OfferStep ==
  ASSUME HostsInv, JoinsInv, OffersInv, NEW o \in offers, Offer(o)
  PROVE  OffersInv'
<1>1. hosts' = hosts /\ made' = made /\ taken' = taken /\ conns' = conns
  BY DEF Offer, hostVars
<1>2. CASE o.index \in DOMAIN hosts
  <2> DEFINE new == [o EXCEPT !.to = hosts[o.index]]
  <2>1. offers' = (offers \ {o}) \cup {new}
    BY <1>2 DEF Offer
  <2>2. hosts[o.index] \in Id /\ o \in [conn : DOMAIN conns, index : Id, to : Id \cup {0}]
    BY <1>2, HostFacts DEF OffersInv
  <2>3. /\ new \in [conn : DOMAIN conns, index : Id, to : Id \cup {0}]
        /\ new.index = o.index /\ new.conn = o.conn /\ new.to = hosts[o.index]
    BY <2>2
  <2> HIDE DEF new
  <2>4. offers' \subseteq [conn : DOMAIN conns, index : Id, to : Id \cup {0}]
    BY <2>1, <2>3 DEF OffersInv
  <2>5. ASSUME Len(hosts) = made, NEW p \in offers'
        PROVE  /\ p.index \in DOMAIN hosts /\ hosts[p.index] = conns[p.conn][2]
               /\ p.to \in {0, conns[p.conn][2]}
    BY <2>1, <2>3, <2>5 DEF OffersInv
  <2> QED
    BY <1>1, <2>4, <2>5 DEF OffersInv
<1>3. CASE o.index \notin DOMAIN hosts
  BY <1>1, <1>3 DEF Offer, OffersInv
<1> QED
  BY <1>2, <1>3

LEMMA TakeNewConnStep ==
  ASSUME HostsInv, JoinsInv, OffersInv, NEW o \in offers, TakeNewConn(o)
  PROVE  OffersInv'
<1>1. /\ hosts' = hosts /\ made' = made /\ conns' = conns /\ offers' = offers \ {o}
      /\ taken' = taken \cup {<<o.conn, o.to>>} /\ o.to # 0
  BY DEF TakeNewConn, hostVars
<1>2. o.conn \in DOMAIN conns /\ o.to \in Id
  BY <1>1, OfferTyped DEF OffersInv
<1>3. Len(hosts) = made => o.to = conns[o.conn][2]
  BY <1>1 DEF OffersInv
<1>4. ASSUME Len(hosts) = made, NEW t \in taken' PROVE t[2] = conns[t[1]][2]
  BY <1>1, <1>3, <1>4 DEF OffersInv
<1>5. taken' \subseteq (DOMAIN conns) \X Id
  BY <1>1, <1>2 DEF OffersInv
<1>6. ASSUME Len(hosts) = made, NEW p \in offers'
      PROVE  /\ p.index \in DOMAIN hosts /\ hosts[p.index] = conns[p.conn][2]
             /\ p.to \in {0, conns[p.conn][2]}
  BY <1>1, <1>6 DEF OffersInv
<1> QED
  BY <1>1, <1>4, <1>5, <1>6 DEF OffersInv

-----------------------------------------------------------------------------
(* What is sent on the conns.                                              *)

LEMMA CarrierTyped ==
  ASSUME NEW E, NEW N, NEW A, NEW p \in [to : E, n : N, at : A], NEW x \in A
  PROVE  /\ p.to \in E /\ p.n \in N
         /\ [p EXCEPT !.at = x] \in [to : E, n : N, at : A]
         /\ [p EXCEPT !.at = x].to = p.to /\ [p EXCEPT !.at = x].n = p.n
OBVIOUS

(* A payload changes hands.                                                *)
LEMMA HandedOn ==
  ASSUME EndsTyped, FlightInv, NEW p \in flight, NEW x \in {"send", "relay", "recv"},
         flight' = (flight \ {p}) \cup {[p EXCEPT !.at = x]},
         UNCHANGED <<sent, received, purges, running, relaying, crashed, conns>>
  PROVE  (EndsTyped /\ FlightInv)'
<1> DEFINE q == [p EXCEPT !.at = x]
<1>1. p \in Carrier
  BY DEF EndsTyped
<1>2. q \in Carrier /\ q.to = p.to /\ q.n = p.n
  BY <1>1, CarrierTyped DEF Carrier
<1> HIDE DEF q
<1>3. flight' = (flight \ {p}) \cup {q}
  BY DEF q
<1>4. EndsTyped'
  BY <1>2, <1>3 DEF EndsTyped, ConnEnds
<1>5. FlightInv'
  <2>1. ASSUME NEW r \in flight' PROVE r.n \in DOMAIN sent[r.to] /\ r.n \notin Range(received[r.to])
    BY <1>2, <1>3, <2>1 DEF FlightInv
  <2>2. ASSUME NEW r \in flight', NEW t \in flight', r.to = t.to, r.n = t.n PROVE r = t
    <3>1. r \in flight \ {p} \/ r = q
      BY <1>3
    <3>2. t \in flight \ {p} \/ t = q
      BY <1>3
    <3>3. \A a, b \in flight : a.to = b.to /\ a.n = b.n => a = b
      BY DEF FlightInv
    <3> QED
      BY <1>2, <2>2, <3>1, <3>2, <3>3
  <2> QED
    BY <2>1, <2>2 DEF FlightInv
<1> QED
  BY <1>4, <1>5

(* What is received was sent, and not received before.                     *)
LEMMA ReceiveStep ==
  ASSUME EndsTyped, FlightInv, NEW p \in flight, Receive(p)
  PROVE  /\ (EndsTyped /\ FlightInv)'
         /\ ConnSpec!Next
<1>1. /\ flight' = flight \ {p} /\ received' = [received EXCEPT ![p.to] = Append(@, p.n)]
      /\ UNCHANGED <<sent, purges, running, relaying, crashed, conns>>
  BY DEF Receive, joinVars, ends
<1>2. p.to \in End /\ p.n \in DOMAIN sent[p.to] /\ p.n \notin Range(received[p.to])
  BY CarrierTyped DEF EndsTyped, FlightInv, Carrier
<1>3. received[p.to] \in Seq(Nat) /\ p.n \in Nat
  <2>1. sent[p.to] \in Seq({"payload"})
    BY <1>2 DEF EndsTyped
  <2>2. DOMAIN sent[p.to] \subseteq Nat
    BY <2>1
  <2> QED
    BY <1>2, <2>2 DEF EndsTyped
<1>4. /\ Append(received[p.to], p.n) \in Seq(Nat)
      /\ Range(Append(received[p.to], p.n)) = Range(received[p.to]) \cup {p.n}
  BY <1>3, AppendRange
<1>5. /\ received' \in [End -> Seq(Nat)]
      /\ Range(received'[p.to]) = Range(received[p.to]) \cup {p.n}
      /\ \A e \in End : e # p.to => received'[e] = received[e]
  BY <1>1, <1>2, <1>4 DEF EndsTyped
<1>6. EndsTyped'
  BY <1>1, <1>5 DEF EndsTyped, ConnEnds
<1>7. FlightInv'
  <2>1. ASSUME NEW e \in End PROVE Range(received'[e]) \subseteq DOMAIN sent[e]
    BY <1>2, <1>5 DEF FlightInv
  <2>2. ASSUME NEW q \in flight' PROVE q.n \in DOMAIN sent[q.to] /\ q.n \notin Range(received'[q.to])
    <3>1. q \in flight /\ q # p /\ q.to \in End
      BY <1>1, CarrierTyped DEF EndsTyped, Carrier
    <3>2. q.to = p.to => q.n # p.n
      BY <3>1 DEF FlightInv
    <3>3. q.n \in DOMAIN sent[q.to] /\ q.n \notin Range(received[q.to])
      BY <3>1 DEF FlightInv
    <3> QED
      BY <1>5, <3>1, <3>2, <3>3
  <2> QED
    BY <1>1, <2>1, <2>2 DEF FlightInv
<1>8. ConnSpec!Receive(p.to, p.n)
  BY <1>1, <1>2 DEF ConnSpec!Receive, ConnSpec!Range, Range
<1> QED
  BY <1>2, <1>6, <1>7, <1>8 DEF ConnSpec!Next

(* A conn has two ends.                                                    *)
LEMMA RemoteEnd ==
  ASSUME HostsInv, JoinsInv, NEW e \in ConnEnds
  PROVE  Remote(e) \in End
<1>1. e[1] \in DOMAIN conns /\ e[2] \in Range(conns[e[1]]) /\ e \in End /\ e = <<e[1], e[2]>>
  BY DEF ConnEnds, End
<1> DEFINE id == e[1]
<1>2. conns[id] \in Id \X Id /\ conns[id][1] # conns[id][2] /\ id \in 1 .. MaxConns
  BY <1>1, JoinFacts, HostFacts DEF JoinsInv, End
<1>3. Range(conns[id]) = {conns[id][1], conns[id][2]}
  BY <1>2 DEF Range
<1>4. \E f \in EndsOf(id) : f # e
  <2>1. <<id, conns[id][1]>> \in EndsOf(id) /\ <<id, conns[id][2]>> \in EndsOf(id)
    BY <1>3 DEF EndsOf
  <2> QED
    BY <1>2, <2>1
<1>5. Remote(e) \in EndsOf(id)
  BY <1>4 DEF Remote
<1> QED
  BY <1>2, <1>3, <1>5 DEF EndsOf, End

(* No more is sent to an end than in all.                                  *)
LEMMA SentIsBounded ==
  ASSUME HostsInv, EndsTyped, NEW e \in End,
         Cardinality(UNION {{f} \X DOMAIN sent[f] : f \in End}) < MaxPayloads
  PROVE  Len(sent[e]) + 1 \in 1 .. MaxPayloads
<1> DEFINE places(f) == {f} \X DOMAIN sent[f]
           all == {places(f) : f \in End}
<1>1. ASSUME NEW f \in End PROVE
        /\ IsFiniteSet(places(f)) /\ Cardinality(places(f)) = Len(sent[f]) /\ Len(sent[f]) \in Nat
  <2>1. sent[f] \in Seq({"payload"}) /\ Len(sent[f]) \in Nat /\ DOMAIN sent[f] = 1 .. Len(sent[f])
    BY DEF EndsTyped
  <2>2. IsFiniteSet(1 .. Len(sent[f])) /\ Cardinality(1 .. Len(sent[f])) = Len(sent[f])
    BY <2>1, FS_Interval
  <2>3. IsFiniteSet({f}) /\ Cardinality({f}) = 1
    BY FS_Singleton
  <2> DEFINE domain == DOMAIN sent[f]
  <2>4. IsFiniteSet(domain) /\ Cardinality(domain) = Len(sent[f])
    BY <2>1, <2>2
  <2> HIDE DEF domain
  <2>5. /\ IsFiniteSet({f} \X domain)
        /\ Cardinality({f} \X domain) = Cardinality({f}) * Cardinality(domain)
    BY <2>3, <2>4, FS_Product
  <2> QED
    BY <2>1, <2>3, <2>4, <2>5 DEF domain
<1>2. IsFiniteSet(End)
  <2>1. IsFiniteSet(1 .. MaxConns) /\ IsFiniteSet(1 .. MaxHosts)
    BY FS_Interval, HostFacts
  <2> QED
    BY <2>1, FS_Product DEF End, Id
<1>3. IsFiniteSet(all)
  <2> DEFINE image == [f \in End |-> places(f)]
  <2> HIDE DEF places
  <2>1. image \in Surjection(End, all)
    BY DEF Surjection
  <2> QED
    BY <1>2, <2>1, FS_Surjection
<1>4. IsFiniteSet(UNION all)
  <2>1. \A T \in all : IsFiniteSet(T)
    BY <1>1
  <2> HIDE DEF all
  <2> QED
    BY <1>3, <2>1, FS_UNION
<1>5. places(e) \in SUBSET UNION all
  OBVIOUS
<1> HIDE DEF places, all
<1>6. Cardinality(places(e)) <= Cardinality(UNION all) /\ Cardinality(UNION all) \in Nat
  BY <1>4, <1>5, FS_Subset, FS_CardinalityType
<1>7. Cardinality(UNION all) < MaxPayloads
  BY DEF all, places
<1> QED
  BY <1>1, <1>6, <1>7, HostFacts

LEMMA SendStep ==
  ASSUME HostsInv, JoinsInv, EndsTyped, FlightInv, NEW e \in running, Send(e)
  PROVE  /\ (EndsTyped /\ FlightInv)'
         /\ ConnSpec!Next
<1> PICK to \in End : to = Remote(e)
  BY RemoteEnd DEF EndsTyped
<1> DEFINE new == [to |-> to, n |-> Len(sent[to]) + 1, at |-> "send"]
<1>1. /\ sent' = [sent EXCEPT ![to] = Append(@, "payload")]
      /\ flight' = flight \cup {new}
      /\ UNCHANGED <<received, purges, running, relaying, crashed, conns>>
      /\ Cardinality(UNION {{f} \X DOMAIN sent[f] : f \in End}) < MaxPayloads
  BY DEF Send, joinVars, ends
<1>2. Len(sent[to]) + 1 \in 1 .. MaxPayloads
  BY <1>1, SentIsBounded
<1>3. sent[to] \in Seq({"payload"}) /\ Len(sent[to]) \in Nat /\ DOMAIN sent[to] = 1 .. Len(sent[to])
  BY DEF EndsTyped
<1>4. /\ sent' \in [End -> Seq({"payload"})]
      /\ DOMAIN sent'[to] = DOMAIN sent[to] \cup {Len(sent[to]) + 1}
      /\ \A f \in End : f # to => sent'[f] = sent[f]
  <2>1. Append(sent[to], "payload") \in Seq({"payload"})
    BY <1>3
  <2>2. DOMAIN Append(sent[to], "payload") = 1 .. Len(sent[to]) + 1
    BY <1>3
  <2>3. 1 .. Len(sent[to]) + 1 = DOMAIN sent[to] \cup {Len(sent[to]) + 1}
    BY <1>3
  <2> QED
    BY <1>1, <2>1, <2>2, <2>3 DEF EndsTyped
<1>5. new \in Carrier /\ new.to = to /\ new.n = Len(sent[to]) + 1
  BY <1>2 DEF Carrier
<1> HIDE DEF new
<1>6. EndsTyped'
  BY <1>1, <1>4, <1>5 DEF EndsTyped, ConnEnds
<1>7. Len(sent[to]) + 1 \notin DOMAIN sent[to]
  BY <1>3
<1>8. FlightInv'
  <2>1. ASSUME NEW f \in End PROVE Range(received[f]) \subseteq DOMAIN sent'[f]
    BY <1>4 DEF FlightInv
  <2>2. ASSUME NEW p \in flight PROVE
          p.to \in End /\ p.n \in DOMAIN sent[p.to] /\ p.n \notin Range(received[p.to])
    BY CarrierTyped DEF EndsTyped, FlightInv, Carrier
  <2>3. ASSUME NEW p \in flight' PROVE p.n \in DOMAIN sent'[p.to] /\ p.n \notin Range(received[p.to])
    <3>1. CASE p \in flight
      BY <1>4, <2>2, <3>1
    <3>2. CASE p = new
      BY <1>4, <1>5, <1>7, <3>2 DEF FlightInv
    <3> QED
      BY <1>1, <3>1, <3>2
  <2>4. ASSUME NEW p \in flight, p.to = new.to PROVE p.n # new.n
    BY <1>5, <1>7, <2>2, <2>4
  <2>5. ASSUME NEW p \in flight', NEW q \in flight', p.to = q.to, p.n = q.n PROVE p = q
    <3>1. (p \in flight \/ p = new) /\ (q \in flight \/ q = new)
      BY <1>1
    <3> QED
      BY <2>4, <2>5, <3>1 DEF FlightInv
  <2> QED
    BY <1>1, <2>1, <2>3, <2>5 DEF FlightInv
<1>9. ConnSpec!Send(to, "payload")
  BY <1>1 DEF ConnSpec!Send
<1> QED
  BY <1>6, <1>8, <1>9 DEF ConnSpec!Next

-----------------------------------------------------------------------------
(* Every step.                                                             *)

LEMMA InitInv == Init => IInv
<1> SUFFICES ASSUME Init PROVE IInv
  OBVIOUS
<1> USE DEF Init
<1>1. HostsInv
  <2>1. 0 \in 0 .. MaxHosts
    BY NetworkMockAssumption
  <2> QED
    BY <2>1 DEF HostsInv, IsInjective
<1>2. JoinsInv
  <2>1. joining \in [Caller -> {Idle} \cup (Id \X Id)] /\ \A c \in Caller : joining[c] = Idle
    OBVIOUS
  <2>2. conns \in Seq(Id \X Id) /\ Len(conns) = 0 /\ DOMAIN conns = {} /\ 0 <= MaxConns
    BY NetworkMockAssumption
  <2>3. locked \in BOOLEAN
    OBVIOUS
  <2> HIDE DEF Init
  <2> QED
    BY <2>1, <2>2, <2>3 DEF JoinsInv
<1>3. OffersInv /\ OneConnPerPair
  BY DEF OffersInv, OneConnPerPair
<1>4. EndsTyped
  <2>1. sent \in [End -> Seq({"payload"})] /\ received \in [End -> Seq(Nat)]
    OBVIOUS
  <2>2. purges \in [End -> 0 .. 2]
    OBVIOUS
  <2>3. flight = {} /\ running = {} /\ relaying = {} /\ crashed \in BOOLEAN
    OBVIOUS
  <2> HIDE DEF Init
  <2> QED
    BY <2>1, <2>2, <2>3 DEF EndsTyped
<1>5. FlightInv
  BY DEF FlightInv, Range
<1> QED
  BY <1>1, <1>2, <1>3, <1>4, <1>5 DEF IInv

LEMMA HostNextStep == IInv /\ HostNext => IInv'
<1> SUFFICES ASSUME IInv, HostNext PROVE IInv'
  OBVIOUS
<1>0. HostsInv /\ OffersInv
  BY DEF IInv
<1>1. UNCHANGED <<joinVars, payloads, ends, crashed>>
  BY DEF HostNext, NewHostMock, RemoveHost, Host
<1>2. HostsInv' /\ OffersInv'
  <2>1. CASE NewHostMock
    <3>1. /\ HostsInv' /\ (Len(hosts') = made' => Len(hosts) = made)
          /\ \A i \in DOMAIN hosts : i \in DOMAIN hosts' /\ hosts'[i] = hosts[i]
      BY <1>0, <2>1, NewHostStep
    <3> QED
      BY <1>0, <1>1, <3>1 DEF OffersInv, joinVars
  <2>2. ASSUME NEW h \in Id, RemoveHost(h) PROVE HostsInv' /\ OffersInv'
    <3>1. HostsInv' /\ Len(hosts') # made'
      BY <1>0, <2>2, RemoveHostStep
    <3> QED
      BY <1>0, <1>1, <3>1 DEF OffersInv, joinVars
  <2>3. ASSUME NEW h \in Id, NEW on \in BOOLEAN, Host(h, on) PROVE HostsInv' /\ OffersInv'
    <3>1. HostsInv' /\ made' = made /\ hosts' = hosts
      BY <1>0, <2>3, HostStep
    <3> QED
      BY <1>0, <1>1, <3>1 DEF OffersInv, joinVars
  <2> QED
    BY <2>1, <2>2, <2>3 DEF HostNext
<1>3. JoinsInv' /\ OneConnPerPair' /\ EndsTyped' /\ FlightInv'
  BY <1>1 DEF IInv, JoinsInv, OneConnPerPair, EndsTyped, ConnEnds, FlightInv, joinVars, payloads, ends
<1> QED
  BY <1>2, <1>3 DEF IInv

LEMMA JoinNextStep == IInv /\ JoinNext => IInv'
<1> SUFFICES ASSUME IInv, JoinNext PROVE IInv'
  OBVIOUS
<1>0. HostsInv /\ JoinsInv /\ OffersInv /\ OneConnPerPair /\ EndsTyped /\ FlightInv
  BY DEF IInv
<1>1. HostsInv'
  <2>1. UNCHANGED hostVars
    BY DEF JoinNext, Unlock, JoinFails, JoinPanics, JoinAccepted, StartJoin, Offer, TakeNewConn
  <2> QED
    BY <1>0, <2>1 DEF hostVars, HostsInv
<1>2. UNCHANGED payloads
  BY DEF JoinNext, Unlock, JoinFails, JoinPanics, JoinAccepted, StartJoin, Offer, TakeNewConn
<1>3. FlightInv'
  BY <1>0, <1>2 DEF FlightInv, payloads
<1>4. ASSUME NEW c \in Caller, JoinAccepted(c) PROVE (JoinsInv /\ OffersInv /\ OneConnPerPair /\ EndsTyped)'
  <2>1. /\ (JoinsInv /\ OffersInv /\ OneConnPerPair)'
        /\ DOMAIN conns' = DOMAIN conns \cup {Len(conns) + 1}
        /\ \A id \in DOMAIN conns : conns'[id] = conns[id]
        /\ conns'[Len(conns) + 1] = joining[c]
        /\ Len(conns) + 1 \in 1 .. MaxConns /\ joining[c] \in Id \X Id
    BY <1>0, <1>4, JoinAcceptedStep
  <2>2. ConnEnds \subseteq ConnEnds'
    BY <2>1 DEF ConnEnds
  <2>3. {Len(conns) + 1} \X Range(joining[c]) \subseteq ConnEnds'
    <3>1. Range(joining[c]) \subseteq Id
      BY <2>1 DEF Range
    <3> QED
      BY <2>1, <3>1 DEF ConnEnds, End
  <2>4. /\ running' = running \cup ({Len(conns) + 1} \X Range(joining[c]))
        /\ relaying' = relaying \cup ({Len(conns) + 1} \X Range(joining[c]))
        /\ UNCHANGED purges
    BY <1>4 DEF JoinAccepted
  <2>5. crashed' \in BOOLEAN
    <3>1. \E d \in Caller : crashed' \in {FALSE, d # c /\ joining[d][1] \in Range(joining[c])}
      BY <1>4 DEF JoinAccepted
    <3> QED
      BY <3>1
  <2>6. EndsTyped'
    BY <1>0, <1>2, <2>2, <2>3, <2>4, <2>5 DEF EndsTyped, payloads
  <2> QED
    BY <2>1, <2>6
<1>5. ASSUME UNCHANGED <<conns, ends>>, crashed' \in BOOLEAN PROVE EndsTyped' /\ OneConnPerPair'
  BY <1>0, <1>2, <1>5 DEF EndsTyped, ConnEnds, OneConnPerPair, payloads, ends
<1>6. ASSUME UNCHANGED <<hostVars, conns, offers, taken>> PROVE OffersInv'
  BY <1>0, <1>6 DEF OffersInv, hostVars
<1>7. ASSUME UNCHANGED <<joining, conns>>, locked' \in BOOLEAN PROVE JoinsInv'
  BY <1>0, <1>7 DEF JoinsInv
<1>8. crashed \in BOOLEAN /\ locked \in BOOLEAN
  BY <1>0 DEF EndsTyped, JoinsInv
<1>9. CASE Unlock
  BY <1>1, <1>3, <1>5, <1>6, <1>7, <1>8, <1>9 DEF IInv, Unlock
<1>10. ASSUME NEW c \in Caller, JoinFails(c) PROVE IInv'
  BY <1>0, <1>1, <1>3, <1>5, <1>6, <1>8, <1>10, JoinFailsStep DEF IInv, JoinFails
<1>11. ASSUME NEW c \in Caller, JoinPanics(c) PROVE IInv'
  BY <1>1, <1>3, <1>5, <1>6, <1>7, <1>8, <1>11 DEF IInv, JoinPanics, joinVars
<1>12. ASSUME NEW c \in Caller, NEW h \in Id, NEW r \in Id, StartJoin(c, h, r) PROVE IInv'
  BY <1>0, <1>1, <1>3, <1>5, <1>6, <1>8, <1>12, StartJoinStep DEF IInv, StartJoin
<1>13. ASSUME NEW o \in offers, Offer(o) PROVE IInv'
  <2>1. UNCHANGED <<joining, locked, conns, ends>> /\ crashed' \in BOOLEAN
    BY <1>8, <1>13 DEF Offer
  <2> QED
    BY <1>0, <1>1, <1>3, <1>5, <1>7, <1>8, <1>13, <2>1, OfferStep DEF IInv
<1>14. ASSUME NEW o \in offers, TakeNewConn(o) PROVE IInv'
  BY <1>0, <1>1, <1>3, <1>5, <1>7, <1>8, <1>14, TakeNewConnStep DEF IInv, TakeNewConn
<1> QED
  BY <1>1, <1>3, <1>4, <1>9, <1>10, <1>11, <1>12, <1>13, <1>14 DEF IInv, JoinNext

LEMMA ConnNextStep ==
  IInv /\ ConnNext => IInv' /\ (ConnSpec!Next \/ UNCHANGED <<sent, received>>)
<1> SUFFICES ASSUME IInv, ConnNext PROVE IInv' /\ (ConnSpec!Next \/ UNCHANGED <<sent, received>>)
  OBVIOUS
<1>0. HostsInv /\ JoinsInv /\ OffersInv /\ OneConnPerPair /\ EndsTyped /\ FlightInv
  BY DEF IInv
<1>1. UNCHANGED <<hostVars, joinVars>>
  BY DEF ConnNext, Close, StopRoutine, StopRelay, Send, Relay, Arrive, Receive
<1>2. (HostsInv /\ JoinsInv /\ OffersInv /\ OneConnPerPair)'
  BY <1>0, <1>1 DEF HostsInv, JoinsInv, OffersInv, OneConnPerPair, hostVars, joinVars
<1> DEFINE Goal == (EndsTyped /\ FlightInv)' /\ (ConnSpec!Next \/ UNCHANGED <<sent, received>>)
<1>3. ASSUME NEW e \in End, Close(e) \/ StopRoutine(e) \/ StopRelay(e) PROVE Goal
  <2>1. purges' \in [End -> 0 .. 2]
    <3>1. purges' = [purges EXCEPT ![e] = 2] \/ (purges[e] > 0 /\ purges' = [purges EXCEPT ![e] = @ - 1])
      BY <1>3 DEF Close, StopRoutine, StopRelay
    <3>2. purges[e] \in 0 .. 2 /\ purges \in [End -> 0 .. 2]
      BY <1>0 DEF EndsTyped
    <3>3. purges[e] > 0 => purges[e] - 1 \in 0 .. 2
      BY <3>2
    <3> QED
      BY <3>1, <3>2, <3>3
  <2>2. UNCHANGED payloads /\ running' \subseteq running /\ relaying' \subseteq relaying
    BY <1>3 DEF Close, StopRoutine, StopRelay
  <2>3. crashed' \in BOOLEAN
    BY <1>0, <1>3 DEF Close, StopRoutine, StopRelay, EndsTyped
  <2> QED
    BY <1>0, <1>1, <2>1, <2>2, <2>3 DEF EndsTyped, ConnEnds, FlightInv, payloads, joinVars
<1>4. ASSUME NEW e \in running, Send(e) PROVE Goal
  BY <1>0, <1>4, SendStep
<1>5. ASSUME NEW p \in flight, Relay(p) \/ Arrive(p) PROVE Goal
  <2>1. UNCHANGED <<sent, received, purges, running, relaying, crashed, conns>>
    BY <1>5 DEF Relay, Arrive, joinVars, ends
  <2>2. PICK x \in {"send", "relay", "recv"} : flight' = (flight \ {p}) \cup {[p EXCEPT !.at = x]}
    BY <1>5 DEF Relay, Arrive
  <2> QED
    BY <1>0, <2>1, <2>2, HandedOn
<1>6. ASSUME NEW p \in flight, Receive(p) PROVE Goal
  BY <1>0, <1>6, ReceiveStep
<1>7. Goal
  BY <1>3, <1>4, <1>5, <1>6 DEF ConnNext
<1> QED
  BY <1>2, <1>7 DEF IInv

(* The inductive invariant holds.                                          *)
THEOREM Invariance == Spec => []IInv
<1>1. IInv /\ [Next]_vars => IInv'
  <2> SUFFICES ASSUME IInv, [Next]_vars PROVE IInv'
    OBVIOUS
  <2>1. CASE Next
    BY <2>1, HostNextStep, JoinNextStep, ConnNextStep DEF Next
  <2>2. CASE UNCHANGED vars
    BY <2>2 DEF vars, hostVars, joinVars, payloads, ends, IInv, HostsInv, JoinsInv, OffersInv,
      OneConnPerPair, EndsTyped, ConnEnds, FlightInv
  <2> QED
    BY <2>1, <2>2
<1> QED
  BY InitInv, <1>1, PTL DEF Spec

(* The mock network's state has its type, whatever joins, hosts and goes.  *)
THEOREM TypeCorrect == Spec => []TypeOK
<1>1. IInv => TypeOK
  <2> SUFFICES ASSUME IInv PROVE TypeOK
    OBVIOUS
  <2>1. Range(hosts) \subseteq 1 .. made
    BY DEF IInv, HostsInv, Range
  <2>2. taken \subseteq End /\ running \subseteq End /\ relaying \subseteq End
    BY HostFacts, JoinFacts DEF IInv, JoinsInv, OffersInv, EndsTyped, ConnEnds, End
  <2> QED
    BY <2>1, <2>2 DEF IInv, HostsInv, JoinsInv, OffersInv, EndsTyped, FlightInv, Carrier, TypeOK
<1> QED
  BY <1>1, Invariance, PTL

(* Two hosts never have two conns between them, however many goroutines    *)
(* call Join at once (HostMock.Join).                                      *)
THEOREM OneConn == Spec => []OneConnPerPair
BY Invariance, PTL DEF IInv

(* As long as no host has been shut down, a conn comes out of NewConns()   *)
(* of the host that was joined (HostMock.Join, core/network_mock.go:343).  *)
THEOREM ConnsReachTheirHost == Spec => []NewConnsReachTheirHost
<1>1. IInv => NewConnsReachTheirHost
  BY DEF IInv, OffersInv, NewConnsReachTheirHost
<1> QED
  BY <1>1, Invariance, PTL

(* Each direction of a mock conn carries what is sent on it, each payload  *)
(* at most once, although every hop is a goroutine of its own and the ends *)
(* close at any moment (ConnMock).                                         *)
THEOREM MockConnsAreConns == Spec => ImplementsConn
<1>1. Init => ConnSpec!Init
  BY DEF Init, ConnSpec!Init
<1>2. IInv /\ [Next]_vars => [ConnSpec!Next]_<<sent, received>>
  <2> SUFFICES ASSUME IInv, [Next]_vars PROVE ConnSpec!Next \/ UNCHANGED <<sent, received>>
    OBVIOUS
  <2>1. CASE HostNext
    BY <2>1 DEF HostNext, NewHostMock, RemoveHost, Host, payloads
  <2>2. CASE JoinNext
    BY <2>2 DEF JoinNext, Unlock, JoinFails, JoinPanics, JoinAccepted, StartJoin, Offer, TakeNewConn, payloads
  <2>3. CASE ConnNext
    BY <2>3, ConnNextStep
  <2>4. CASE UNCHANGED vars
    BY <2>4 DEF vars, payloads
  <2> QED
    BY <2>1, <2>2, <2>3, <2>4 DEF Next
<1> QED
  BY <1>1, <1>2, Invariance, PTL DEF Spec, ImplementsConn, ConnSpec!Spec
=============================================================================
