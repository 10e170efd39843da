------------------------------ MODULE TcpNetwork ------------------------------
(***************************************************************************)
(* networkTcpUdp (core/network_standard.go) on two machines: one that      *)
(* hosts and one that pings and joins it, and the direction of their       *)
(* tcpConn in which the host sends.  Datagrams are lost or delivered; a    *)
(* call that waits for the other machine gives up after a second, whenever *)
(* that is.  A panic, in whatever goroutine, takes the process down.       *)
(***************************************************************************)
EXTENDS TcpConn

VARIABLES
  request,   \* the host's routine(): "none", "on", "off" or "abandon"
  kills,     \* the sends on kill it has left to make
  killable,  \* kill is not nil
  hosting,   \* ping and join are not nil
  pinger,    \* the goroutine of launchPingRoutine: "none", "listen", "failed"
  listener,  \* the one of launchJoinRoutine: "none" or "open"
  killed,    \* the listeners killed: one may be "closing" still, of those that
             \* are "closed" the Accept is about to fail
  ping,      \* a ping datagram: "none", "sent" or in the pinger's "hand"
  found,     \* a Ping has returned the host
  call,      \* the client's routine(): "none", "ping" or "join"
  answer,    \* what Join returned: "none", "conn", "refused", "timeout"
  cut,       \* Join's Read of the reply returned a part of it only
  served,    \* the join at the host: "none", "dialled", "asking", "refused",
             \* "replied" when SUCCESS is written, "offered" to the reader of
             \* NewConns(), "connected"; "failed": its goroutine has returned
  down       \* the machines whose process has ended

hostVars == <<request, kills, killable, hosting, pinger, listener, killed>>
callVars == <<found, call, answer, cut>>
vars == <<hostVars, ping, callVars, served, down, connVars>>

(* SUCCESS or FAIL, cut where a Read can mistake it: the first piece is    *)
(* shorter than the four bytes that the client looks at.                   *)
Reply(ok) == <<<<0, IF ok THEN 1 ELSE 2>>, <<0, 0>>>>

Init ==
  /\ ConnInit
  /\ request = "none" /\ kills = 0 /\ killable = FALSE /\ hosting = FALSE
  /\ pinger = "none" /\ listener = "none" /\ ping = "none"
  /\ killed = {} /\ found = FALSE /\ call = "none" /\ answer = "none" /\ cut = FALSE
  /\ served = "none" /\ down = {}

HostUp == "host" \notin down
ClientUp == "client" \notin down

-----------------------------------------------------------------------------
(* Host(ping, join): the routine first kills what runs for the last one.   *)
(* Bound: it is not called once the host has sent something, nor is        *)
(* anything sent while it is carried out.                                  *)
Host(what) ==
  /\ HostUp /\ request = "none" /\ sent = <<>>
  /\ request' = what
  /\ kills' = IF killable THEN 2 ELSE 0
  /\ UNCHANGED <<killable, hosting, pinger, listener, killed, ping, callVars, served, down, connVars>>

(* The pinger looks for a kill only when it has a datagram in hand.        *)
KillPinger ==
  /\ HostUp /\ kills > 0 /\ (ping = "hand" \/ pinger = "failed")
  /\ kills' = kills - 1
  /\ pinger' = "none"
  /\ ping' = IF ping = "hand" THEN "none" ELSE ping
  /\ UNCHANGED <<request, killable, hosting, listener, killed, callVars, served, down, connVars>>

(* The kill is received before the listener is closed: the routine goes on *)
(* to what Host was called for meanwhile.                                  *)
KillListener ==
  /\ HostUp /\ kills > 0 /\ listener = "open"
  /\ kills' = kills - 1
  /\ listener' = "none" /\ killed' = killed \cup {"closing"}
  /\ UNCHANGED <<request, killable, hosting, pinger, ping, callVars, served, down, connVars>>

(* What has been dialled and not accepted is reset.                        *)
CloseListener ==
  /\ HostUp /\ "closing" \in killed
  /\ killed' = (killed \ {"closing"}) \cup {"closed"}
  /\ served' = IF served = "dialled" THEN "failed" ELSE served
  /\ UNCHANGED <<request, kills, killable, hosting, pinger, listener, ping, callVars, down, connVars>>

(* With a bug: the functions are reset before the goroutines are killed.   *)
HostOffEarly ==
  /\ HostUp /\ request = "off"
  /\ hosting' = FALSE
  /\ request' = IF kills = 0 THEN "none" ELSE "off"
  /\ killable' = (kills # 0)
  /\ UNCHANGED <<kills, pinger, listener, killed, ping, callVars, served, down, connVars>>

HostOff ==
  /\ HostUp /\ request = "off" /\ kills = 0
  /\ hosting' = FALSE
  /\ request' = "none" /\ killable' = FALSE
  /\ UNCHANGED <<kills, pinger, listener, killed, ping, callVars, served, down, connVars>>

(* Each of the two sockets may fail to open, the second does while the old *)
(* listener holds the port.  The routine has a pinger to kill then.        *)
HostOn ==
  /\ HostUp /\ request = "on" /\ kills = 0
  /\ hosting' = TRUE
  /\ \/ /\ request' = "none" /\ killable' = FALSE
        /\ UNCHANGED <<kills, pinger, listener>>
     \/ /\ request' = "abandon" /\ kills' = 1 /\ killable' = FALSE
        /\ pinger' = "listen"
        /\ UNCHANGED listener
     \/ /\ "closing" \notin killed
        /\ request' = "none" /\ killable' = TRUE
        /\ pinger' = "listen" /\ listener' = "open"
        /\ UNCHANGED kills
  /\ UNCHANGED <<killed, ping, callVars, served, down, connVars>>

Abandoned ==
  /\ HostUp /\ request = "abandon" /\ kills = 0
  /\ request' = "none"
  /\ UNCHANGED <<kills, killable, hosting, pinger, listener, killed, ping, callVars, served, down, connVars>>

PingerFails ==
  /\ HostUp /\ pinger = "listen" /\ ping # "hand"
  /\ pinger' = "failed"
  /\ UNCHANGED <<request, kills, killable, hosting, listener, killed, ping, callVars, served, down, connVars>>

-----------------------------------------------------------------------------
(* Ping: one broadcast, then a second to collect the answers.              *)
(* Bounds: one datagram at a time, and none after a Join.                  *)
Ping ==
  /\ ClientUp /\ call = "none" /\ ping = "none" /\ answer = "none"
  /\ call' = "ping" /\ ping' = "sent"
  /\ UNCHANGED <<hostVars, found, answer, cut, served, down, connVars>>

PingLost ==
  /\ ping = "sent"
  /\ ping' = "none"
  /\ UNCHANGED <<hostVars, callVars, served, down, connVars>>

PingArrives ==
  /\ HostUp /\ ping = "sent" /\ pinger = "listen"
  /\ ping' = "hand"
  /\ UNCHANGED <<hostVars, callVars, served, down, connVars>>

(* The host's function may return an error, and the answer may be lost or  *)
(* come when nothing waits for it.                                         *)
PingAnswered ==
  /\ HostUp /\ ping = "hand" /\ kills = 0
  /\ ping' = "none"
  /\ found' \in {found, found \/ call = "ping"}
  /\ UNCHANGED <<hostVars, call, answer, cut, served, down, connVars>>

(* PingReturns with a bug: no deadline on the read.                        *)
PingReturnsFound ==
  /\ ClientUp /\ call = "ping" /\ found
  /\ call' = "none"
  /\ UNCHANGED <<hostVars, ping, found, answer, cut, served, down, connVars>>

PingReturns ==
  /\ ClientUp /\ call = "ping"
  /\ call' = "none"
  /\ UNCHANGED <<hostVars, ping, found, answer, cut, served, down, connVars>>

-----------------------------------------------------------------------------
Listening == listener = "open" \/ "closing" \in killed

(* Join dials and writes its request.  Bound: one join is answered.        *)
Join ==
  /\ ClientUp /\ call = "none" /\ found /\ served = "none"
  /\ HostUp /\ Listening
  /\ call' = "join" /\ served' = "dialled"
  /\ UNCHANGED <<hostVars, ping, found, answer, cut, down, connVars>>

Accept ==
  /\ HostUp /\ served = "dialled" /\ Listening
  /\ served' = "asking"
  /\ UNCHANGED <<hostVars, ping, callVars, down, connVars>>

ClientGone == ~ClientUp \/ answer = "timeout"

(* Accept on a closed listener, whatever has been opened since; join       *)
(* called when it is nil; and Read on a conn that the client has left or   *)
(* dropped (a Join that timed out).                                        *)
HostPanics ==
  /\ HostUp
  /\ \/ "closed" \in killed
     \/ served = "asking" /\ ~hosting
     \/ served \in {"offered", "connected"} /\ ClientGone
  /\ down' = down \cup {"host"}
  /\ UNCHANGED <<hostVars, ping, callVars, served, connVars>>

(* The request cannot be read.                                             *)
ReadFails ==
  /\ HostUp /\ served = "asking" /\ ClientGone
  /\ served' = "failed"
  /\ UNCHANGED <<hostVars, ping, callVars, down, connVars>>

(* join accepts or refuses.  The Write of the reply fails when less than   *)
(* the reply is written, in which case there will be no conn.              *)
AskJoin(ok) ==
  /\ HostUp /\ served = "asking" /\ hosting
  /\ \E size \in 0 .. Len(Reply(ok)) :
       /\ wire' = SubSeq(Reply(ok), 1, size)
       /\ served' = IF ~ok THEN "refused"
                    ELSE IF size = Len(Reply(ok)) THEN "replied" ELSE "failed"
  /\ UNCHANGED <<hostVars, ping, callVars, down, sender, reader, db, decoded, receiver>>

(* makeTcpConn; the goroutine then waits for the reader of NewConns().     *)
MakeConn ==
  /\ HostUp /\ served = "replied"
  /\ served' = "offered"
  /\ UNCHANGED <<hostVars, ping, callVars, down, connVars>>

TakeNewConn ==
  /\ HostUp /\ served = "offered"
  /\ served' = "connected"
  /\ UNCHANGED <<hostVars, ping, callVars, down, connVars>>

(* With a bug: the reply is not looked at.                                 *)
ReadAnyReply ==
  /\ ClientUp /\ call = "join"
  /\ \E size \in 1 .. Len(wire) :
       /\ wire' = SubSeq(wire, size + 1, Len(wire))
       /\ answer' = "conn" /\ reader' = "read"
       /\ cut' = (size < Len(Reply(FALSE)))
  /\ call' = "none"
  /\ UNCHANGED <<hostVars, ping, found, served, down, sender, db, decoded, receiver>>

(* One Read, of a part of the reply, or of the reply and the beginning of  *)
(* what the host has sent on the conn since.  Whatever does not begin with *)
(* FAIL is taken for a success; what was not read is left to the conn.     *)
ReadReply ==
  /\ ClientUp /\ call = "join"
  /\ \E size \in 1 .. Len(wire) :
       /\ wire' = SubSeq(wire, size + 1, Len(wire))
       /\ IF IsPrefix(Reply(FALSE), SubSeq(wire, 1, size))
            THEN answer' = "refused" /\ UNCHANGED <<reader, cut>>
            ELSE /\ answer' = "conn" /\ reader' = "read"
                 /\ cut' = (size < Len(Reply(FALSE)))
  /\ call' = "none"
  /\ UNCHANGED <<hostVars, ping, found, served, down, sender, db, decoded, receiver>>

(* The deadline passes, or the Read fails.                                 *)
JoinTimesOut ==
  /\ ClientUp /\ call = "join"
  /\ call' = "none" /\ answer' = "timeout"
  /\ UNCHANGED <<hostVars, ping, found, cut, served, down, connVars>>

(* The client's application ends, or its readRoutine panics because the    *)
(* host has gone.                                                          *)
ClientEnds ==
  /\ ClientUp /\ (answer # "none" \/ ~HostUp)
  /\ down' = down \cup {"client"}
  /\ UNCHANGED <<hostVars, ping, callVars, served, connVars>>

-----------------------------------------------------------------------------
ConnStep ==
  /\ UNCHANGED <<hostVars, ping, callVars, served, down>>
  /\ \/ HostUp /\ served = "connected" /\ request = "none" /\ \E k \in Kind : Send(k)
     \/ HostUp /\ (StartWrite \/ Write)
     \/ ClientUp /\ (Read \/ Deliver \/ \E k \in Kind : Forward(k) \/ Receive(k))

HostStep ==
  \/ KillPinger \/ KillListener \/ CloseListener \/ HostOff \/ HostOn \/ Abandoned
  \/ PingAnswered \/ Accept \/ HostPanics \/ ReadFails
  \/ (\E ok \in BOOLEAN : AskJoin(ok)) \/ MakeConn \/ TakeNewConn

ClientStep == PingReturns \/ ReadReply \/ JoinTimesOut

Next ==
  \/ HostStep \/ ClientStep \/ ConnStep
  \/ (\E what \in {"on", "off"} : Host(what))
  \/ PingerFails \/ Ping \/ PingLost \/ PingArrives \/ Join \/ ClientEnds

(* Every goroutine that can go on does, a conn's bytes arrive, and bundles *)
(* are received; the application need not receive the data.                *)
Fairness ==
  /\ WF_vars(HostStep) /\ WF_vars(ClientStep)
  /\ WF_vars(ConnStep /\ StartWrite) /\ WF_vars(ConnStep /\ Write)
  /\ WF_vars(ConnStep /\ Read) /\ WF_vars(ConnStep /\ Deliver)
  /\ WF_vars(ConnStep /\ (Forward("bundle") \/ Receive("bundle")))
  /\ WF_vars(ConnStep /\ Forward("data"))

Spec == Init /\ [][Next]_vars /\ Fairness

-----------------------------------------------------------------------------
(* However the stream is cut and whatever the client's Read of the reply   *)
(* takes with it, what is received on a conn is what was sent, each        *)
(* payload once and in order for its kind (tcpConn, core/network.go:18).   *)
ConnSpec == INSTANCE Conn WITH
  Direction <- {"to_client"}, InOrder <- TRUE,
  sent <- [d \in {"to_client"} |-> sent], received <- [d \in {"to_client"} |-> received]
ImplementsConn == ConnSpec!Spec

(* A bundle handed to a conn is received, unless a process ends, the Join  *)
(* timed out, or the stream is out of step: readRoutine has ended, or has  *)
(* read the bundle and not decoded it, because one Read brought more than  *)
(* a payload or the Read of the reply took it.  Data that nobody receives  *)
(* holds nothing up (recvDataRoutine buffers infinitely).                  *)
OutOfStep(n) ==
  \/ reader = "ended"
  \/ /\ reader = "read" /\ decoded < n /\ wire = <<>> /\ writing = 0 /\ queue = <<>>
     /\ db # <<>> \/ decoded = 0
BundlesArrive ==
  \A n \in 1 .. MaxPayloads :
    n \in DOMAIN sent /\ sent[n] = "bundle"
      ~> n \in Range(received) \/ OutOfStep(n) \/ down # {} \/ answer = "timeout"

(* The two ends agree on the outcome of a Join whose reply is read whole:  *)
(* the client has a conn only if the host has made one, or is about to,    *)
(* and is refused only if the host refuses.  When the Read returns less    *)
(* than four bytes the client takes a conn, whatever the host has said;    *)
(* that conn decodes nothing, ever (launchJoinRoutine, handleJoinRequest). *)
JoinAgrees ==
  /\ answer = "refused" => served = "refused"
  /\ answer = "conn" =>
       IF cut THEN decoded = 0 ELSE served \in {"replied", "offered", "connected"}

(* The host's process ends only after Host was called while it was hosting *)
(* or because the client left or gave up: it never calls a nil function    *)
(* for a join that came while it was hosting.                              *)
NoCrashWhileHosting ==
  ~HostUp => killed # {} \/ ClientGone

(* Ping and Join return, whatever the host does, and Host returns or takes *)
(* the process down, unless it has a pinger left that no ping reaches.     *)
CallsReturn ==
  /\ call # "none" ~> call = "none" \/ ~ClientUp
  /\ request \in {"on", "off"} ~> request \in {"none", "abandon"} \/ ~HostUp
=============================================================================
