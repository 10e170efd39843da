---------------------------- MODULE EngineProofs ----------------------------
(***************************************************************************)
(* No remote bundle is lost, doubled or held by two goroutines on its way  *)
(* from the conns to the Updater, for any number of conns and bundles and  *)
(* any capacity of the channel.                                            *)
(***************************************************************************)
EXTENDS Engine, SharedLemmas, FiniteSetTheorems

Bundle == Conn \X Nat
Running == communicator \in {"off", "select"}

(* The goroutines of Join and of the Auditor hold at most one bundle.      *)
PipeTypes ==
  /\ {absorbed, group, forwarders} \subseteq SUBSET Bundle
  /\ remote \in Seq(Bundle)
  /\ \A held \in {kept, raw} : held = <<>> \/ \E b \in Bundle : held = <<b>>

(* A goroutine of a conn runs only once the Communicator does.              *)
ConnTypes ==
  /\ arrived \in [Conn -> Nat] /\ fan \in [Conn -> Nat] /\ DOMAIN task = Conn
  /\ communicator = "off" => \A c \in Conn : task[c] = "away"
  /\ auditor = "on" => communicator # "off"

(* A connRoutine sends the bundle that came in last.                       *)
LatestSent == \A c \in Conn : task[c] = "fan" => fan[c] = arrived[c] /\ fan[c] # 0

(* A channel does not hold a bundle twice.                                 *)
Distinct(s) == \A i, j \in DOMAIN s : s[i] = s[j] => i = j

(* The places that a bundle can be in, the parts of Places.                *)
AtConn(b) == task[b[1]] = "fan" /\ fan[b[1]] = b[2]

Somewhere(b) ==
  \/ b \in absorbed \/ b \in group \/ b \in Range(remote) \/ b \in Range(raw)
  \/ b \in forwarders \/ b \in Range(kept) \/ AtConn(b)

(* No two of the places have it.                                           *)
Once(b) ==
  /\ b \in absorbed =>
       ~(\/ b \in group \/ b \in Range(remote) \/ b \in Range(raw)
         \/ b \in forwarders \/ b \in Range(kept) \/ AtConn(b))
  /\ b \in group =>
       ~(\/ b \in Range(remote) \/ b \in Range(raw) \/ b \in forwarders
         \/ b \in Range(kept) \/ AtConn(b))
  /\ b \in Range(remote) =>
       ~(b \in Range(raw) \/ b \in forwarders \/ b \in Range(kept) \/ AtConn(b))
  /\ b \in Range(raw) => ~(b \in forwarders \/ b \in Range(kept) \/ AtConn(b))
  /\ b \in forwarders => ~(b \in Range(kept) \/ AtConn(b))
  /\ b \in Range(kept) => ~AtConn(b)

(* What has come in is somewhere, and nothing else is anywhere: a number   *)
(* that is given out next is new to all of the engine.                     *)
CameIn(b) == b[2] \in 1 .. arrived[b[1]]
PlacesInv == \A b \in Bundle : Once(b) /\ (Somewhere(b) <=> CameIn(b))

RunInv == LatestSent /\ Distinct(remote) /\ PlacesInv
IInv == PipeTypes /\ ConnTypes /\ (Running => RunInv)

-----------------------------------------------------------------------------
(* What a goroutine takes from a channel and puts into the next.           *)
LEMMA RangeOfOne == ASSUME NEW x PROVE Range(<<x>>) = {x}
BY DEF Range

LEMMA RangeOfNone == Range(<<>>) = {}
BY DEF Range

LEMMA Received ==
  ASSUME NEW S, NEW s \in Seq(S), s # <<>>, Distinct(s)
  PROVE  /\ Head(s) \in S /\ Tail(s) \in Seq(S) /\ Distinct(Tail(s))
         /\ Head(s) \in Range(s) /\ Range(Tail(s)) = Range(s) \ {Head(s)}
<1> DEFINE t == Tail(s)
<1>1. /\ t \in Seq(S) /\ Head(s) = s[1] /\ Len(s) \in Nat /\ Len(s) > 0
      /\ DOMAIN s = 1 .. Len(s) /\ DOMAIN t = 1 .. Len(s) - 1
      /\ \A i \in 1 .. Len(s) - 1 : t[i] = s[i + 1]
  OBVIOUS
<1> HIDE DEF t
<1>2. 1 \in DOMAIN s /\ s[1] \in S
  BY <1>1
<1>3. \A i \in DOMAIN t : i + 1 \in DOMAIN s /\ i + 1 # 1 /\ t[i] = s[i + 1]
  BY <1>1
<1>4. \A i \in DOMAIN s : i # 1 => i - 1 \in DOMAIN t /\ t[i - 1] = s[i]
  BY <1>1
<1>5. Distinct(t)
  <2> SUFFICES ASSUME NEW i \in DOMAIN t, NEW j \in DOMAIN t, t[i] = t[j] PROVE i = j
    BY DEF Distinct
  <2>1. i + 1 = j + 1
    BY <1>3 DEF Distinct
  <2> QED
    BY <1>1, <2>1
<1>6. ASSUME NEW x \in Range(t) PROVE x \in Range(s) \ {s[1]}
  <2>1. PICK i \in DOMAIN t : x = t[i]
    BY DEF Range
  <2>2. x = s[i + 1] /\ s[i + 1] # s[1]
    BY <1>2, <1>3, <2>1 DEF Distinct
  <2> QED
    BY <1>3, <2>2 DEF Range
<1>7. ASSUME NEW x \in Range(s) \ {s[1]} PROVE x \in Range(t)
  <2>1. PICK i \in DOMAIN s : x = s[i]
    BY DEF Range
  <2> QED
    BY <1>4, <2>1 DEF Range
<1> QED
  BY <1>1, <1>2, <1>5, <1>6, <1>7 DEF t, Range

LEMMA Sent ==
  ASSUME NEW S, NEW s \in Seq(S), NEW x \in S, Distinct(s), x \notin Range(s)
  PROVE  /\ s \o <<x>> \in Seq(S) /\ Distinct(s \o <<x>>)
         /\ Range(s \o <<x>>) = Range(s) \cup {x}
<1> DEFINE t == Append(s, x)
<1>1. t = s \o <<x>>
  OBVIOUS
<1>2. /\ Len(s) \in Nat /\ DOMAIN s = 1 .. Len(s) /\ DOMAIN t = 1 .. Len(s) + 1
      /\ t[Len(s) + 1] = x /\ \A i \in 1 .. Len(s) : t[i] = s[i]
  OBVIOUS
<1>3. t \in Seq(S) /\ Range(t) = Range(s) \cup {x}
  BY AppendRange
<1> HIDE DEF t
<1>4. \A i \in DOMAIN t : (i \in DOMAIN s /\ t[i] = s[i]) \/ (i = Len(s) + 1 /\ t[i] = x)
  BY <1>2
<1>5. \A i \in DOMAIN s : s[i] # x
  BY DEF Range
<1>6. Distinct(t)
  BY <1>4, <1>5 DEF Distinct
<1> QED
  BY <1>1, <1>3, <1>6

-----------------------------------------------------------------------------
LEMMA InitInv == Init => IInv
<1> SUFFICES ASSUME Init PROVE IInv
  OBVIOUS
<1>1. PipeTypes
  <2>1. <<HostConn, 1>> \in Bundle
    BY EngineAssumption DEF Bundle
  <2> QED
    BY <2>1 DEF Init, PipeTypes
<1>2. ConnTypes
  BY DEF Init, ConnTypes
<1>3. LatestSent /\ Distinct(remote)
  BY DEF Init, LatestSent, Distinct
<1>4. PlacesInv
  <2> SUFFICES ASSUME NEW b \in Bundle PROVE Once(b) /\ (Somewhere(b) <=> CameIn(b))
    BY DEF PlacesInv
  <2>1. /\ b[1] \in Conn /\ b[2] \in Nat /\ b = <<b[1], b[2]>>
        /\ absorbed = {} /\ group = {} /\ forwarders = {} /\ ~AtConn(b)
    BY DEF Bundle, Init, AtConn
  <2>2. Range(remote) = {} /\ Range(raw) = {}
    BY RangeOfNone DEF Init
  <2>3. CASE role = "host"
    <3>1. Range(kept) = {} /\ arrived[b[1]] = 0
      BY <2>1, <2>3, RangeOfNone DEF Init
    <3> QED
      BY <2>1, <2>2, <3>1 DEF Once, Somewhere, CameIn
  <2>4. CASE role = "client"
    <3>1. /\ Range(kept) = {<<HostConn, 1>>}
          /\ arrived[b[1]] = IF b[1] = HostConn THEN 1 ELSE 0
      BY <2>1, <2>4, RangeOfOne DEF Init
    <3>2. CameIn(b) <=> b = <<HostConn, 1>>
      BY <2>1, <3>1 DEF CameIn
    <3> QED
      BY <2>1, <2>2, <3>1, <3>2 DEF Once, Somewhere
  <2> QED
    BY <2>3, <2>4 DEF Init
<1> QED
  BY <1>1, <1>2, <1>3, <1>4 DEF IInv, RunInv

(* The steps that leave alone the pipe and what comes in: those of the     *)
(* Bundler, the Updater, bootstrapRoutine and the callers.                 *)
Aside ==
  /\ UNCHANGED <<kept, forwarders, raw, remote, group, absorbed, arrived, fan>>
  /\ DOMAIN task' = DOMAIN task
  /\ \A c \in Conn : task'[c] = "fan" <=> task[c] = "fan"

Quiet ==
  \/ Shutdown \/ \E e \in Event : ApplyEvent(e)
  \/ BundlerTurn \/ TakeLocalBundle \/ TakeZeroLocalBundle \/ UpdaterTurn
  \/ \E c \in Conn : Accept(c) \/ Confirm(c)

LEMMA QuietStep ==
  ASSUME ConnTypes, Quiet
  PROVE  Aside /\ ConnTypes' /\ UNCHANGED communicator
<1> USE DEF ConnTypes, Aside, pipeVars
<1>1. CASE Shutdown
  BY <1>1 DEF Shutdown, connVars
<1>2. ASSUME NEW e \in Event, ApplyEvent(e) PROVE Aside /\ ConnTypes' /\ UNCHANGED communicator
  BY <1>2 DEF ApplyEvent, connVars
<1>3. CASE BundlerTurn
  <2>1. ASSUME NEW c \in Conn, TakeEngineEvent(c)
        PROVE  Aside /\ ConnTypes' /\ UNCHANGED communicator
    BY <2>1 DEF TakeEngineEvent
  <2>2. CASE Tick
    BY <2>2 DEF Tick, connVars
  <2>3. CASE CloseBundler
    BY <2>3 DEF CloseBundler, connVars
  <2> QED
    BY <1>3, <2>1, <2>2, <2>3 DEF BundlerTurn
<1>4. CASE TakeLocalBundle
  BY <1>4 DEF TakeLocalBundle, connVars
<1>5. CASE TakeZeroLocalBundle
  BY <1>5 DEF TakeZeroLocalBundle, connVars
<1>6. CASE UpdaterTurn
  BY <1>6 DEF UpdaterTurn, Broadcast, SendBootstrapFrame, Advanced, connVars
<1>7. ASSUME NEW c \in Conn, Accept(c) \/ Confirm(c)
      PROVE  Aside /\ ConnTypes' /\ UNCHANGED communicator
  BY <1>7 DEF Accept, Confirm
<1> QED
  BY <1>1, <1>2, <1>3, <1>4, <1>5, <1>6, <1>7 DEF Quiet

LEMMA StartStep ==
  ASSUME ConnTypes, StartEngine
  PROVE  Aside /\ ConnTypes' /\ (Running' => Running)
<1>1. UNCHANGED <<kept, forwarders, raw, remote, group, nagled, absorbed, arrived, fan>>
  BY DEF StartEngine
<1>2. CASE communicator = "off" /\ communicator' = "select" /\ UNCHANGED auditor
  BY <1>1, <1>2, EngineAssumption
     DEF StartEngine, Start, ConnTypes, Aside, pipeVars, Running
<1>3. CASE UNCHANGED <<communicator, task>> /\ (UNCHANGED auditor \/ communicator # "off")
  BY <1>1, <1>3 DEF ConnTypes, Aside, pipeVars, Running
<1> QED
  BY <1>2, <1>3 DEF StartEngine, Start

(* What the step leaves alone stays where it is.                           *)
LEMMA AsideMoves ==
  ASSUME PipeTypes, Aside PROVE PipeTypes' /\ (RunInv => RunInv')
<1>1. /\ \A c \in Conn : task'[c] = "fan" <=> task[c] = "fan"
      /\ arrived' = arrived /\ fan' = fan /\ absorbed' = absorbed /\ group' = group
      /\ remote' = remote /\ raw' = raw /\ forwarders' = forwarders /\ kept' = kept
  BY DEF Aside, pipeVars
<1>2. PipeTypes'
  BY <1>1 DEF PipeTypes
<1> SUFFICES ASSUME RunInv PROVE RunInv'
  BY <1>2
<1>3. LatestSent' /\ Distinct(remote)'
  BY <1>1 DEF RunInv, LatestSent, Distinct
<1>4. ASSUME NEW b \in Bundle PROVE Once(b)' /\ (Somewhere(b)' <=> CameIn(b)')
  <2>1. AtConn(b)' <=> AtConn(b)
    BY <1>1 DEF AtConn, Bundle
  <2>2. Once(b) /\ (Somewhere(b) <=> CameIn(b))
    BY DEF RunInv, PlacesInv
  <2> QED
    BY <1>1, <2>1, <2>2 DEF Once, Somewhere, CameIn
<1> QED
  BY <1>3, <1>4 DEF RunInv, PlacesInv

-----------------------------------------------------------------------------
(* The steps that hand a bundle on.  Whoever has it knows that nobody else *)
(* does, and that it has come in.                                          *)
LEMMA ArriveStep ==
  ASSUME IInv, Running, NEW c \in Conn, Arrive(c)
  PROVE  RunInv' /\ PipeTypes' /\ ConnTypes'
<1> DEFINE new == <<c, arrived[c] + 1>>
<1>1. /\ UNCHANGED <<absorbed, group, remote, raw, forwarders, kept, communicator, auditor>>
      /\ task[c] = "conn" /\ communicator = "select"
      /\ arrived' = [arrived EXCEPT ![c] = @ + 1] /\ fan' = [fan EXCEPT ![c] = arrived[c] + 1]
      /\ task' = [task EXCEPT ![c] = "fan"]
  BY DEF Arrive, pipeVars
<1>2. RunInv /\ PipeTypes /\ ConnTypes
  BY DEF IInv
<1>3. PipeTypes' /\ ConnTypes' /\ arrived[c] \in Nat
  BY <1>1, <1>2 DEF PipeTypes, ConnTypes
<1>4. LatestSent' /\ Distinct(remote)'
  BY <1>1, <1>2 DEF RunInv, LatestSent, Distinct, ConnTypes
<1>5. ASSUME NEW b \in Bundle PROVE Once(b)' /\ (Somewhere(b)' <=> CameIn(b)')
  <2>1. /\ b = <<b[1], b[2]>> /\ b[1] \in Conn /\ b[2] \in Nat
        /\ Once(b) /\ (Somewhere(b) <=> CameIn(b))
    BY <1>2 DEF RunInv, PlacesInv, Bundle
  <2>2. AtConn(b)' <=> AtConn(b) \/ b = new
    BY <1>1, <1>2, <2>1 DEF AtConn, ConnTypes
  <2>3. CameIn(b)' <=> CameIn(b) \/ b = new
    BY <1>1, <1>2, <1>3, <2>1 DEF CameIn, ConnTypes
  <2>4. b = new => ~CameIn(b)
    BY <1>3 DEF CameIn
  <2> HIDE DEF new
  <2> QED
    BY <1>1, <2>1, <2>2, <2>3, <2>4 DEF Once, Somewhere
<1> QED
  BY <1>3, <1>4, <1>5 DEF RunInv, PlacesInv

LEMMA FanInStep ==
  ASSUME IInv, NEW c \in Conn, FanIn(c)
  PROVE  PipeTypes' /\ ConnTypes' /\ (Running' => Running /\ RunInv')
<1> DEFINE sent == <<c, fan[c]>>
<1>1. /\ UNCHANGED <<absorbed, group, remote, raw, kept, communicator, auditor, arrived, fan>>
      /\ task[c] = "fan" /\ communicator \in {"select", "wait"}
      /\ forwarders' = IF communicator = "select" THEN forwarders \cup {sent} ELSE forwarders
      /\ task' = [task EXCEPT ![c] = IF fan[c] = 0 THEN "done" ELSE "conn"]
  BY DEF FanIn
<1>2. PipeTypes /\ ConnTypes
  BY DEF IInv
<1>3. sent \in Bundle
  BY <1>2 DEF ConnTypes, Bundle
<1>4. PipeTypes'
  BY <1>1, <1>2, <1>3 DEF PipeTypes
<1>5. ConnTypes'
  BY <1>1, <1>2 DEF ConnTypes
<1> SUFFICES ASSUME Running' PROVE Running /\ RunInv'
  BY <1>4, <1>5
<1>6. communicator = "select" /\ Running /\ RunInv
  BY <1>1 DEF Running, IInv
<1>7. LatestSent' /\ Distinct(remote)' /\ fan[c] # 0 /\ task'[c] # "fan"
  BY <1>1, <1>2, <1>6 DEF RunInv, LatestSent, Distinct, ConnTypes
<1>8. ASSUME NEW b \in Bundle PROVE Once(b)' /\ (Somewhere(b)' <=> CameIn(b)')
  <2>1. /\ b = <<b[1], b[2]>> /\ b[1] \in Conn /\ b[2] \in Nat
        /\ Once(b) /\ (Somewhere(b) <=> CameIn(b))
    BY <1>6 DEF RunInv, PlacesInv, Bundle
  <2>2. (AtConn(b)' <=> AtConn(b) /\ b # sent) /\ (b = sent => AtConn(b))
    BY <1>1, <1>2, <1>7, <2>1 DEF AtConn, ConnTypes
  <2>3. b \in forwarders' <=> b \in forwarders \/ b = sent
    BY <1>1, <1>6
  <2> HIDE DEF sent
  <2> QED
    BY <1>1, <2>1, <2>2, <2>3 DEF Once, Somewhere, CameIn
<1> QED
  BY <1>6, <1>7, <1>8 DEF RunInv, PlacesInv

LEMMA ConnEndsStep ==
  ASSUME IInv, NEW c \in Conn, ConnEnds(c) PROVE PipeTypes' /\ ConnTypes' /\ ~Running'
BY DEF ConnEnds, IInv, PipeTypes, ConnTypes, Running, pipeVars

LEMMA ClosingStep ==
  ASSUME IInv, ShutdownCommunicator \/ CloseCommunicator
  PROVE  PipeTypes' /\ ConnTypes' /\ ~Running'
BY DEF ShutdownCommunicator, CloseCommunicator, IInv, PipeTypes, ConnTypes, Running, pipeVars,
       connVars

LEMMA AuditStep ==
  ASSUME IInv, Audit PROVE PipeTypes' /\ ConnTypes' /\ (Running' => Running /\ RunInv')
<1>1. /\ UNCHANGED <<absorbed, group, remote, communicator, auditor, task, arrived, fan>>
      /\ raw = <<>>
  BY DEF Audit, connVars
<1>2. PipeTypes /\ ConnTypes
  BY DEF IInv
<1>3. ConnTypes'
  BY <1>1, <1>2 DEF ConnTypes
<1>4. CASE communicator = "closed" /\ raw' = <<<<HostConn, 0>>>> /\ UNCHANGED <<kept, forwarders>>
  <2>1. <<HostConn, 0>> \in Bundle
    BY EngineAssumption DEF Bundle
  <2>2. PipeTypes'
    BY <1>1, <1>2, <1>4, <2>1 DEF PipeTypes
  <2> QED
    BY <1>1, <1>3, <1>4, <2>2 DEF Running
<1>5. ASSUME NEW x \in Bundle, raw' = <<x>>,
             \/ x \in forwarders /\ forwarders' = forwarders \ {x} /\ kept' = kept
             \/ kept = <<x>> /\ kept' = <<>> /\ forwarders' = forwarders
      PROVE  PipeTypes' /\ (Running' => Running /\ RunInv')
  <2>1. PipeTypes'
    BY <1>1, <1>2, <1>5 DEF PipeTypes
  <2> SUFFICES ASSUME Running' PROVE Running /\ RunInv'
    BY <2>1
  <2>2. Running /\ RunInv
    BY <1>1 DEF Running, IInv
  <2>3. LatestSent' /\ Distinct(remote)'
    BY <1>1, <2>2 DEF RunInv, LatestSent, Distinct
  <2>4. Range(raw') = {x} /\ Range(raw) = {}
    BY <1>1, <1>5, RangeOfOne, RangeOfNone
  <2>5. \/ x \in forwarders /\ forwarders' = forwarders \ {x} /\ Range(kept') = Range(kept)
        \/ Range(kept) = {x} /\ Range(kept') = {} /\ forwarders' = forwarders
    BY <1>5, RangeOfOne, RangeOfNone
  <2>6. ASSUME NEW b \in Bundle PROVE Once(b)' /\ (Somewhere(b)' <=> CameIn(b)')
    <3>1. /\ Once(b) /\ (Somewhere(b) <=> CameIn(b)) /\ (AtConn(b)' <=> AtConn(b))
          /\ (CameIn(b)' <=> CameIn(b))
      BY <1>1, <2>2 DEF RunInv, PlacesInv, AtConn, CameIn
    <3> QED
      BY <1>1, <2>4, <2>5, <3>1 DEF Once, Somewhere
  <2> QED
    BY <2>2, <2>3, <2>6 DEF RunInv, PlacesInv
<1>6. ASSUME NEW x \in forwarders, forwarders' = forwarders \ {x}, raw' = <<x>>, kept' = kept
      PROVE  PipeTypes' /\ (Running' => Running /\ RunInv')
  BY <1>2, <1>5, <1>6 DEF PipeTypes
<1>7. ASSUME kept # <<>>, kept' = Tail(kept), raw' = <<Head(kept)>>, forwarders' = forwarders
      PROVE  PipeTypes' /\ (Running' => Running /\ RunInv')
  <2>1. PICK x \in Bundle : kept = <<x>>
    BY <1>2, <1>7 DEF PipeTypes
  <2>2. Head(kept) = x /\ Tail(kept) = <<>>
    BY <2>1
  <2> QED
    BY <1>5, <1>7, <2>1, <2>2
<1> QED
  BY <1>1, <1>3, <1>4, <1>6, <1>7 DEF Audit

LEMMA PassAuditStep ==
  ASSUME IInv, PassAudit PROVE PipeTypes' /\ ConnTypes' /\ (Running' => Running /\ RunInv')
<1>1. /\ UNCHANGED <<absorbed, group, forwarders, kept, communicator, auditor, task, arrived, fan>>
      /\ raw # <<>> /\ raw' = <<>> /\ remote' = remote \o raw
  BY DEF PassAudit, connVars
<1>2. PipeTypes /\ ConnTypes
  BY DEF IInv
<1>3. PICK x \in Bundle : raw = <<x>>
  BY <1>1, <1>2 DEF PipeTypes
<1>4. remote \in Seq(Bundle) /\ remote' \in Seq(Bundle)
  BY <1>1, <1>2, <1>3 DEF PipeTypes
<1>5. PipeTypes' /\ ConnTypes'
  BY <1>1, <1>2, <1>4 DEF PipeTypes, ConnTypes
<1> SUFFICES ASSUME Running' PROVE Running /\ RunInv'
  BY <1>5
<1>6. Running /\ RunInv
  BY <1>1 DEF Running, IInv
<1>7. Range(raw) = {x} /\ Range(raw') = {}
  BY <1>1, <1>3, RangeOfOne, RangeOfNone
<1>8. x \notin Range(remote) /\ Distinct(remote)
  BY <1>6, <1>7 DEF RunInv, PlacesInv, Once
<1>9. Distinct(remote') /\ Range(remote') = Range(remote) \cup {x}
  BY <1>1, <1>3, <1>4, <1>8, Sent
<1>10. LatestSent' /\ Distinct(remote)'
  BY <1>1, <1>6, <1>9 DEF RunInv, LatestSent, Distinct
<1>11. ASSUME NEW b \in Bundle PROVE Once(b)' /\ (Somewhere(b)' <=> CameIn(b)')
  <2>1. /\ Once(b) /\ (Somewhere(b) <=> CameIn(b)) /\ (AtConn(b)' <=> AtConn(b))
        /\ (CameIn(b)' <=> CameIn(b))
    BY <1>1, <1>6 DEF RunInv, PlacesInv, AtConn, CameIn
  <2> QED
    BY <1>1, <1>7, <1>9, <2>1 DEF Once, Somewhere
<1> QED
  BY <1>6, <1>10, <1>11 DEF RunInv, PlacesInv

LEMMA CollectStep ==
  ASSUME IInv, Collect PROVE PipeTypes' /\ ConnTypes' /\ (Running' => Running /\ RunInv')
<1> DEFINE x == Head(remote)
<1>1. /\ UNCHANGED <<absorbed, raw, forwarders, kept, communicator, auditor, task, arrived, fan>>
      /\ remote # <<>> /\ remote' = Tail(remote) /\ group' = group \cup {x}
  BY DEF Collect, connVars
<1>2. PipeTypes /\ ConnTypes /\ remote \in Seq(Bundle)
  BY DEF IInv, PipeTypes
<1>3. x \in Bundle /\ remote' \in Seq(Bundle)
  BY <1>1, <1>2
<1>4. PipeTypes' /\ ConnTypes'
  BY <1>1, <1>2, <1>3 DEF PipeTypes, ConnTypes
<1> SUFFICES ASSUME Running' PROVE Running /\ RunInv'
  BY <1>4
<1>5. Running /\ RunInv
  BY <1>1 DEF Running, IInv
<1>6. Distinct(remote') /\ x \in Range(remote) /\ Range(remote') = Range(remote) \ {x}
  BY <1>1, <1>2, <1>5, Received DEF RunInv
<1> HIDE DEF x
<1>7. LatestSent' /\ Distinct(remote)'
  BY <1>1, <1>5, <1>6 DEF RunInv, LatestSent, Distinct
<1>8. ASSUME NEW b \in Bundle PROVE Once(b)' /\ (Somewhere(b)' <=> CameIn(b)')
  <2>1. /\ Once(b) /\ (Somewhere(b) <=> CameIn(b)) /\ (AtConn(b)' <=> AtConn(b))
        /\ (CameIn(b)' <=> CameIn(b))
    BY <1>1, <1>5 DEF RunInv, PlacesInv, AtConn, CameIn
  <2> QED
    BY <1>1, <1>6, <2>1 DEF Once, Somewhere
<1> QED
  BY <1>5, <1>7, <1>8 DEF RunInv, PlacesInv

(* No bundle of the group is a zero one: those only come once the conns    *)
(* are closed.                                                             *)
LEMMA AbsorbStep ==
  ASSUME IInv, AbsorbGroup PROVE PipeTypes' /\ ConnTypes' /\ (Running' => Running /\ RunInv')
<1>1. /\ UNCHANGED <<remote, raw, forwarders, kept, communicator, auditor, task, arrived, fan>>
      /\ group' = {} /\ absorbed' = absorbed \cup {b \in group : b[2] # 0}
  BY DEF AbsorbGroup, connVars
<1>2. PipeTypes /\ ConnTypes
  BY DEF IInv
<1>3. PipeTypes' /\ ConnTypes'
  BY <1>1, <1>2 DEF PipeTypes, ConnTypes
<1> SUFFICES ASSUME Running' PROVE Running /\ RunInv'
  BY <1>3
<1>4. Running /\ RunInv
  BY <1>1 DEF Running, IInv
<1>5. LatestSent' /\ Distinct(remote)'
  BY <1>1, <1>4 DEF RunInv, LatestSent, Distinct
<1>6. ASSUME NEW b \in Bundle PROVE Once(b)' /\ (Somewhere(b)' <=> CameIn(b)')
  <2>1. /\ Once(b) /\ (Somewhere(b) <=> CameIn(b)) /\ (AtConn(b)' <=> AtConn(b))
        /\ (CameIn(b)' <=> CameIn(b))
    BY <1>1, <1>4 DEF RunInv, PlacesInv, AtConn, CameIn
  <2>2. b \in group => b[2] # 0
    BY <2>1 DEF Somewhere, CameIn
  <2> QED
    BY <1>1, <2>1, <2>2 DEF Once, Somewhere
<1> QED
  BY <1>4, <1>5, <1>6 DEF RunInv, PlacesInv

LEMMA EndGroupStep ==
  ASSUME IInv, EndGroup PROVE IInv'
BY DEF EndGroup, connVars, IInv, PipeTypes, ConnTypes, RunInv, LatestSent, Distinct, PlacesInv,
       Once, Somewhere, CameIn, AtConn, Running

-----------------------------------------------------------------------------
LEMMA NextStep == ASSUME IInv, [Next]_vars PROVE IInv'
<1>0. PipeTypes /\ ConnTypes /\ (Running => RunInv)
  BY DEF IInv
<1>1. CASE Quiet
  <2>1. Aside /\ ConnTypes' /\ UNCHANGED communicator
    BY <1>0, <1>1, QuietStep
  <2> QED
    BY <1>0, <2>1, AsideMoves DEF IInv, Running
<1>2. CASE StartEngine
  BY <1>0, <1>2, StartStep, AsideMoves DEF IInv
<1>3. CASE \E c \in Conn : Arrive(c) \/ FanIn(c) \/ ConnEnds(c)
  <2>1. ASSUME NEW c \in Conn, Arrive(c) PROVE IInv'
    <3>1. Running
      BY <2>1 DEF Arrive, Running
    <3> QED
      BY <2>1, <3>1, ArriveStep DEF IInv
  <2> QED
    BY <1>3, <2>1, FanInStep, ConnEndsStep DEF IInv
<1>4. CASE ShutdownCommunicator \/ CloseCommunicator
  BY <1>4, ClosingStep DEF IInv
<1>5. CASE Audit
  BY <1>5, AuditStep DEF IInv
<1>6. CASE PassAudit
  BY <1>6, PassAuditStep DEF IInv
<1>7. CASE Collect
  BY <1>7, CollectStep DEF IInv
<1>8. CASE AbsorbGroup
  BY <1>8, AbsorbStep DEF IInv
<1>9. CASE EndGroup
  BY <1>9, EndGroupStep
<1>10. CASE UNCHANGED vars
  <2>1. Aside /\ ConnTypes' /\ UNCHANGED communicator
    BY <1>0, <1>10 DEF vars, connVars, pipeVars, Aside, ConnTypes
  <2> QED
    BY <1>0, <2>1, AsideMoves DEF IInv, Running
<1> QED
  BY <1>1, <1>2, <1>3, <1>4, <1>5, <1>6, <1>7, <1>8, <1>9, <1>10
     DEF Next, Quiet, ConnTurn, Pipe

-----------------------------------------------------------------------------
LEMMA PlacesAreCounted ==
  ASSUME IInv, Running, NEW c \in Conn, NEW n \in 1 .. arrived[c]
  PROVE  Cardinality({i \in 1 .. 7 : Places(<<c, n>>)[i]}) = 1
<1> DEFINE b == <<c, n>>
<1>1. b \in Bundle /\ CameIn(b)
  BY DEF IInv, ConnTypes, Bundle, CameIn
<1>2. Once(b) /\ Somewhere(b)
  BY <1>1 DEF IInv, RunInv, PlacesInv
<1>3. PICK p1 \in BOOLEAN : p1 <=> b \in absorbed
  OBVIOUS
<1>4. PICK p2 \in BOOLEAN : p2 <=> b \in group
  OBVIOUS
<1>5. PICK p3 \in BOOLEAN : p3 <=> b \in Range(remote)
  OBVIOUS
<1>6. PICK p4 \in BOOLEAN : p4 <=> b \in Range(raw)
  OBVIOUS
<1>7. PICK p5 \in BOOLEAN : p5 <=> b \in forwarders
  OBVIOUS
<1>8. PICK p6 \in BOOLEAN : p6 <=> b \in Range(kept)
  OBVIOUS
<1>9. PICK p7 \in BOOLEAN : p7 <=> AtConn(b)
  OBVIOUS
<1>10. Places(b) = <<p1, p2, p3, p4, p5, p6, p7>>
  BY <1>3, <1>4, <1>5, <1>6, <1>7, <1>8, <1>9 DEF Places, AtConn
<1> HIDE DEF b
<1>11. /\ p1 \/ p2 \/ p3 \/ p4 \/ p5 \/ p6 \/ p7
       /\ p1 => ~(p2 \/ p3 \/ p4 \/ p5 \/ p6 \/ p7)
       /\ p2 => ~(p3 \/ p4 \/ p5 \/ p6 \/ p7)
       /\ p3 => ~(p4 \/ p5 \/ p6 \/ p7)
       /\ p4 => ~(p5 \/ p6 \/ p7)
       /\ p5 => ~(p6 \/ p7)
       /\ p6 => ~p7
  BY <1>2, <1>3, <1>4, <1>5, <1>6, <1>7, <1>8, <1>9 DEF Once, Somewhere
<1> DEFINE place == <<p1, p2, p3, p4, p5, p6, p7>>
<1>12. /\ place[1] = p1 /\ place[2] = p2 /\ place[3] = p3 /\ place[4] = p4
       /\ place[5] = p5 /\ place[6] = p6 /\ place[7] = p7
  OBVIOUS
<1>13. \A i \in 1 .. 7 : i = 1 \/ i = 2 \/ i = 3 \/ i = 4 \/ i = 5 \/ i = 6 \/ i = 7
  OBVIOUS
<1> HIDE DEF place
<1>14. \E k \in 1 .. 7 : place[k] /\ \A i \in 1 .. 7 : place[i] => i = k
  BY <1>11, <1>12, <1>13
<1>15. PICK k : {i \in 1 .. 7 : place[i]} = {k}
  BY <1>14
<1>16. Cardinality({i \in 1 .. 7 : place[i]}) = 1
  BY <1>15, FS_Singleton
<1> QED
  BY <1>10, <1>16 DEF b, place

(* A bundle that has come in on a conn is in one place, of connRoutine,    *)
(* Join, routine, the Auditor, nagle, the channel between those two and    *)
(* the Updater, until the Communicator is shut down.                       *)
THEOREM BundlesAreConserved == Spec => []RemoteConserved
<1>1. Init => IInv
  BY InitInv
<1>2. IInv /\ [Next]_vars => IInv'
  BY NextStep
<1>3. IInv => RemoteConserved
  BY PlacesAreCounted DEF RemoteConserved, Running
<1> QED
  BY <1>1, <1>2, <1>3, PTL DEF Spec
=============================================================================
