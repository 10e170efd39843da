-------------------------- MODULE TcpNetworkProofs --------------------------
(***************************************************************************)
(* The two machines agree on the outcome of a Join, the host does not end  *)
(* while it hosts, and the conn between them implements Conn.              *)
(***************************************************************************)
EXTENDS TcpNetwork, SharedLemmas

-----------------------------------------------------------------------------
(* Sequences.                                                              *)

LEMMA Moved ==
  ASSUME NEW S, NEW s \in Seq(S), NEW t \in Seq(S), t # <<>>
  PROVE  Append(s, Head(t)) \o Tail(t) = s \o t
<1>1. /\ Head(t) \in S /\ Tail(t) \in Seq(S) /\ Len(Tail(t)) = Len(t) - 1
      /\ \A i \in 1 .. Len(Tail(t)) : Tail(t)[i] = t[i + 1]
      /\ Len(s) \in Nat /\ Len(t) \in Nat /\ Len(t) > 0 /\ Head(t) = t[1]
  BY HeadTailProperties
<1> DEFINE left == Append(s, Head(t)) \o Tail(t)
           right == s \o t
<1>2. /\ Append(s, Head(t)) \in Seq(S) /\ Len(Append(s, Head(t))) = Len(s) + 1
      /\ \A i \in 1 .. Len(s) : Append(s, Head(t))[i] = s[i]
      /\ Append(s, Head(t))[Len(s) + 1] = t[1]
  BY <1>1, AppendProperties
<1>3. left \in Seq(S) /\ right \in Seq(S) /\ Len(left) = Len(right) /\ Len(right) = Len(s) + Len(t)
  BY <1>1, <1>2, ConcatProperties
<1>4. ASSUME NEW i \in 1 .. Len(right) PROVE left[i] = right[i]
  BY <1>1, <1>2, <1>3, ConcatProperties
<1> QED
  BY <1>3, <1>4, SeqEqual

LEMMA Taken ==
  ASSUME NEW S, NEW s \in Seq(S), NEW t \in Seq(S), s # <<>>
  PROVE  /\ s \o t \in Seq(S) /\ s \o t # <<>>
         /\ Head(s \o t) = Head(s) /\ Tail(s \o t) = Tail(s) \o t
<1> DEFINE both == s \o t
<1>1. /\ Tail(s) \in Seq(S) /\ Len(Tail(s)) = Len(s) - 1
      /\ \A i \in 1 .. Len(Tail(s)) : Tail(s)[i] = s[i + 1]
      /\ Len(s) \in Nat /\ Len(t) \in Nat /\ Len(s) > 0
  BY HeadTailProperties
<1>2. /\ both \in Seq(S) /\ Len(both) = Len(s) + Len(t)
      /\ \A i \in 1 .. Len(s) + Len(t) : both[i] = IF i <= Len(s) THEN s[i] ELSE t[i - Len(s)]
  BY ConcatProperties
<1> HIDE DEF both
<1>3. both # <<>> /\ Head(both) = Head(s)
  BY <1>1, <1>2
<1>4. /\ Tail(both) \in Seq(S) /\ Len(Tail(both)) = Len(both) - 1
      /\ \A i \in 1 .. Len(Tail(both)) : Tail(both)[i] = both[i + 1]
  BY <1>2, <1>3, HeadTailProperties
<1>5. /\ Tail(s) \o t \in Seq(S) /\ Len(Tail(s) \o t) = Len(Tail(both))
      /\ \A i \in 1 .. Len(Tail(both)) : (Tail(s) \o t)[i] = Tail(both)[i]
  BY <1>1, <1>2, <1>4, ConcatProperties
<1>6. Tail(both) = Tail(s) \o t
  BY <1>4, <1>5, SeqEqual
<1> QED
  BY <1>2, <1>3, <1>6 DEF both

LEMMA Added ==
  ASSUME NEW S, NEW s \in Seq(S), NEW t \in Seq(S), NEW x \in S
  PROVE  s \o Append(t, x) = Append(s \o t, x)
<1>1. <<x>> \in Seq(S) /\ s \o t \in Seq(S)
  BY ConcatProperties
<1>2. Append(t, x) = t \o <<x>> /\ Append(s \o t, x) = (s \o t) \o <<x>>
  BY <1>1, AppendIsConcat
<1> QED
  BY <1>1, <1>2, ConcatAssociative

Ascending(s) == \A i, j \in DOMAIN s : i < j => s[i] < s[j]

LEMMA TailAscending ==
  ASSUME NEW s \in Seq(Nat), s # <<>>, Ascending(s)
  PROVE  /\ Tail(s) \in Seq(Nat) /\ Ascending(Tail(s)) /\ Head(s) \in Nat
         /\ Range(s) = {Head(s)} \cup Range(Tail(s))
         /\ \A n \in Range(Tail(s)) : Head(s) < n
<1>1. /\ Tail(s) \in Seq(Nat) /\ Len(Tail(s)) = Len(s) - 1 /\ Len(s) \in Nat /\ Len(s) > 0
      /\ \A i \in 1 .. Len(Tail(s)) : Tail(s)[i] = s[i + 1]
      /\ Head(s) = s[1] /\ Head(s) \in Nat
  BY HeadTailProperties
<1>2. DOMAIN s = 1 .. Len(s) /\ DOMAIN Tail(s) = 1 .. Len(s) - 1
  BY <1>1
<1>3. /\ Ascending(Tail(s))
      /\ \A n \in Range(Tail(s)) : Head(s) < n
  <2> DEFINE t == Tail(s)
  <2>1. /\ DOMAIN t = 1 .. Len(s) - 1
        /\ \A i \in 1 .. Len(s) - 1 : t[i] = s[i + 1] /\ i + 1 \in DOMAIN s /\ 1 \in DOMAIN s
    BY <1>1, <1>2
  <2> HIDE DEF t
  <2>2. ASSUME NEW i \in DOMAIN t, NEW j \in DOMAIN t, i < j PROVE t[i] < t[j]
    <3>1. i + 1 < j + 1 /\ i + 1 \in DOMAIN s /\ j + 1 \in DOMAIN s
      BY <1>1, <2>1, <2>2
    <3> QED
      BY <2>1, <3>1 DEF Ascending
  <2>3. ASSUME NEW i \in DOMAIN t PROVE s[1] < t[i]
    <3>1. 1 < i + 1 /\ i + 1 \in DOMAIN s /\ 1 \in DOMAIN s
      BY <1>1, <2>1
    <3> QED
      BY <2>1, <3>1 DEF Ascending
  <2> QED
    BY <1>1, <2>2, <2>3 DEF Ascending, Range, t
<1>4. \A i \in 1 .. Len(s) : i = 1 \/ (i - 1 \in 1 .. Len(s) - 1 /\ s[i] = Tail(s)[i - 1])
  BY <1>1
<1>5. Range(s) = {Head(s)} \cup Range(Tail(s))
  <2>1. ASSUME NEW x \in Range(s) PROVE x \in {Head(s)} \cup Range(Tail(s))
    <3>1. PICK i \in 1 .. Len(s) : x = s[i]
      BY <1>2 DEF Range
    <3>2. CASE i = 1
      BY <1>1, <3>1, <3>2
    <3>3. CASE i - 1 \in 1 .. Len(s) - 1 /\ s[i] = Tail(s)[i - 1]
      BY <1>2, <3>1, <3>3 DEF Range
    <3> QED
      BY <1>4, <3>2, <3>3
  <2>2. ASSUME NEW x \in {Head(s)} \cup Range(Tail(s)) PROVE x \in Range(s)
    <3>1. CASE x = Head(s)
      BY <1>1, <1>2, <3>1 DEF Range
    <3>2. ASSUME NEW i \in 1 .. Len(s) - 1, x = Tail(s)[i] PROVE x \in Range(s)
      <4>1. i + 1 \in DOMAIN s /\ x = s[i + 1]
        BY <1>1, <1>2, <3>2
      <4> QED
        BY <4>1 DEF Range
    <3> QED
      BY <1>2, <3>1, <3>2 DEF Range
  <2> QED
    BY <2>1, <2>2
<1> QED
  BY <1>1, <1>3, <1>5

LEMMA AppendAscending ==
  ASSUME NEW s \in Seq(Nat), NEW x \in Nat, Ascending(s), \A n \in Range(s) : n < x
  PROVE  Ascending(Append(s, x))
<1>1. /\ DOMAIN s = 1 .. Len(s) /\ Len(s) \in Nat /\ DOMAIN Append(s, x) = 1 .. Len(s) + 1
      /\ \A i \in 1 .. Len(s) : Append(s, x)[i] = s[i]
      /\ Append(s, x)[Len(s) + 1] = x
  OBVIOUS
<1> DEFINE t == Append(s, x)
<1> HIDE DEF t
<1> SUFFICES ASSUME NEW i \in 1 .. Len(s) + 1, NEW j \in 1 .. Len(s) + 1, i < j
             PROVE  t[i] < t[j]
  BY <1>1 DEF Ascending, t
<1>2. i \in 1 .. Len(s) /\ t[i] = s[i] /\ s[i] \in Range(s)
  BY <1>1 DEF Range, t
<1>3. CASE j \in 1 .. Len(s)
  BY <1>1, <1>2, <1>3 DEF Ascending, t
<1>4. CASE j = Len(s) + 1
  BY <1>1, <1>2, <1>4 DEF t
<1> QED
  BY <1>1, <1>3, <1>4

-----------------------------------------------------------------------------
(* The inductive invariant.                                                *)

Payload == 0 .. Len(sent)
Piece == Payload \X Nat

ConnTyped ==
  /\ sent \in Seq(Kind) /\ queue \in Seq(Payload) /\ writing \in Payload
  /\ wire \in Seq(Piece) /\ db \in Seq(Piece) /\ decoded \in Payload
  /\ reader \in {"none", "read", "deliver", "ended"}
  /\ reader = "deliver" => decoded # 0
  /\ backlog \in [Kind -> Seq(Nat)] /\ to_pnf \in [Kind -> Seq(Nat)]
  /\ received \in Seq(Nat)

(* The payloads that readRoutine has handed on, and those of a kind among  *)
(* them that wait to be received: what recv{Data,Bundle}Routine does       *)
(* leaves Pending as it is.                                                *)
Delivered == IF reader = "deliver" THEN decoded - 1 ELSE decoded
Pending(k) == to_pnf[k] \o backlog[k]

(* A payload handed on is received or waits with those of its kind, not    *)
(* both, and those wait in the order of sending.                           *)
InHand ==
  /\ \A k \in Kind :
       /\ Ascending(Pending(k))
       /\ \A n \in Range(Pending(k)) :
            n \in 1 .. Delivered /\ sent[n] = k /\ n \notin Range(received)
  /\ Range(received) \subseteq 1 .. Delivered
  /\ \A n \in 1 .. Delivered : n \in Range(received) \cup Range(Pending(sent[n]))

(* Until the client reads it, the reply, as far as it was written, is the   *)
(* first thing on the wire, and nothing is sent before the reader of       *)
(* NewConns() has the conn.                                                *)
ReplyUnread ==
  /\ served = "refused" =>
       /\ Len(wire) <= 2
       /\ Len(wire) >= 1 => wire[1] = <<0, 2>>
       /\ Len(wire) = 2 => wire[2] = <<0, 0>>
  /\ served = "failed" => Len(wire) <= 1 /\ (Len(wire) = 1 => wire[1] = <<0, 1>>)
  /\ served \in {"replied", "offered", "connected"} =>
       Len(wire) >= 2 /\ wire[1] = <<0, 1>> /\ wire[2] = <<0, 0>>

(* A conn whose reply was cut finds the rest of it in front of whatever    *)
(* may come.                                                               *)
OutOfReply ==
  /\ decoded = 0 /\ reader \in {"read", "ended"}
  /\ reader = "read" =>
       /\ db = <<>>
       /\ IF wire = <<>> THEN served \in {"refused", "failed"} ELSE wire[1] = <<0, 0>>

Handshake ==
  /\ served \in {"none", "dialled", "asking", "refused", "replied", "offered",
                 "connected", "failed"}
  /\ answer \in {"none", "conn", "refused", "timeout"} /\ cut \in BOOLEAN
  /\ call \in {"none", "ping", "join"}
  /\ served # "connected" => sent = <<>> /\ queue = <<>> /\ writing = 0
  /\ served \in {"none", "dialled", "asking"} => wire = <<>> /\ answer \in {"none", "timeout"}
  /\ call = "join" => answer = "none" /\ served # "none" /\ ReplyUnread
  /\ answer # "none" => served # "none"
  /\ IF answer = "conn" THEN cut => OutOfReply
     ELSE reader = "none" /\ db = <<>> /\ decoded = 0

(* The goroutines that Host has started and that run, as far as a kill     *)
(* reaches them.                                                           *)
Running == (IF pinger = "none" THEN 0 ELSE 1) + (IF listener = "open" THEN 1 ELSE 0)

(* There is a kill for each goroutine that runs, so what the host answers  *)
(* with is set as long as the listener is open.                            *)
HostInv ==
  /\ request \in {"none", "on", "off", "abandon"}
  /\ pinger \in {"none", "listen", "failed"} /\ listener \in {"none", "open"}
  /\ killed \subseteq {"closing", "closed"}
  /\ ping \in {"none", "sent", "hand"}
  /\ killable \in BOOLEAN /\ hosting \in BOOLEAN /\ kills \in 0 .. 2
  /\ request # "none" => kills = Running
  /\ request = "none" => kills = 0 /\ Running = (IF killable THEN 2 ELSE 0)
  /\ request = "abandon" => ~killable /\ listener # "open"
  /\ ping = "hand" => pinger = "listen"
  /\ listener = "open" => hosting
  /\ served # "none" => listener = "open" \/ killed # {}
  /\ served = "asking" => hosting \/ killed # {}

IInv == ConnTyped /\ InHand /\ Handshake /\ HostInv /\ JoinAgrees /\ NoCrashWhileHosting

-----------------------------------------------------------------------------
(* The conn.                                                               *)

LEMMA Basics ==
  ASSUME ConnTyped
  PROVE  /\ Len(sent) \in Nat /\ Pieces \in Nat \ {0} /\ decoded \in Nat
         /\ Delivered \in 0 .. Len(sent) /\ Delivered \in 0 .. decoded
         /\ DOMAIN sent = 1 .. Len(sent) /\ \A n \in 1 .. Len(sent) : sent[n] \in Kind
         /\ \A k \in Kind : Pending(k) \in Seq(Nat)
<1>1. Len(sent) \in Nat /\ Pieces \in Nat \ {0} /\ decoded \in 0 .. Len(sent)
  BY TcpConnAssumption DEF ConnTyped, Payload
<1>2. Delivered \in 0 .. Len(sent) /\ Delivered \in 0 .. decoded
  BY <1>1 DEF ConnTyped, Delivered
<1>3. DOMAIN sent = 1 .. Len(sent) /\ \A n \in 1 .. Len(sent) : sent[n] \in Kind
  BY DEF ConnTyped
<1>4. ASSUME NEW k \in Kind PROVE Pending(k) \in Seq(Nat)
  <2>1. to_pnf[k] \in Seq(Nat) /\ backlog[k] \in Seq(Nat)
    BY DEF ConnTyped
  <2> QED
    BY <2>1, ConcatProperties DEF Pending
<1> QED
  BY <1>1, <1>2, <1>3, <1>4

(* Steps that leave what is handed on alone.                               *)
LEMMA SameInHand ==
  ASSUME ConnTyped, InHand, UNCHANGED receiver, Delivered' = Delivered,
         \A n \in 1 .. Delivered : sent'[n] = sent[n]
  PROVE  InHand'
<1>1. to_pnf' = to_pnf /\ backlog' = backlog /\ received' = received
  BY DEF receiver
<1>2. ASSUME NEW k \in Kind PROVE
        /\ Ascending(Pending(k)')
        /\ \A n \in Range(Pending(k)') :
             n \in 1 .. Delivered' /\ sent'[n] = k /\ n \notin Range(received')
  <2>1. Pending(k)' = Pending(k)
    BY <1>1 DEF Pending
  <2> QED
    BY <1>1, <2>1 DEF InHand
<1>3. ASSUME NEW n \in 1 .. Delivered'
      PROVE  n \in Range(received') \cup Range(to_pnf'[sent'[n]] \o backlog'[sent'[n]])
  BY <1>1, <1>3 DEF InHand, Pending
<1>4. Range(received') \subseteq 1 .. Delivered'
  BY <1>1 DEF InHand
<1> QED
  BY <1>2, <1>3, <1>4 DEF InHand, Pending

LEMMA WireStep ==
  ASSUME ConnTyped, InHand, UNCHANGED <<sender, db, decoded, receiver>>, wire' \in Seq(Piece),
         reader' = reader \/ (reader = "none" /\ reader' = "read")
  PROVE  (ConnTyped /\ InHand)'
<1>1. Delivered' = Delivered /\ sent' = sent
  BY DEF Delivered, sender
<1>2. InHand'
  BY <1>1, SameInHand
<1>3. ConnTyped'
  BY DEF ConnTyped, sender, receiver, Payload, Piece
<1> QED
  BY <1>2, <1>3

LEMMA SendStep ==
  ASSUME ConnTyped, InHand, NEW k \in Kind, Send(k)
  PROVE  (ConnTyped /\ InHand)'
<1>1. /\ sent' \in Seq(Kind) /\ Len(sent') = Len(sent) + 1
      /\ \A n \in 1 .. Len(sent) : sent'[n] = sent[n]
  <2>1. sent' = Append(sent, k) /\ sent \in Seq(Kind)
    BY DEF ConnTyped, Send
  <2> QED
    BY <2>1, AppendProperties
<1>2. Len(sent) \in Nat
  BY Basics
<1>3. Payload \subseteq Payload' /\ Len(sent) + 1 \in Payload'
  BY <1>1, <1>2 DEF Payload
<1>4. Piece \subseteq Piece'
  BY <1>3 DEF Piece
<1>5. queue \in Seq(Payload') /\ wire \in Seq(Piece') /\ db \in Seq(Piece')
  BY <1>3, <1>4, SeqMonotonic DEF ConnTyped
<1>6. ConnTyped'
  BY <1>1, <1>3, <1>5, AppendProperties DEF ConnTyped, Send, receiver
<1>7. Delivered' = Delivered
  BY DEF Delivered, Send
<1>8. \A n \in 1 .. Delivered : sent'[n] = sent[n]
  BY <1>1, Basics
<1>9. InHand'
  BY <1>7, <1>8, SameInHand DEF Send
<1> QED
  BY <1>6, <1>9

LEMMA StartWriteStep ==
  ASSUME ConnTyped, InHand, StartWrite
  PROVE  (ConnTyped /\ InHand)'
<1>1. Head(queue) \in Payload /\ Tail(queue) \in Seq(Payload)
  BY HeadTailProperties DEF ConnTyped, StartWrite
<1>2. ConnTyped'
  BY <1>1 DEF ConnTyped, StartWrite, receiver, Payload, Piece
<1>3. InHand'
  BY SameInHand DEF StartWrite, Delivered
<1> QED
  BY <1>2, <1>3

LEMMA EncodedPieces ==
  ASSUME ConnTyped, NEW n \in Payload
  PROVE  Encoded(n) \in Seq(Piece) /\ Len(Encoded(n)) = Pieces /\ Encoded(n)[1] = <<n, 1>>
<1>1. Pieces \in Nat \ {0}
  BY TcpConnAssumption
<1>2. \A i \in 1 .. Pieces : <<n, i>> \in Piece
  BY <1>1 DEF Piece
<1> QED
  BY <1>1, <1>2 DEF Encoded

LEMMA WriteStep ==
  ASSUME ConnTyped, InHand, Write
  PROVE  (ConnTyped /\ InHand)'
<1>1. wire' \in Seq(Piece)
  BY EncodedPieces, ConcatProperties DEF ConnTyped, Write
<1>2. 0 \in Payload
  BY Basics DEF Payload
<1>3. ConnTyped'
  BY <1>1, <1>2 DEF ConnTyped, Write, receiver, Payload, Piece
<1>4. InHand'
  BY SameInHand DEF Write, Delivered
<1> QED
  BY <1>3, <1>4

(* A Read returns a part of what is on the wire.                           *)
LEMMA Cut ==
  ASSUME ConnTyped, NEW s \in Seq(Piece), NEW from \in 1 .. Len(s) + 1, NEW to \in 0 .. Len(s)
  PROVE  SubSeq(s, from, to) \in Seq(Piece)
<1>1. \A i \in from .. to : s[i] \in Piece
  BY ElementOfSeq
<1> QED
  BY <1>1, SubSeqProperties

LEMMA Parts ==
  ASSUME NEW S, NEW s \in Seq(S), NEW size \in 0 .. Len(s)
  PROVE  /\ SubSeq(s, 1, size) \in Seq(S) /\ Len(SubSeq(s, 1, size)) = size
         /\ \A i \in 1 .. size : SubSeq(s, 1, size)[i] = s[i]
         /\ SubSeq(s, size + 1, Len(s)) \in Seq(S)
         /\ Len(SubSeq(s, size + 1, Len(s))) = Len(s) - size
         /\ \A i \in 1 .. Len(s) - size : SubSeq(s, size + 1, Len(s))[i] = s[size + i]
<1>1. Len(s) \in Nat /\ size \in Nat /\ size <= Len(s)
  OBVIOUS
<1>2. \A i \in 1 .. Len(s) : s[i] \in S
  BY ElementOfSeq
<1>3. /\ SubSeq(s, 1, size) \in Seq(S) /\ Len(SubSeq(s, 1, size)) = size
      /\ \A i \in 1 .. size : SubSeq(s, 1, size)[i] = s[i]
  BY <1>1, <1>2, SubSeqProperties
<1> DEFINE rest == SubSeq(s, size + 1, Len(s))
<1>4. /\ rest \in Seq(S) /\ Len(rest) = IF size + 1 <= Len(s) THEN Len(s) - (size + 1) + 1 ELSE 0
      /\ \A i \in 1 .. Len(s) - (size + 1) + 1 : rest[i] = s[size + 1 + i - 1]
  <2>1. \A i \in size + 1 .. Len(s) : s[i] \in S
    BY <1>1, <1>2
  <2>2. size + 1 \in Int /\ Len(s) \in Int
    BY <1>1
  <2> QED
    BY <2>1, <2>2, SubSeqProperties
<1> HIDE DEF rest
<1>5. Len(rest) = Len(s) - size
  BY <1>1, <1>4
<1>6. ASSUME NEW i \in 1 .. Len(s) - size PROVE rest[i] = s[size + i]
  <2>1. i \in 1 .. Len(s) - (size + 1) + 1 /\ size + 1 + i - 1 = size + i
    BY <1>1
  <2> QED
    BY <1>4, <2>1
<1> QED
  BY <1>3, <1>4, <1>5, <1>6 DEF rest

LEMMA ReadStep ==
  ASSUME ConnTyped, InHand, Read
  PROVE  (ConnTyped /\ InHand)'
<1>1. PICK size \in 1 .. Len(wire) :
        LET bytes == db \o SubSeq(wire, 1, size)
        IN  /\ wire' = SubSeq(wire, size + 1, Len(wire))
            /\ IF Decodable(bytes)
                 THEN /\ db' = SubSeq(bytes, Pieces + 1, Len(bytes))
                      /\ decoded' = decoded + 1
                      /\ reader' = "deliver"
                 ELSE db' = bytes /\ decoded' = decoded /\ reader' = "ended"
  BY DEF Read
<1> DEFINE bytes == db \o SubSeq(wire, 1, size)
<1>2. wire \in Seq(Piece) /\ db \in Seq(Piece) /\ Len(wire) \in Nat
  BY DEF ConnTyped
<1>3. wire' \in Seq(Piece) /\ SubSeq(wire, 1, size) \in Seq(Piece)
  BY <1>1, <1>2, Cut
<1>4. bytes \in Seq(Piece) /\ Len(bytes) \in Nat
  BY <1>2, <1>3, ConcatProperties
<1>5. reader = "read" /\ UNCHANGED <<sender, receiver>>
  BY DEF Read
<1> HIDE DEF bytes
<1>6. CASE Decodable(bytes)
  <2>1. wire' = SubSeq(wire, size + 1, Len(wire)) /\ db' = SubSeq(bytes, Pieces + 1, Len(bytes))
        /\ decoded' = decoded + 1 /\ reader' = "deliver"
    BY <1>1, <1>6 DEF bytes
  <2>2. Pieces \in Nat \ {0} /\ decoded \in Nat /\ Len(sent) \in Nat
    BY Basics
  <2> DEFINE code == Encoded(decoded + 1)
  <2>3. code = [i \in 1 .. Pieces |-> <<decoded + 1, i>>] /\ Len(code) = Pieces /\ code[1] = <<decoded + 1, 1>>
    BY <2>2 DEF Encoded
  <2>4. Pieces <= Len(bytes) /\ SubSeq(code, 1, Pieces) = SubSeq(bytes, 1, Pieces)
    BY <1>6, <2>3 DEF Decodable, IsPrefix
  <2>5. code \in Seq(Nat \X Nat)
    BY <2>2, <2>3
  <2> HIDE DEF code
  <2>6. SubSeq(code, 1, Pieces)[1] = code[1]
    BY <2>2, <2>3, <2>5, SubSeqProperties
  <2>7. SubSeq(bytes, 1, Pieces)[1] = bytes[1]
    BY <1>4, <2>2, <2>4, SubSeqProperties
  <2>8. bytes[1] \in Piece
    BY <1>4, <2>2, <2>4
  <2>9. decoded + 1 \in Payload
    <3>1. <<decoded + 1, 1>> \in Piece
      BY <2>3, <2>4, <2>6, <2>7, <2>8
    <3>2. \A x, y : <<x, y>> \in Piece => x \in Payload
      BY DEF Piece
    <3> QED
      BY <3>1, <3>2
  <2>10. db' \in Seq(Piece)
    BY <1>4, <2>1, <2>2, <2>4, Cut
  <2>11. ConnTyped'
    <3>1. /\ UNCHANGED <<sent, queue, writing, backlog, to_pnf, received>>
          /\ decoded' # 0 /\ decoded' \in Payload
      BY <1>5, <2>1, <2>2, <2>9 DEF sender, receiver
    <3>2. Payload' = Payload /\ Piece' = Piece
      BY <3>1 DEF Payload, Piece
    <3> QED
      BY <1>3, <2>1, <2>10, <3>1, <3>2 DEF ConnTyped
  <2>12. Delivered' = Delivered /\ sent' = sent
    BY <1>5, <2>1, <2>2 DEF Delivered, sender
  <2> QED
    BY <1>5, <2>11, <2>12, SameInHand
<1>7. CASE ~Decodable(bytes)
  <2>1. db' = bytes /\ decoded' = decoded /\ reader' = "ended"
    BY <1>1, <1>7 DEF bytes
  <2>2. ConnTyped'
    BY <1>3, <1>4, <1>5, <2>1 DEF ConnTyped, sender, receiver, Payload, Piece
  <2>3. Delivered' = Delivered /\ sent' = sent
    BY <1>5, <2>1 DEF Delivered, sender
  <2> QED
    BY <1>5, <2>2, <2>3, SameInHand
<1> QED
  BY <1>6, <1>7

LEMMA DeliverStep ==
  ASSUME ConnTyped, InHand, Deliver
  PROVE  (ConnTyped /\ InHand)'
<1>1. decoded \in 1 .. Len(sent) /\ Delivered = decoded - 1 /\ Delivered' = decoded
  BY Basics DEF ConnTyped, Payload, Deliver, Delivered
<1> PICK kind \in Kind : kind = sent[decoded]
  BY <1>1, Basics
<1>2. kind = sent[decoded] /\ decoded \in Nat /\ Len(sent) \in Nat
  BY Basics
<1>3. /\ backlog' = [backlog EXCEPT ![kind] = Append(@, decoded)]
      /\ UNCHANGED <<sender, wire, db, decoded, to_pnf, received>> /\ reader' = "read"
  BY <1>2 DEF Deliver
<1>4. backlog \in [Kind -> Seq(Nat)] /\ to_pnf \in [Kind -> Seq(Nat)]
  BY DEF ConnTyped
<1>5. backlog' \in [Kind -> Seq(Nat)]
  <2>1. Append(backlog[kind], decoded) \in Seq(Nat)
    BY <1>2, <1>4, AppendProperties
  <2> QED
    BY <1>3, <1>4, <2>1
<1>6. ConnTyped'
  BY <1>1, <1>3, <1>5 DEF ConnTyped, sender, Payload, Piece
<1>7. Pending(kind)' = Append(Pending(kind), decoded)
  <2>1. backlog'[kind] = Append(backlog[kind], decoded) /\ to_pnf'[kind] = to_pnf[kind]
    BY <1>2, <1>3, <1>4
  <2>2. backlog[kind] \in Seq(Nat) /\ to_pnf[kind] \in Seq(Nat)
    BY <1>2, <1>4
  <2>3. to_pnf[kind] \o Append(backlog[kind], decoded) = Append(to_pnf[kind] \o backlog[kind], decoded)
    <3>1. \A s, t \in Seq(Nat), x \in Nat : s \o Append(t, x) = Append(s \o t, x)
      BY Added
    <3> QED
      BY <1>2, <2>2, <3>1
  <2> QED
    BY <2>1, <2>3 DEF Pending
<1>8. \A k \in Kind : k # kind => Pending(k)' = Pending(k)
  BY <1>3, <1>4 DEF Pending
<1>9. Pending(kind) \in Seq(Nat) /\ \A n \in Range(Pending(kind)) : n < decoded
  BY <1>1, <1>2, Basics DEF InHand
<1>10. Ascending(Pending(kind)') /\ Range(Pending(kind)') = Range(Pending(kind)) \cup {decoded}
  BY <1>2, <1>7, <1>9, AppendAscending, AppendRange DEF InHand
<1>11. sent' = sent /\ received' = received
  BY <1>3 DEF sender
<1>12. decoded \notin Range(received)
  BY <1>1 DEF InHand
<1>13. 1 .. Delivered' = (1 .. Delivered) \cup {decoded}
  BY <1>1, <1>2
<1>14. ASSUME NEW k \in Kind PROVE
        /\ Ascending(Pending(k)')
        /\ \A n \in Range(Pending(k)') :
             n \in 1 .. Delivered' /\ sent'[n] = k /\ n \notin Range(received')
  <2>1. CASE k = kind
    BY <1>10, <1>2, <1>11, <1>12, <1>13, <2>1 DEF InHand
  <2>2. CASE k # kind
    BY <1>8, <1>11, <1>13, <2>2 DEF InHand
  <2> QED
    BY <2>1, <2>2
<1>15. ASSUME NEW n \in 1 .. Delivered'
      PROVE  n \in Range(received') \cup Range(Pending(sent[n])')
  <2>1. CASE n = decoded
    BY <1>2, <1>10, <1>11, <2>1
  <2>2. CASE n \in 1 .. Delivered
    <3>1. n \in Range(received) \cup Range(Pending(sent[n])) /\ sent[n] \in Kind
      BY <2>2, Basics DEF InHand
    <3> QED
      BY <1>8, <1>10, <1>11, <3>1
  <2> QED
    BY <1>13, <2>1, <2>2
<1>16. InHand'
  <2>1. Range(received') \subseteq 1 .. Delivered'
    BY <1>11, <1>13 DEF InHand
  <2> QED
    BY <1>11, <1>14, <1>15, <2>1 DEF InHand, Pending
<1> QED
  BY <1>6, <1>16

LEMMA ForwardStep ==
  ASSUME ConnTyped, InHand, NEW kind \in Kind, Forward(kind)
  PROVE  (ConnTyped /\ InHand)'
<1>1. /\ backlog \in [Kind -> Seq(Nat)] /\ to_pnf \in [Kind -> Seq(Nat)]
      /\ backlog[kind] \in Seq(Nat) /\ to_pnf[kind] \in Seq(Nat) /\ backlog[kind] # <<>>
  BY DEF ConnTyped, Forward
<1>2. /\ to_pnf' = [to_pnf EXCEPT ![kind] = Append(@, Head(backlog[kind]))]
      /\ backlog' = [backlog EXCEPT ![kind] = Tail(@)]
      /\ UNCHANGED <<sender, wire, reader, db, decoded, received>>
  BY DEF Forward
<1>3. Append(to_pnf[kind], Head(backlog[kind])) \in Seq(Nat) /\ Tail(backlog[kind]) \in Seq(Nat)
  BY <1>1, HeadTailProperties, AppendProperties
<1>4. ConnTyped'
  BY <1>1, <1>2, <1>3 DEF ConnTyped, sender, Payload, Piece
<1>5. ASSUME NEW k \in Kind PROVE Pending(k)' = Pending(k)
  <2>1. CASE k = kind
    <3>1. to_pnf'[k] = Append(to_pnf[k], Head(backlog[k])) /\ backlog'[k] = Tail(backlog[k])
      BY <1>1, <1>2, <2>1
    <3> QED
      BY <1>1, <2>1, <3>1, Moved DEF Pending
  <2>2. CASE k # kind
    BY <1>1, <1>2, <2>2 DEF Pending
  <2> QED
    BY <2>1, <2>2
<1>6. Delivered' = Delivered /\ sent' = sent /\ received' = received
  BY <1>2 DEF Delivered, sender
<1>7. ASSUME NEW k \in Kind PROVE
        /\ Ascending(Pending(k)')
        /\ \A n \in Range(Pending(k)') :
             n \in 1 .. Delivered' /\ sent'[n] = k /\ n \notin Range(received')
  BY <1>5, <1>6 DEF InHand
<1>8. ASSUME NEW n \in 1 .. Delivered'
      PROVE  n \in Range(received') \cup Range(Pending(sent[n])')
  <2>1. sent[n] \in Kind /\ n \in Range(received) \cup Range(Pending(sent[n]))
    BY <1>6, Basics DEF InHand
  <2> QED
    BY <1>5, <1>6, <2>1
<1>9. InHand'
  <2>1. Range(received') \subseteq 1 .. Delivered'
    BY <1>6 DEF InHand
  <2> QED
    BY <1>6, <1>7, <1>8, <2>1 DEF InHand, Pending
<1> QED
  BY <1>4, <1>9

(* What is received is the first payload that waits; all of its kind       *)
(* before it have been received.                                           *)
LEMMA ReceiveStep ==
  ASSUME ConnTyped, InHand, NEW kind \in Kind, Receive(kind)
  PROVE  /\ (ConnTyped /\ InHand)'
         /\ \E n \in DOMAIN sent : ConnSpec!Receive("to_client", n)
<1> DEFINE n == Head(to_pnf[kind])
<1>1. /\ backlog \in [Kind -> Seq(Nat)] /\ to_pnf \in [Kind -> Seq(Nat)]
      /\ backlog[kind] \in Seq(Nat) /\ to_pnf[kind] \in Seq(Nat) /\ to_pnf[kind] # <<>>
  BY DEF ConnTyped, Receive
<1>2. /\ to_pnf' = [to_pnf EXCEPT ![kind] = Tail(@)]
      /\ received' = Append(received, n)
      /\ UNCHANGED <<sender, wire, reader, db, decoded, backlog>>
  BY DEF Receive
<1>3. n \in Nat /\ Tail(to_pnf[kind]) \in Seq(Nat) /\ received \in Seq(Nat)
  BY <1>1, HeadTailProperties DEF ConnTyped
<1>4. /\ Pending(kind) \in Seq(Nat) /\ Pending(kind) # <<>>
      /\ Head(Pending(kind)) = n
      /\ Tail(Pending(kind)) = Tail(to_pnf[kind]) \o backlog[kind]
  BY <1>1, Taken DEF Pending
<1> HIDE DEF n
<1>5. received' \in Seq(Nat) /\ Range(received') = Range(received) \cup {n}
  BY <1>2, <1>3, AppendRange
<1>6. ConnTyped'
  BY <1>1, <1>2, <1>3, <1>5 DEF ConnTyped, sender, Payload, Piece
<1>7. Pending(kind)' = Tail(Pending(kind))
  BY <1>1, <1>2, <1>4 DEF Pending
<1>8. \A k \in Kind : k # kind => Pending(k)' = Pending(k)
  BY <1>1, <1>2 DEF Pending
<1>9. /\ Ascending(Tail(Pending(kind))) /\ Tail(Pending(kind)) \in Seq(Nat)
      /\ Range(Pending(kind)) = {n} \cup Range(Pending(kind)')
      /\ \A m \in Range(Pending(kind)') : n < m
  BY <1>4, <1>7, TailAscending DEF InHand
<1>10. n \in 1 .. Delivered /\ sent[n] = kind /\ n \notin Range(received)
  BY <1>9 DEF InHand
<1>11. Delivered' = Delivered /\ sent' = sent
  BY <1>2 DEF Delivered, sender
<1>12. ASSUME NEW k \in Kind PROVE
        /\ Ascending(Pending(k)')
        /\ \A m \in Range(Pending(k)') :
             m \in 1 .. Delivered' /\ sent'[m] = k /\ m \notin Range(received')
  <2>1. CASE k = kind
    <3>1. ASSUME NEW m \in Range(Pending(kind)') PROVE m # n /\ m \in Range(Pending(kind))
      BY <1>3, <1>9
    <3> QED
      BY <1>5, <1>7, <1>9, <1>11, <2>1, <3>1 DEF InHand
  <2>2. CASE k # kind
    BY <1>5, <1>8, <1>10, <1>11, <2>2 DEF InHand
  <2> QED
    BY <2>1, <2>2
<1>13. ASSUME NEW m \in 1 .. Delivered'
      PROVE  m \in Range(received') \cup Range(Pending(sent[m])')
  <2>1. sent[m] \in Kind /\ m \in Range(received) \cup Range(Pending(sent[m]))
    BY <1>11, Basics DEF InHand
  <2> QED
    BY <1>5, <1>8, <1>9, <1>11, <2>1
<1>14. InHand'
  <2>1. Range(received') \subseteq 1 .. Delivered'
    BY <1>5, <1>10, <1>11 DEF InHand
  <2> QED
    BY <1>11, <1>12, <1>13, <2>1 DEF InHand, Pending
<1>15. ASSUME NEW m \in 1 .. n - 1, sent[m] = sent[n] PROVE m \in Range(received)
  <2>1. m \in 1 .. Delivered /\ m < n
    BY <1>10, Basics
  <2>2. m \in Range(received) \cup Range(Pending(kind))
    BY <1>10, <1>15, <2>1 DEF InHand
  <2>3. m # n /\ ~(n < m)
    BY <1>3, <2>1
  <2> QED
    BY <1>9, <2>2, <2>3
<1>16. ConnSpec!Receive("to_client", n)
  <2> DEFINE one(x) == [d \in {"to_client"} |-> x]
  <2>1. /\ one(received') = [one(received) EXCEPT !["to_client"] = Append(@, n)]
        /\ one(sent') = one(sent)
    BY <1>2, <1>11
  <2>2. one(received)["to_client"] = received /\ one(sent)["to_client"] = sent
    OBVIOUS
  <2> HIDE DEF one
  <2> QED
    BY <1>10, <1>15, <2>1, <2>2 DEF ConnSpec!Receive, ConnSpec!Range, Range, one
<1>17. n \in DOMAIN sent
  BY <1>10, Basics
<1> QED
  BY <1>6, <1>14, <1>16, <1>17

-----------------------------------------------------------------------------
(* Every step.                                                             *)

LEMMA InitInv == Init => IInv
<1> SUFFICES ASSUME Init PROVE IInv
  OBVIOUS
<1> USE DEF Init, ConnInit
<1>1. ConnTyped
  <2>1. sent = <<>> /\ Payload = {0}
    BY DEF Payload
  <2> QED
    BY <2>1 DEF ConnTyped
<1>2. InHand
  <2>1. \A k \in Kind : Pending(k) = <<>>
    BY DEF Pending
  <2>2. Delivered = 0 /\ Range(<<>>) = {} /\ DOMAIN <<>> = {}
    BY DEF Delivered, Range
  <2> QED
    BY <2>1, <2>2 DEF InHand, Ascending
<1>3. Handshake /\ JoinAgrees
  BY DEF Handshake, JoinAgrees
<1>4. HostInv /\ NoCrashWhileHosting
  <2>1. Running = 0
    <3>1. pinger = "none" /\ listener = "none"
      OBVIOUS
    <3> QED
      BY <3>1, SMT DEF Running
  <2>2. NoCrashWhileHosting
    BY DEF NoCrashWhileHosting, HostUp
  <2>3. killable \in BOOLEAN /\ hosting \in BOOLEAN /\ killable = FALSE
    OBVIOUS
  <2>4. /\ pinger = "none" /\ listener = "none" /\ request = "none" /\ ping = "none"
        /\ served = "none" /\ kills = 0 /\ killed = {}
    OBVIOUS
  <2> HIDE DEF Init, ConnInit
  <2> QED
    BY <2>1, <2>2, <2>3, <2>4 DEF HostInv
<1> QED
  BY <1>1, <1>2, <1>3, <1>4 DEF IInv

LEMMA ConnInv == IInv /\ [Next]_vars => (ConnTyped /\ InHand)'
<1> SUFFICES ASSUME IInv, [Next]_vars PROVE (ConnTyped /\ InHand)'
  OBVIOUS
<1>0. ConnTyped /\ InHand /\ Handshake /\ JoinAgrees
  BY DEF IInv
<1>1. CASE UNCHANGED connVars
  <2>1. UNCHANGED <<sender, db, decoded, receiver>> /\ wire' \in Seq(Piece) /\ reader' = reader
    BY <1>0, <1>1 DEF connVars, ConnTyped
  <2> QED
    BY <1>0, <2>1, WireStep
<1>2. ASSUME NEW ok \in BOOLEAN, AskJoin(ok) PROVE (ConnTyped /\ InHand)'
  <2>1. Reply(ok) \in Seq(Piece) /\ Len(Reply(ok)) = 2
    BY <1>0, Basics DEF Reply, Piece, Payload
  <2>2. wire' \in Seq(Piece) /\ UNCHANGED <<sender, reader, db, decoded, receiver>>
    BY <1>0, <1>2, <2>1, Cut DEF AskJoin
  <2> QED
    BY <1>0, <2>2, WireStep
<1>3. CASE ReadReply
  <2>1. reader = "none"
    BY <1>0, <1>3 DEF Handshake, ReadReply
  <2>2. wire \in Seq(Piece) /\ Len(wire) \in Nat
    BY <1>0 DEF ConnTyped
  <2>3. PICK size \in 1 .. Len(wire) : wire' = SubSeq(wire, size + 1, Len(wire))
    BY <1>3 DEF ReadReply
  <2>4. wire' \in Seq(Piece)
    BY <1>0, <2>2, <2>3, Cut
  <2>5. UNCHANGED <<sender, db, decoded, receiver>> /\ reader' \in {reader, "read"}
    BY <1>3 DEF ReadReply
  <2> QED
    BY <1>0, <2>1, <2>4, <2>5, WireStep
<1>4. CASE ConnStep
  BY <1>0, <1>4, SendStep, StartWriteStep, WriteStep, ReadStep, DeliverStep, ForwardStep, ReceiveStep
  DEF ConnStep
<1>5. CASE HostStep
  BY <1>1, <1>2, <1>5 DEF HostStep, KillPinger, KillListener, CloseListener, HostOff, HostOn,
    Abandoned, PingAnswered, Accept, HostPanics, ReadFails, MakeConn, TakeNewConn
<1>6. CASE ClientStep
  BY <1>1, <1>3, <1>6 DEF ClientStep, PingReturns, JoinTimesOut
<1> QED
  BY <1>1, <1>4, <1>5, <1>6 DEF Next, vars, Host, PingerFails, Ping, PingLost, PingArrives, Join, ClientEnds

(* What the host has written of its reply.                                 *)
LEMMA ReplyWritten ==
  ASSUME NEW ok \in BOOLEAN, NEW size \in 0 .. Len(Reply(ok))
  PROVE  LET written == SubSeq(Reply(ok), 1, size)
         IN  /\ Len(Reply(ok)) = 2 /\ size \in {0, 1, 2} /\ Len(written) = size
             /\ size >= 1 => written[1] = <<0, IF ok THEN 1 ELSE 2>>
             /\ size = 2 => written[2] = <<0, 0>>
<1> DEFINE written == SubSeq(Reply(ok), 1, size)
<1>1. Len(Reply(ok)) = 2 /\ Reply(ok) \in Seq(Nat \X Nat)
  BY DEF Reply
<1>2. size \in {0, 1, 2}
  BY <1>1
<1>3. Len(written) = size /\ \A i \in 1 .. size : written[i] = Reply(ok)[i]
  BY <1>1, Parts
<1>4. Reply(ok)[1] = <<0, IF ok THEN 1 ELSE 2>> /\ Reply(ok)[2] = <<0, 0>>
  BY DEF Reply
<1> HIDE DEF written
<1>5. size >= 1 => written[1] = <<0, IF ok THEN 1 ELSE 2>>
  BY <1>2, <1>3, <1>4
<1>6. size = 2 => written[2] = <<0, 0>>
  BY <1>3, <1>4
<1> QED
  BY <1>1, <1>2, <1>3, <1>5, <1>6 DEF written

(* What a Read of the reply makes of it.                                   *)
LEMMA ReplyRead ==
  ASSUME ConnTyped, NEW size \in 1 .. Len(wire)
  PROVE  LET rest == SubSeq(wire, size + 1, Len(wire))
             refused == IsPrefix(Reply(FALSE), SubSeq(wire, 1, size))
         IN  /\ refused <=> size >= 2 /\ wire[1] = <<0, 2>> /\ wire[2] = <<0, 0>>
             /\ size = Len(wire) => rest = <<>>
             /\ size < Len(wire) => rest # <<>> /\ rest[1] = wire[size + 1]
<1> DEFINE read == SubSeq(wire, 1, size)
           rest == SubSeq(wire, size + 1, Len(wire))
<1>1. wire \in Seq(Piece) /\ Len(wire) \in Nat
  BY DEF ConnTyped
<1>2. /\ read \in Seq(Piece) /\ Len(read) = size
      /\ \A i \in 1 .. size : read[i] = wire[i]
      /\ rest \in Seq(Piece) /\ Len(rest) = Len(wire) - size
      /\ \A i \in 1 .. Len(wire) - size : rest[i] = wire[size + i]
  <2>1. size \in 0 .. Len(wire)
    BY <1>1
  <2> QED
    BY <1>1, <2>1, Parts
<1> HIDE DEF read, rest
<1>3. size = Len(wire) => rest = <<>>
  BY <1>1, <1>2
<1>4. size < Len(wire) => rest # <<>> /\ rest[1] = wire[size + 1]
  <2> SUFFICES ASSUME size < Len(wire) PROVE rest # <<>> /\ rest[1] = wire[size + 1]
    OBVIOUS
  <2>1. 1 \in 1 .. Len(wire) - size
    BY <1>1
  <2>2. Len(rest) > 0
    BY <1>1, <1>2
  <2> QED
    BY <1>2, <2>1, <2>2
<1> DEFINE fail == Reply(FALSE)
<1>5. Len(fail) = 2 /\ fail[1] = <<0, 2>> /\ fail[2] = <<0, 0>> /\ fail \in Seq(Nat \X Nat)
  BY DEF Reply
<1> HIDE DEF fail
<1>6. SubSeq(fail, 1, 2) \in Seq(Nat \X Nat) /\ Len(SubSeq(fail, 1, 2)) = 2
      /\ SubSeq(fail, 1, 2)[1] = fail[1] /\ SubSeq(fail, 1, 2)[2] = fail[2]
  BY <1>5, SubSeqProperties
<1>7. IsPrefix(fail, read) <=> size >= 2 /\ wire[1] = <<0, 2>> /\ wire[2] = <<0, 0>>
  <2>1. CASE size < 2
    BY <1>1, <1>2, <1>5, <2>1 DEF IsPrefix
  <2>2. CASE size >= 2
    <3>1. \A i \in 1 .. 2 : read[i] \in Piece
      BY <1>2, <2>2, ElementOfSeq
    <3>2. SubSeq(read, 1, 2) \in Seq(Piece) /\ Len(SubSeq(read, 1, 2)) = 2
          /\ SubSeq(read, 1, 2)[1] = wire[1] /\ SubSeq(read, 1, 2)[2] = wire[2]
      BY <1>2, <2>2, <3>1, SubSeqProperties
    <3>3. SubSeq(fail, 1, 2) = SubSeq(read, 1, 2) <=> fail[1] = wire[1] /\ fail[2] = wire[2]
      BY <1>6, <3>2
    <3> QED
      BY <1>2, <1>5, <2>2, <3>3 DEF IsPrefix
  <2> QED
    BY <1>1, <2>1, <2>2
<1> QED
  BY <1>3, <1>4, <1>7 DEF fail, read, rest

(* What a Join has come to, when the step is not one of a Join.            *)
LEMMA SameHandshake ==
  ASSUME Handshake, JoinAgrees, UNCHANGED <<served, answer, cut, connVars>>,
         call' \in {"none", "ping"} \/ call' = call
  PROVE  (Handshake /\ JoinAgrees)'
BY DEF Handshake, JoinAgrees, ReplyUnread, OutOfReply, connVars, sender

(* The host goes on with a join, without writing.                          *)
LEMMA HostGoesOn ==
  ASSUME Handshake, JoinAgrees, UNCHANGED <<callVars, connVars>>,
         \/ served = "dialled" /\ served' \in {"asking", "failed"}
         \/ served = "asking" /\ served' = "failed"
         \/ served = "replied" /\ served' = "offered"
         \/ served = "offered" /\ served' = "connected"
  PROVE  (Handshake /\ JoinAgrees)'
BY DEF Handshake, JoinAgrees, ReplyUnread, OutOfReply, callVars, connVars, sender

LEMMA ReplyStep ==
  ASSUME Handshake, JoinAgrees, NEW ok \in BOOLEAN, AskJoin(ok)
  PROVE  (Handshake /\ JoinAgrees)'
<1>1. PICK size \in 0 .. Len(Reply(ok)) :
        /\ wire' = SubSeq(Reply(ok), 1, size)
        /\ served' = IF ~ok THEN "refused" ELSE IF size = Len(Reply(ok)) THEN "replied" ELSE "failed"
  BY DEF AskJoin
<1>2. /\ served = "asking" /\ answer \in {"none", "timeout"}
      /\ UNCHANGED <<callVars, sender, reader, db, decoded>>
  BY DEF AskJoin, Handshake
<1>3. /\ Len(Reply(ok)) = 2 /\ size \in {0, 1, 2} /\ Len(wire') = size
      /\ size >= 1 => wire'[1] = <<0, IF ok THEN 1 ELSE 2>>
      /\ size = 2 => wire'[2] = <<0, 0>>
  BY <1>1, ReplyWritten
<1>6. ReplyUnread'
  BY <1>1, <1>3 DEF ReplyUnread
<1>7. served' \in {"refused", "replied", "failed"}
  BY <1>1
<1> QED
  BY <1>2, <1>6, <1>7 DEF Handshake, JoinAgrees, callVars, sender

LEMMA ReadReplyStep ==
  ASSUME ConnTyped, Handshake, JoinAgrees, ReadReply
  PROVE  (Handshake /\ JoinAgrees)'
<1> DEFINE rest(size) == SubSeq(wire, size + 1, Len(wire))
           Refused(size) == IsPrefix(Reply(FALSE), SubSeq(wire, 1, size))
<1>1. PICK size \in 1 .. Len(wire) :
        /\ wire' = rest(size)
        /\ IF Refused(size)
             THEN answer' = "refused" /\ UNCHANGED <<reader, cut>>
             ELSE /\ answer' = "conn" /\ reader' = "read"
                  /\ cut' = (size < Len(Reply(FALSE)))
  BY DEF ReadReply
<1>2. Len(wire) \in Nat /\ Len(Reply(FALSE)) = 2
  BY DEF ConnTyped, Reply
<1>3. /\ Refused(size) <=> size >= 2 /\ wire[1] = <<0, 2>> /\ wire[2] = <<0, 0>>
      /\ size = Len(wire) => rest(size) = <<>>
      /\ size < Len(wire) => rest(size) # <<>> /\ rest(size)[1] = wire[size + 1]
  BY ReplyRead
<1> HIDE DEF rest, Refused
<1>4. /\ call = "join" /\ call' = "none" /\ answer = "none" /\ ReplyUnread
      /\ UNCHANGED <<served, sender, db, decoded>>
      /\ reader = "none" /\ db = <<>> /\ decoded = 0 /\ cut \in BOOLEAN
  BY DEF ReadReply, Handshake
<1>5. served \in {"refused", "failed", "replied", "offered", "connected"}
  BY <1>2 DEF Handshake, ReadReply
<1>6. size \in 1 .. Len(wire) /\ size \in Nat
  BY <1>2
<1>7. CASE Refused(size)
  <2>1. wire[1] = <<0, 2>> /\ size >= 2 /\ Len(wire) >= 2
    BY <1>2, <1>3, <1>6, <1>7
  <2>2. served = "refused"
    BY <1>4, <1>5, <2>1 DEF ReplyUnread
  <2>3. answer' = "refused" /\ UNCHANGED <<reader, cut>>
    BY <1>1, <1>7
  <2> QED
    BY <1>4, <2>2, <2>3 DEF Handshake, JoinAgrees, sender
<1>8. CASE ~Refused(size) /\ size = 1
  <2>1. answer' = "conn" /\ reader' = "read" /\ cut' = (1 < 2)
    BY <1>1, <1>2, <1>8
  <2>2. cut' = TRUE
    <3>1. (1 < 2) = TRUE
      OBVIOUS
    <3> QED
      BY <2>1, <3>1, Zenon
  <2>3. Len(wire) >= 2 => wire[2] = <<0, 0>>
    <3>1. served = "refused" => Len(wire) <= 2 /\ (Len(wire) = 2 => wire[2] = <<0, 0>>)
      BY <1>4 DEF ReplyUnread
    <3>2. served = "failed" => Len(wire) <= 1
      BY <1>4 DEF ReplyUnread
    <3>3. served \in {"replied", "offered", "connected"} => wire[2] = <<0, 0>>
      BY <1>4 DEF ReplyUnread
    <3>4. Len(wire) \in Nat
      BY <1>2
    <3>5. \A n \in Nat : n >= 2 => ~(n <= 1) /\ (n <= 2 => n = 2)
      OBVIOUS
    <3> QED
      BY <1>5, <3>1, <3>2, <3>3, <3>4, <3>5, Zenon
  <2>4. wire' = rest(1)
    <3>1. wire' = rest(size)
      BY <1>1
    <3> QED
      BY <1>8, <3>1
  <2>5. Len(wire) < 2 => wire' = <<>>
    <3> SUFFICES ASSUME Len(wire) < 2 PROVE wire' = <<>>
      OBVIOUS
    <3>1. \A n \in Nat : n < 2 => \A k \in 1 .. n : k = n
      OBVIOUS
    <3>2. size = Len(wire)
      BY <1>2, <1>6, <3>1, Zenon
    <3>3. rest(size) = <<>>
      BY <1>3, <3>2
    <3> QED
      BY <1>8, <2>4, <3>3
  <2>6. Len(wire) >= 2 => wire' # <<>> /\ wire'[1] = <<0, 0>>
    <3> SUFFICES ASSUME Len(wire) >= 2 PROVE wire' # <<>> /\ wire'[1] = <<0, 0>>
      OBVIOUS
    <3>1. \A n \in Nat : n >= 2 => 1 < n /\ 1 + 1 = 2
      OBVIOUS
    <3>2. size < Len(wire) /\ size + 1 = 2
      BY <1>2, <1>8, <3>1, Zenon
    <3>3. rest(size) # <<>> /\ rest(size)[1] = wire[2]
      BY <1>3, <3>2
    <3> QED
      BY <1>8, <2>3, <2>4, <3>3
  <2>7. wire' # <<>> => wire'[1] = <<0, 0>>
    <3>1. \A n \in Nat : n < 2 \/ n >= 2
      OBVIOUS
    <3> QED
      BY <1>2, <2>5, <2>6, <3>1, Zenon
  <2>8. served \in {"replied", "offered", "connected"} => wire' # <<>>
    BY <1>4, <2>6 DEF ReplyUnread
  <2> QED
    BY <1>4, <1>5, <2>1, <2>2, <2>7, <2>8 DEF Handshake, JoinAgrees, OutOfReply, sender
<1>9. CASE ~Refused(size) /\ size # 1
  <2>1. size >= 2 /\ Len(wire) >= 2
    BY <1>2, <1>6, <1>9
  <2>2. answer' = "conn" /\ reader' = "read" /\ cut' = (size < 2)
    BY <1>1, <1>2, <1>9
  <2>3. cut' = FALSE
    <3>1. (size < 2) = FALSE
      BY <1>6, <2>1
    <3> QED
      BY <2>2, <3>1, Zenon
  <2>4. served \in {"replied", "offered", "connected"}
    <3>1. served # "refused"
      <4> SUFFICES ASSUME served = "refused" PROVE FALSE
        OBVIOUS
      <4>1. /\ Len(wire) <= 2
            /\ Len(wire) >= 1 => wire[1] = <<0, 2>>
            /\ Len(wire) = 2 => wire[2] = <<0, 0>>
        BY <1>4 DEF ReplyUnread
      <4>2. Len(wire) = 2
        <5>1. \A n \in Nat : n >= 2 /\ n <= 2 => n = 2
          OBVIOUS
        <5> QED
          BY <1>2, <2>1, <4>1, <5>1, Zenon
      <4>3. wire[1] = <<0, 2>> /\ wire[2] = <<0, 0>>
        BY <4>1, <4>2
      <4> QED
        BY <1>3, <1>9, <2>1, <4>3
    <3>2. served # "failed"
      BY <1>4, <2>1 DEF ReplyUnread
    <3> QED
      BY <1>5, <3>1, <3>2
  <2> QED
    BY <1>4, <2>2, <2>3, <2>4 DEF Handshake, JoinAgrees, sender
<1> QED
  BY <1>7, <1>8, <1>9

(* With the rest of a reply in front of it nothing can be decoded.         *)
LEMMA CutStaysDead ==
  ASSUME ConnTyped, OutOfReply, Read
  PROVE  OutOfReply'
<1>1. PICK size \in 1 .. Len(wire) :
        LET bytes == db \o SubSeq(wire, 1, size)
        IN  IF Decodable(bytes)
              THEN /\ db' = SubSeq(bytes, Pieces + 1, Len(bytes))
                   /\ decoded' = decoded + 1
                   /\ reader' = "deliver"
              ELSE db' = bytes /\ decoded' = decoded /\ reader' = "ended"
  BY DEF Read
<1> DEFINE read == SubSeq(wire, 1, size)
           bytes == db \o read
           code == Encoded(decoded + 1)
<1>2. wire \in Seq(Piece) /\ Len(wire) \in Nat /\ Pieces \in Nat \ {0}
  BY Basics DEF ConnTyped
<1>3. reader = "read" /\ db = <<>> /\ wire # <<>> /\ wire[1] = <<0, 0>> /\ decoded = 0
  BY <1>2 DEF Read, OutOfReply
<1>4. /\ read \in Seq(Piece) /\ Len(read) = size /\ read[1] = wire[1]
      /\ \A i \in 1 .. size : read[i] \in Piece
  <2>1. size \in 0 .. Len(wire) /\ 1 \in 1 .. size
    BY <1>2
  <2> QED
    BY <1>2, <2>1, Parts, ElementOfSeq
<1>5. bytes = read
  <2> HIDE DEF read
  <2> QED
    BY <1>3, <1>4, ConcatEmptySeq
<1>6. Len(code) = Pieces /\ code[1] = <<1, 1>> /\ code \in Seq(Nat \X Nat)
  <2>1. code = [i \in 1 .. Pieces |-> <<1, i>>]
    BY <1>3 DEF Encoded
  <2> HIDE DEF code
  <2>2. code \in [1 .. Pieces -> Nat \X Nat]
    BY <1>2, <2>1
  <2>3. code \in Seq(Nat \X Nat) /\ Len(code) = Pieces
    BY <1>2, <2>2
  <2>4. 1 \in 1 .. Pieces
    BY <1>2
  <2> QED
    BY <2>1, <2>3, <2>4
<1> HIDE DEF read, bytes, code
<1>7. ~IsPrefix(code, bytes)
  <2> SUFFICES ASSUME IsPrefix(code, bytes) PROVE FALSE
    OBVIOUS
  <2>1. Pieces <= Len(read) /\ SubSeq(code, 1, Pieces) = SubSeq(read, 1, Pieces)
    BY <1>5, <1>6 DEF IsPrefix
  <2>2. 1 \in 1 .. Pieces /\ Pieces \in 0 .. Len(code) /\ Pieces \in 0 .. Len(read)
    BY <1>2, <1>4, <1>6, <2>1
  <2>3. SubSeq(code, 1, Pieces)[1] = code[1]
    BY <1>6, <2>2, Parts
  <2>4. SubSeq(read, 1, Pieces)[1] = read[1]
    BY <1>4, <2>2, Parts
  <2>5. <<1, 1>> = <<0, 0>>
    BY <1>3, <1>4, <1>6, <2>1, <2>3, <2>4
  <2> QED
    BY <2>5
<1>8. ~Decodable(db \o SubSeq(wire, 1, size))
  BY <1>7 DEF Decodable, code, bytes, read
<1>9. decoded' = decoded /\ reader' = "ended"
  BY <1>1, <1>8
<1> QED
  BY <1>3, <1>9 DEF OutOfReply

LEMMA JoinInv == IInv /\ [Next]_vars => (Handshake /\ JoinAgrees)'
<1> SUFFICES ASSUME IInv, [Next]_vars PROVE (Handshake /\ JoinAgrees)'
  OBVIOUS
<1>0. ConnTyped /\ Handshake /\ JoinAgrees
  BY DEF IInv
<1> DEFINE Goal == (Handshake /\ JoinAgrees)'
<1>1. CASE UNCHANGED <<served, answer, cut, call, connVars>>
  BY <1>0, <1>1, SameHandshake
<1>2. CASE Ping \/ PingReturns
  BY <1>0, <1>2, SameHandshake DEF Ping, PingReturns
<1>3. CASE Join
  BY <1>0, <1>3 DEF Join, Handshake, JoinAgrees, ReplyUnread, OutOfReply, connVars, sender
<1>4. CASE Accept \/ ReadFails \/ MakeConn \/ TakeNewConn
  BY <1>0, <1>4, HostGoesOn DEF Accept, ReadFails, MakeConn, TakeNewConn
<1>5. CASE CloseListener
  BY <1>0, <1>5, HostGoesOn, SameHandshake DEF CloseListener, callVars
<1>6. ASSUME NEW ok \in BOOLEAN, AskJoin(ok) PROVE Goal
  BY <1>0, <1>6, ReplyStep
<1>7. CASE ReadReply
  BY <1>0, <1>7, ReadReplyStep
<1>8. CASE JoinTimesOut
  BY <1>0, <1>8 DEF JoinTimesOut, Handshake, JoinAgrees, connVars, sender
<1>9. CASE ConnStep
  <2>1. UNCHANGED <<served, answer, cut, call>>
    BY <1>9 DEF ConnStep, callVars
  <2>2. ASSUME NEW k \in Kind, served = "connected", Send(k) PROVE Goal
    BY <1>0, <2>1, <2>2 DEF Send, Handshake, JoinAgrees, ReplyUnread, OutOfReply
  <2>3. CASE StartWrite
    <3>1. served = "connected"
      BY <1>0, <2>3 DEF StartWrite, Handshake
    <3> QED
      BY <1>0, <2>1, <2>3, <3>1 DEF StartWrite, Handshake, JoinAgrees, ReplyUnread, OutOfReply
  <2>4. CASE Write
    <3>1. served = "connected"
      BY <1>0, <2>4 DEF Write, Handshake
    <3>2. writing \in Payload /\ Encoded(writing) \in Seq(Piece) /\ wire \in Seq(Piece)
      BY <1>0, EncodedPieces DEF ConnTyped
    <3>3. /\ Len(wire') = Len(wire) + Len(Encoded(writing))
          /\ \A i \in 1 .. Len(wire) : wire'[i] = wire[i]
          /\ Len(wire) \in Nat /\ Len(Encoded(writing)) \in Nat
      BY <2>4, <3>2, ConcatProperties DEF Write
    <3>4. ReplyUnread => ReplyUnread'
      BY <2>1, <3>1, <3>3 DEF ReplyUnread
    <3>5. wire # <<>> => wire' # <<>> /\ wire'[1] = wire[1]
      BY <3>2, <3>3
    <3>6. UNCHANGED <<sent, queue, reader, db, decoded, receiver>>
      BY <2>4 DEF Write
    <3>7. OutOfReply => OutOfReply'
      BY <2>1, <3>1, <3>5, <3>6 DEF OutOfReply
    <3> QED
      BY <1>0, <2>1, <3>1, <3>4, <3>6, <3>7 DEF Handshake, JoinAgrees
  <2>5. CASE Read
    <3>1. /\ answer = "conn" /\ call # "join" /\ UNCHANGED sender
          /\ served \notin {"none", "dialled", "asking"}
      BY <1>0, <2>5 DEF Read, Handshake
    <3>2. cut => OutOfReply'
      BY <1>0, <2>5, <3>1, CutStaysDead DEF Handshake
    <3> QED
      BY <1>0, <2>1, <3>1, <3>2 DEF Handshake, JoinAgrees, OutOfReply, sender
  <2>6. CASE Deliver
    <3>1. /\ answer = "conn" /\ ~cut /\ call # "join"
          /\ UNCHANGED <<sender, wire, db, decoded>> /\ reader' = "read"
      BY <1>0, <2>6 DEF Deliver, Handshake, OutOfReply
    <3> QED
      BY <1>0, <2>1, <3>1 DEF Handshake, JoinAgrees, sender
  <2>7. ASSUME NEW k \in Kind, Forward(k) \/ Receive(k) PROVE Goal
    BY <1>0, <2>1, <2>7 DEF Forward, Receive, Handshake, JoinAgrees, ReplyUnread, OutOfReply, sender
  <2> QED
    BY <1>9, <2>2, <2>3, <2>4, <2>5, <2>6, <2>7 DEF ConnStep
<1> HIDE DEF Goal
<1>10. CASE HostStep
  BY <1>1, <1>4, <1>5, <1>6, <1>10 DEF HostStep, KillPinger, KillListener, HostOff, HostOn,
    Abandoned, PingAnswered, HostPanics, callVars, Goal
<1>11. CASE ClientStep
  BY <1>2, <1>7, <1>8, <1>11 DEF ClientStep, Goal
<1> QED
  BY <1>1, <1>2, <1>3, <1>9, <1>10, <1>11
  DEF Next, vars, Host, PingerFails, PingLost, PingArrives, ClientEnds, callVars, Goal

LEMMA HostingInv == IInv /\ [Next]_vars => (HostInv /\ NoCrashWhileHosting)'
<1> SUFFICES ASSUME IInv, [Next]_vars PROVE (HostInv /\ NoCrashWhileHosting)'
  OBVIOUS
<1>0. Handshake /\ HostInv /\ NoCrashWhileHosting
  BY DEF IInv
<1> USE DEF HostInv, NoCrashWhileHosting, Running, HostUp, ClientUp, ClientGone
<1>1. CASE UNCHANGED <<hostVars, ping, served, answer, down>>
  BY <1>0, <1>1 DEF hostVars
<1>2. ASSUME NEW what \in {"on", "off"}, Host(what) PROVE (HostInv /\ NoCrashWhileHosting)'
  BY <1>0, <1>2 DEF Host, callVars
<1>3. CASE KillPinger
  BY <1>0, <1>3 DEF KillPinger, callVars
<1>4. CASE KillListener
  BY <1>0, <1>4 DEF KillListener, callVars
<1>5. CASE HostOff
  <2>1. pinger = "none" /\ listener # "open"
    BY <1>0, <1>5 DEF HostOff
  <2> QED
    BY <1>0, <1>5, <2>1 DEF HostOff, callVars
<1>6. CASE HostOn
  <2>1. pinger = "none" /\ listener # "open" /\ kills = 0
    BY <1>0, <1>6 DEF HostOn
  <2>2. /\ HostUp /\ hosting' = TRUE /\ UNCHANGED <<killed, ping, served, answer, down>>
    BY <1>6 DEF HostOn, callVars
  <2>3. CASE /\ request' = "none" /\ killable' = FALSE
             /\ UNCHANGED <<kills, pinger, listener>>
    <3>1. Running' = 0 /\ kills' = 0
      BY <2>1, <2>3
    <3>2. HostInv'
      BY <1>0, <2>1, <2>2, <2>3, <3>1
    <3> QED
      BY <1>0, <2>2, <2>3, <3>2
  <2>4. CASE /\ request' = "abandon" /\ kills' = 1 /\ killable' = FALSE
             /\ pinger' = "listen" /\ UNCHANGED listener
    <3>1. pinger' = "listen" /\ listener' # "open" /\ kills' = 1
      BY <2>1, <2>4
    <3>2. Running' = 1
      BY <3>1, SMT
    <3>3. ~killable' /\ killable' \in BOOLEAN
      BY <2>4, Zenon
    <3>4. HostInv'
      BY <1>0, <2>1, <2>2, <2>4, <3>1, <3>2, <3>3
    <3> QED
      BY <1>0, <2>2, <2>4, <3>4
  <2>5. CASE /\ "closing" \notin killed
             /\ request' = "none" /\ killable' = TRUE
             /\ pinger' = "listen" /\ listener' = "open" /\ UNCHANGED kills
    BY <1>0, <2>1, <2>2, <2>5
  <2> QED
    BY <1>6, <2>3, <2>4, <2>5 DEF HostOn
<1>7. CASE Abandoned
  BY <1>0, <1>7 DEF Abandoned, callVars
<1>8. CASE PingerFails
  BY <1>0, <1>8 DEF PingerFails, callVars
<1>9. ASSUME UNCHANGED <<hostVars, served, answer, down>>,
             ping' \in {"none", "sent"} \/ (ping' = "hand" /\ pinger = "listen")
      PROVE  (HostInv /\ NoCrashWhileHosting)'
  BY <1>0, <1>9 DEF hostVars
<1>10. CASE Join
  BY <1>0, <1>10 DEF Join, Listening, hostVars
<1>11. CASE Accept
  BY <1>0, <1>11 DEF Accept, Listening, hostVars, callVars
<1>12. CASE HostPanics
  BY <1>0, <1>12 DEF HostPanics, hostVars, callVars
<1>13. ASSUME NEW ok \in BOOLEAN, AskJoin(ok) PROVE (HostInv /\ NoCrashWhileHosting)'
  BY <1>0, <1>13 DEF AskJoin, hostVars, callVars
<1>14. ASSUME UNCHANGED <<hostVars, ping, answer, down>>, HostUp,
              \/ served = "asking" /\ served' = "failed"
              \/ served = "replied" /\ served' = "offered"
              \/ served = "offered" /\ served' = "connected"
       PROVE  (HostInv /\ NoCrashWhileHosting)'
  BY <1>0, <1>14 DEF hostVars
<1>15. CASE PingReturns
  BY <1>0, <1>15 DEF PingReturns, hostVars
<1>16. CASE ReadReply \/ JoinTimesOut
  <2>1. answer = "none" /\ UNCHANGED <<hostVars, ping, served, down>>
    BY <1>0, <1>16 DEF ReadReply, JoinTimesOut, Handshake
  <2> QED
    BY <1>0, <2>1 DEF hostVars
<1>17. CASE ClientEnds
  BY <1>0, <1>17 DEF ClientEnds, hostVars, callVars
<1>18. CASE CloseListener
  BY <1>0, <1>18 DEF CloseListener, callVars
<1> HIDE DEF HostInv, NoCrashWhileHosting, Running, HostUp, ClientUp, ClientGone
<1>19. CASE Ping \/ PingLost \/ PingArrives \/ PingAnswered
  <2>1. CASE Ping
    BY <1>9, <2>1 DEF Ping
  <2>2. CASE PingLost
    BY <1>9, <2>2 DEF PingLost, callVars
  <2>3. CASE PingArrives
    BY <1>9, <2>3 DEF PingArrives, callVars
  <2>4. CASE PingAnswered
    <3>1. ping' = "none" /\ UNCHANGED <<hostVars, served, answer, down>>
      BY <2>4 DEF PingAnswered
    <3> QED
      BY <1>9, <3>1
  <2> QED
    BY <1>19, <2>1, <2>2, <2>3, <2>4
<1>20. CASE ReadFails \/ MakeConn \/ TakeNewConn
  BY <1>14, <1>20 DEF HostUp, ReadFails, MakeConn, TakeNewConn, callVars
<1> QED
  BY <1>1, <1>2, <1>3, <1>4, <1>5, <1>6, <1>7, <1>8, <1>10, <1>11, <1>12, <1>13,
     <1>15, <1>16, <1>17, <1>18, <1>19, <1>20
  DEF Next, HostStep, ClientStep, ConnStep, vars, callVars

(* The inductive invariant holds.                                          *)
THEOREM Invariance == Spec => []IInv
<1>1. IInv /\ [Next]_vars => IInv'
  BY ConnInv, JoinInv, HostingInv DEF IInv
<1> QED
  BY InitInv, <1>1, PTL DEF Spec

(* The client has a conn only if the host makes one, and is refused only   *)
(* if the host refuses, however the replies and the conn's payloads are    *)
(* cut and whichever of the two gives up; but for a reply of which the     *)
(* Read returned less than four bytes, after which nothing that comes on   *)
(* the conn is ever decoded (handleJoinRequest, launchJoinRoutine).        *)
THEOREM TheEndsAgree == Spec => []JoinAgrees
BY Invariance, PTL DEF IInv

(* The host's process ends only after Host was called while it was hosting *)
(* or because the client left or gave up (networkTcpUdp.routine and what   *)
(* it launches).                                                           *)
THEOREM NoCrash == Spec => []NoCrashWhileHosting
BY Invariance, PTL DEF IInv

(* A tcpConn does what core/network.go promises of a Conn: what is         *)
(* received was sent, each payload once and in order for its kind, however *)
(* many pieces a payload arrives in and however small the channels.        *)
THEOREM TcpConnIsConn == Spec => ImplementsConn
<1>1. Init => ConnSpec!Init
  BY DEF Init, ConnInit, ConnSpec!Init
<1>2. IInv /\ [Next]_vars =>
        [ConnSpec!Next]_<<[d \in {"to_client"} |-> sent], [d \in {"to_client"} |-> received]>>
  <2> SUFFICES ASSUME IInv, [Next]_vars PROVE ConnSpec!Next \/ UNCHANGED <<sent, received>>
    OBVIOUS
  <2>0. ConnTyped /\ InHand
    BY DEF IInv
  <2>1. ASSUME NEW k \in Kind, Send(k) PROVE ConnSpec!Next
    BY <2>1 DEF Send, receiver, ConnSpec!Next, ConnSpec!Send
  <2>2. ASSUME NEW k \in Kind, Receive(k) PROVE ConnSpec!Next
    BY <2>0, <2>2, ReceiveStep DEF ConnSpec!Next
  <2>3. CASE UNCHANGED <<sender, receiver>>
    BY <2>3 DEF sender, receiver
  <2>4. CASE ConnStep
    BY <2>1, <2>2, <2>4 DEF ConnStep, StartWrite, Write, Read, Deliver, Forward, receiver, sender
  <2>5. CASE HostStep
    BY <2>3, <2>5 DEF HostStep, KillPinger, KillListener, CloseListener, HostOff, HostOn,
      Abandoned, PingAnswered, Accept, HostPanics, ReadFails, AskJoin, MakeConn, TakeNewConn,
      connVars
  <2>6. CASE ClientStep
    BY <2>3, <2>6 DEF ClientStep, PingReturns, ReadReply, JoinTimesOut, connVars
  <2> QED
    BY <2>3, <2>4, <2>5, <2>6 DEF Next, vars, connVars, Host, PingerFails, Ping, PingLost,
      PingArrives, Join, ClientEnds
<1> QED
  BY <1>1, <1>2, Invariance, PTL DEF Spec, ImplementsConn, ConnSpec!Spec
=============================================================================
