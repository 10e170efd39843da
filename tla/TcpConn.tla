------------------------------- MODULE TcpConn -------------------------------
(***************************************************************************)
(* One direction of a tcpConn pair (core/network_standard.go): the senders *)
(* and sendRoutine, writeRoutine at one end, readRoutine, recvDataRoutine, *)
(* recvBundleRoutine and the receivers at the other.                       *)
(*                                                                         *)
(* TCP carries a byte stream.  An encoded payload is cut into Pieces, and  *)
(* a Read returns any number of the pieces that have been written, whole   *)
(* payloads or not.  The gob encoding of the first payload carries the     *)
(* type definitions without which no other can be decoded.                 *)
(***************************************************************************)
EXTENDS Integers, SequencesExt

CONSTANTS
  Pieces,      \* the pieces a payload may arrive in
  Cap,         \* the capacity of to_pnf
  MaxPayloads  \* bound: the payloads sent on the conn

ASSUME TcpConnAssumption == {Pieces, Cap} \subseteq Nat \ {0} /\ MaxPayloads \in Nat

VARIABLES
  sent,      \* the kinds of the payloads taken by sendRoutine, in order
  queue,     \* sendRoutine's queue
  writing,   \* the payload writeRoutine is encoding, 0: none
  wire,      \* <<payload, piece>>: what is written and not yet read
  reader,    \* readRoutine: "none", "read", "deliver" or "ended"
  db,        \* what has been read and not yet decoded
  decoded,   \* the last payload decoded
  backlog,   \* per kind, from_net and the queue of recv{Data,Bundle}Routine
  to_pnf,    \* per kind, the channel RecvData() or RecvFrameBundle() returns
  received   \* the payloads taken from those channels, in order

sender == <<sent, queue, writing>>
receiver == <<backlog, to_pnf, received>>
connVars == <<sender, wire, reader, db, decoded, receiver>>

Kind == {"data", "bundle"}
Encoded(n) == [i \in 1 .. Pieces |-> <<n, i>>]

ConnInit ==
  /\ sent = <<>> /\ queue = <<>> /\ writing = 0 /\ wire = <<>>
  /\ reader = "none" /\ db = <<>> /\ decoded = 0
  /\ backlog = [k \in Kind |-> <<>>] /\ to_pnf = [k \in Kind |-> <<>>]
  /\ received = <<>>

-----------------------------------------------------------------------------
(* SendData and SendFrameBundle block until sendRoutine takes the payload. *)
Send(kind) ==
  /\ Len(sent) < MaxPayloads
  /\ sent' = Append(sent, kind)
  /\ queue' = Append(queue, Len(sent) + 1)
  /\ UNCHANGED <<writing, wire, reader, db, decoded, receiver>>

StartWrite ==
  /\ queue # <<>> /\ writing = 0
  /\ writing' = Head(queue)
  /\ queue' = Tail(queue)
  /\ UNCHANGED <<sent, wire, reader, db, decoded, receiver>>

Write ==
  /\ writing # 0
  /\ wire' = wire \o Encoded(writing)
  /\ writing' = 0
  /\ UNCHANGED <<sent, queue, reader, db, decoded, receiver>>

-----------------------------------------------------------------------------
(* The payload at the front of bytes can be decoded when all of it is      *)
(* there, and all before it has been decoded.                              *)
Decodable(bytes) == IsPrefix(Encoded(decoded + 1), bytes)

(* Read with a bug: the decoder goes on with whatever is there.            *)
ReadOn ==
  /\ reader = "read"
  /\ \E size \in 1 .. Len(wire) :
       LET bytes == db \o SubSeq(wire, 1, size)
       IN  /\ wire' = SubSeq(wire, size + 1, Len(wire))
           /\ IF Head(bytes)[1] # 0
                THEN /\ db' = SubSeq(bytes, Pieces + 1, Len(bytes))
                     /\ decoded' = Head(bytes)[1]
                     /\ reader' = "deliver"
                ELSE db' = bytes /\ decoded' = decoded /\ reader' = "ended"
  /\ UNCHANGED <<sender, receiver>>

(* One Read, then one Decode of all that has been read so far.  When that  *)
(* fails the routine ends.                                                 *)
Read ==
  /\ reader = "read"
  /\ \E size \in 1 .. Len(wire) :
       LET bytes == db \o SubSeq(wire, 1, size)
       IN  /\ wire' = SubSeq(wire, size + 1, Len(wire))
           /\ IF Decodable(bytes)
                THEN /\ db' = SubSeq(bytes, Pieces + 1, Len(bytes))
                     /\ decoded' = decoded + 1
                     /\ reader' = "deliver"
                ELSE db' = bytes /\ decoded' = decoded /\ reader' = "ended"
  /\ UNCHANGED <<sender, receiver>>

(* Deliver with a bug: straight to to_pnf, without a queue between.        *)
DeliverBounded ==
  /\ reader = "deliver" /\ Len(to_pnf[sent[decoded]]) < Cap
  /\ to_pnf' = [to_pnf EXCEPT ![sent[decoded]] = Append(@, decoded)]
  /\ reader' = "read"
  /\ UNCHANGED <<sender, wire, db, decoded, backlog, received>>

Deliver ==
  /\ reader = "deliver"
  /\ backlog' = [backlog EXCEPT ![sent[decoded]] = Append(@, decoded)]
  /\ reader' = "read"
  /\ UNCHANGED <<sender, wire, db, decoded, to_pnf, received>>

(* recvDataRoutine and recvBundleRoutine                                   *)
Forward(k) ==
  /\ backlog[k] # <<>> /\ Len(to_pnf[k]) < Cap
  /\ to_pnf' = [to_pnf EXCEPT ![k] = Append(@, Head(backlog[k]))]
  /\ backlog' = [backlog EXCEPT ![k] = Tail(@)]
  /\ UNCHANGED <<sender, wire, reader, db, decoded, received>>

Receive(k) ==
  /\ to_pnf[k] # <<>>
  /\ to_pnf' = [to_pnf EXCEPT ![k] = Tail(@)]
  /\ received' = Append(received, Head(to_pnf[k]))
  /\ UNCHANGED <<sender, wire, reader, db, decoded, backlog>>
=============================================================================
