--------------------------------- MODULE Conn ---------------------------------
(***************************************************************************)
(* The directions of core.Conns (core/network.go:18-37) as their users     *)
(* rely on them: what is sent in one is received at its other end, each    *)
(* payload at most once.  A payload is its number among those sent in its  *)
(* direction; its kind is "data" or "bundle", which are received on        *)
(* channels of their own.                                                  *)
(***************************************************************************)
EXTENDS Naturals, SequencesExt

CONSTANTS
  Direction,  \* of every conn, each of its two
  Kind,       \* the kinds of payload
  InOrder     \* TRUE: payloads of a kind are received in the order of sending

VARIABLES
  sent,     \* per direction, the kinds of the payloads sent, in order
  received  \* per direction, the payloads received

Init ==
  /\ sent = [d \in Direction |-> <<>>]
  /\ received = [d \in Direction |-> <<>>]

(* SendData, SendFrameBundle                                               *)
Send(d, kind) ==
  /\ sent' = [sent EXCEPT ![d] = Append(@, kind)]
  /\ UNCHANGED received

(* A receive from RecvData() or RecvFrameBundle()                          *)
Receive(d, n) ==
  /\ n \notin Range(received[d])
  /\ InOrder => \A m \in 1 .. n - 1 :
                  sent[d][m] = sent[d][n] => m \in Range(received[d])
  /\ received' = [received EXCEPT ![d] = Append(@, n)]
  /\ UNCHANGED sent

Next ==
  \E d \in Direction :
    \/ \E kind \in Kind : Send(d, kind)
    \/ \E n \in DOMAIN sent[d] : Receive(d, n)

Spec == Init /\ [][Next]_<<sent, received>>
=============================================================================
