------------------------- MODULE CommunicatorProofs -------------------------
(***************************************************************************)
(* What a host promises to the clients that join it, for any number of     *)
(* clients and frames: nothing they need is lost (NothingMissed), no one   *)
(* waits for a frame that has passed (PromiseKept), and no one joins on a  *)
(* frame it discards (JoinsAfterItsFrame).                                 *)
(*                                                                         *)
(* horizon is at or above every bundle relayed, so the frame a new client  *)
(* is promised is above all of them; from then on the client is among the  *)
(* receivers of every bundle, and it is in bootstraps until its frame has  *)
(* been sent: the loop that removes conns from bootstraps may leave some   *)
(* behind, but takes away none whose frame is still to come.               *)
(*                                                                         *)
(* active_conns is the number of conns it should be (Counting), which      *)
(* makes its type one of a wait group.                                     *)
(***************************************************************************)
EXTENDS Communicator, SharedLemmas, FiniteSetTheorems

-----------------------------------------------------------------------------
(* Sequences.                                                              *)

LEMMA Appended ==
  ASSUME NEW S, NEW s \in Seq(S), NEW x \in S
  PROVE  /\ Append(s, x) \in Seq(S) /\ Append(s, x) # <<>>
         /\ ToSet(Append(s, x)) = ToSet(s) \cup {x}
         /\ s # <<>> => Head(Append(s, x)) = Head(s) /\ Tail(Append(s, x)) # <<>>
         /\ s = <<>> => Head(Append(s, x)) = x /\ Tail(Append(s, x)) = <<>>
<1> DEFINE t == Append(s, x)
<1>1. t \in Seq(S) /\ Len(t) = Len(s) + 1 /\ Len(s) \in Nat
  OBVIOUS
<1>2. (\A i \in 1 .. Len(s) : t[i] = s[i]) /\ t[Len(s) + 1] = x
  OBVIOUS
<1>3. DOMAIN s = 1 .. Len(s) /\ DOMAIN t = 1 .. Len(s) + 1
  BY <1>1
<1>4. ToSet(t) = ToSet(s) \cup {x}
  <2>1. ASSUME NEW y \in ToSet(s) PROVE y \in ToSet(t)
    BY <1>2, <1>3 DEF ToSet
  <2>2. x \in ToSet(t)
    BY <1>1, <1>2, <1>3 DEF ToSet
  <2>3. ASSUME NEW y \in ToSet(t) PROVE y \in ToSet(s) \cup {x}
    <3>1. PICK i \in 1 .. Len(s) + 1 : y = t[i]
      BY <1>3 DEF ToSet
    <3>2. i = Len(s) + 1 \/ i \in 1 .. Len(s)
      BY <1>1
    <3> QED
      BY <1>2, <1>3, <3>1, <3>2 DEF ToSet
  <2> QED
    BY <2>1, <2>2, <2>3
<1>5. s # <<>> => Head(t) = Head(s) /\ Tail(t) # <<>>
  <2> SUFFICES ASSUME s # <<>> PROVE Head(t) = Head(s) /\ Tail(t) # <<>>
    OBVIOUS
  <2>1. Len(s) > 0 /\ Len(Tail(t)) = Len(s)
    BY <1>1
  <2> QED
    BY <1>2, <2>1
<1> QED
  BY <1>1, <1>4, <1>5

LEMMA TailKeeps ==
  ASSUME NEW S, NEW s \in Seq(S), s # <<>>
  PROVE  /\ Head(s) \in S /\ Tail(s) \in Seq(S)
         /\ \A x \in ToSet(s) : x = Head(s) \/ x \in ToSet(Tail(s))
<1>1. Head(s) \in S /\ Tail(s) \in Seq(S) /\ Len(Tail(s)) = Len(s) - 1 /\ Len(s) \in Nat
  OBVIOUS
<1>2. \A i \in 1 .. Len(s) - 1 : Tail(s)[i] = s[i + 1]
  OBVIOUS
<1>3. ASSUME NEW x \in ToSet(s), x # Head(s) PROVE x \in ToSet(Tail(s))
  <2>1. PICK i \in 1 .. Len(s) : x = s[i]
    BY DEF ToSet
  <2>2. i # 1
    BY <1>3, <2>1
  <2>3. i - 1 \in 1 .. Len(s) - 1 /\ Tail(s)[i - 1] = x
    BY <1>1, <1>2, <2>1, <2>2
  <2>4. i - 1 \in DOMAIN Tail(s)
    BY <1>1, <2>3
  <2> QED
    BY <2>3, <2>4 DEF ToSet
<1> QED
  BY <1>1, <1>3

LEMMA InSet ==
  ASSUME NEW S, NEW s \in Seq(S)
  PROVE  ToSet(s) \subseteq S
BY DEF ToSet

(* Replacing an element by the last one and dropping the last loses that   *)
(* element only.                                                           *)
LEMMA SwapRemove ==
  ASSUME NEW S, NEW s \in Seq(S), NEW i \in 1 .. Len(s)
  PROVE  LET t == SubSeq([s EXCEPT ![i] = Last(s)], 1, Len(s) - 1)
         IN  /\ t \in Seq(S) /\ ToSet(t) \subseteq ToSet(s)
             /\ \A x \in ToSet(s) : x = s[i] \/ x \in ToSet(t)
<1> DEFINE r == [s EXCEPT ![i] = Last(s)]
           t == SubSeq(r, 1, Len(s) - 1)
<1>1. Len(s) \in Nat /\ DOMAIN s = 1 .. Len(s) /\ Len(s) > 0 /\ \A j \in 1 .. Len(s) : s[j] \in S
  OBVIOUS
<1>2. Last(s) = s[Len(s)]
  BY DEF Last
<1>3. r \in Seq(S) /\ Len(r) = Len(s)
  BY <1>1, <1>2
<1>4. \A j \in 1 .. Len(s) : r[j] = IF j = i THEN s[Len(s)] ELSE s[j]
  BY <1>1, <1>2
<1> HIDE DEF r
<1>5. t \in Seq(S) /\ Len(t) = Len(s) - 1 /\ \A j \in 1 .. Len(s) - 1 : t[j] = r[j]
  BY <1>1, <1>3
<1>6. DOMAIN t = 1 .. Len(s) - 1
  BY <1>5
<1> HIDE DEF t
<1>7. ASSUME NEW x \in ToSet(t) PROVE x \in ToSet(s)
  <2>1. PICK j \in 1 .. Len(s) - 1 : x = t[j]
    BY <1>6 DEF ToSet
  <2>2. x = s[Len(s)] \/ x = s[j]
    BY <1>1, <1>4, <1>5, <2>1
  <2>3. Len(s) \in DOMAIN s /\ j \in DOMAIN s
    BY <1>1
  <2> QED
    BY <2>2, <2>3 DEF ToSet
<1>8. ASSUME NEW x \in ToSet(s), x # s[i] PROVE x \in ToSet(t)
  <2>1. PICK j \in 1 .. Len(s) : x = s[j]
    BY <1>1 DEF ToSet
  <2>2. CASE j = Len(s)
    <3>1. i \in 1 .. Len(s) - 1
      BY <1>1, <1>8, <2>1, <2>2
    <3>2. t[i] = x
      BY <1>1, <1>4, <1>5, <2>1, <2>2, <3>1
    <3> QED
      BY <1>6, <3>1, <3>2 DEF ToSet
  <2>3. CASE j # Len(s)
    <3>1. j # i
      BY <1>8, <2>1
    <3>2. j \in 1 .. Len(s) - 1
      <4>1. \A n \in Nat : j \in 1 .. n /\ j # n => j \in 1 .. n - 1
        OBVIOUS
      <4> QED
        BY <1>1, <2>3, <4>1
    <3>3. t[j] = x
      BY <1>1, <1>4, <1>5, <2>1, <3>1, <3>2
    <3> QED
      BY <1>6, <3>2, <3>3 DEF ToSet
  <2> QED
    BY <2>2, <2>3
<1> QED
  BY <1>5, <1>7, <1>8 DEF t, r

-----------------------------------------------------------------------------
(* The loop that removes conns from bootstraps.                            *)

LEMMA RemovalDef ==
  ASSUME NEW frame, Len(bootstraps) \in Nat
  PROVE  Removal(frame) = [i \in 0 .. Len(bootstraps) |->
            IF i = 0 THEN bootstraps
            ELSE LET now == Removal(frame)[i - 1]
                 IN  IF i <= Len(now) /\ now[i].start = frame
                       THEN SubSeq([now EXCEPT ![i] = Last(now)], 1, Len(now) - 1)
                       ELSE now]
<1> DEFINE W == 0 .. Len(bootstraps)
           pass(now, i) == IF i <= Len(now) /\ now[i].start = frame
                             THEN SubSeq([now EXCEPT ![i] = Last(now)], 1, Len(now) - 1)
                             ELSE now
           step(g, i) == IF i = 0 THEN bootstraps ELSE pass(g[i - 1], i)
           S == {n \in Nat : \E g : /\ g = [i \in W |-> g[i]]
                                    /\ \A i \in W : i <= n => g[i] = step(g, i)}
<1>1. 0 \in S
  <2> DEFINE g == [i \in W |-> bootstraps]
  <2>1. \A i \in W : i <= 0 => g[i] = step(g, i)
    OBVIOUS
  <2>2. g = [i \in W |-> g[i]]
    OBVIOUS
  <2> HIDE DEF g, step
  <2> QED
    BY <2>1, <2>2
<1>2. ASSUME NEW n \in Nat, n \in S PROVE n + 1 \in S
  <2>1. PICK g : /\ g = [i \in W |-> g[i]]
                 /\ \A i \in W : i <= n => g[i] = step(g, i)
    BY <1>2
  <2> DEFINE h == [i \in W |-> IF i = n + 1 THEN step(g, i) ELSE g[i]]
  <2>2. ASSUME NEW i \in W, i <= n + 1 PROVE h[i] = step(h, i)
    <3>1. i # 0 => i - 1 \in W /\ h[i - 1] = g[i - 1]
      BY <2>2
    <3>2. step(h, i) = step(g, i)
      <4> HIDE DEF h, pass
      <4> QED
        BY <3>1
    <3>3. CASE i = n + 1
      BY <3>2, <3>3
    <3>4. CASE i # n + 1
      <4>1. i <= n
        BY <2>2, <3>4
      <4>2. g[i] = step(g, i) /\ h[i] = g[i]
        BY <2>1, <3>4, <4>1
      <4> QED
        BY <3>2, <4>2
    <3> QED
      BY <3>3, <3>4
  <2>3. h = [i \in W |-> h[i]]
    OBVIOUS
  <2> HIDE DEF h, step
  <2> QED
    BY <2>2, <2>3
<1>3. Nat \subseteq S
  <2> HIDE DEF S
  <2> QED
    BY <1>1, <1>2, SetInduction
<1>4. PICK g : /\ g = [i \in W |-> g[i]]
               /\ \A i \in W : i <= Len(bootstraps) => g[i] = step(g, i)
  BY <1>3
<1>5. g = [i \in W |-> step(g, i)]
  <2> HIDE DEF step
  <2> QED
    BY <1>4
<1> QED
  BY <1>5 DEF Removal

(* The loop takes away conns of this frame only.                           *)
LEMMA RemainingKeeps ==
  ASSUME bootstraps \in Seq(Boot), NEW frame
  PROVE  /\ Remaining(frame) \in Seq(Boot)
         /\ ToSet(Remaining(frame)) \subseteq ToSet(bootstraps)
         /\ \A boot \in ToSet(bootstraps) :
              boot.start = frame \/ boot \in ToSet(Remaining(frame))
<1> DEFINE W == 0 .. Len(bootstraps)
           left == Removal(frame)
           Good(s) == /\ s \in Seq(Boot) /\ ToSet(s) \subseteq ToSet(bootstraps)
                      /\ \A boot \in ToSet(bootstraps) : boot.start = frame \/ boot \in ToSet(s)
           S == {n \in Nat : n \in W => Good(left[n])}
<1>1. Len(bootstraps) \in Nat
  OBVIOUS
<1> DEFINE pass(now, i) ==
             IF i <= Len(now) /\ now[i].start = frame
               THEN SubSeq([now EXCEPT ![i] = Last(now)], 1, Len(now) - 1)
               ELSE now
<1>2. \A i \in W : left[i] = IF i = 0 THEN bootstraps ELSE pass(left[i - 1], i)
  <2>1. left = [i \in W |-> IF i = 0 THEN bootstraps ELSE pass(left[i - 1], i)]
    BY <1>1, RemovalDef, Zenon
  <2> HIDE DEF left, pass
  <2> QED
    BY <2>1
<1> HIDE DEF left
<1>3. 0 \in S
  BY <1>1, <1>2
<1>4. ASSUME NEW n \in Nat, n \in S PROVE n + 1 \in S
  <2> SUFFICES ASSUME n + 1 \in W PROVE Good(left[n + 1])
    OBVIOUS
  <2> DEFINE now == left[n]
  <2>1. Good(now)
    BY <1>1, <1>4
  <2>2. left[n + 1] = pass(now, n + 1)
    <3> HIDE DEF pass
    <3> QED
      BY <1>2, (n + 1) - 1 = n, n + 1 # 0
  <2> HIDE DEF now
  <2>3. CASE n + 1 <= Len(now) /\ now[n + 1].start = frame
    <3>1. n + 1 \in 1 .. Len(now)
      BY <2>1, <2>3
    <3> QED
      BY <2>1, <2>2, <2>3, <3>1, SwapRemove
  <2>4. CASE ~(n + 1 <= Len(now) /\ now[n + 1].start = frame)
    BY <2>1, <2>2, <2>4
  <2> QED
    BY <2>3, <2>4
<1>5. Nat \subseteq S
  <2> HIDE DEF S
  <2> QED
    BY <1>3, <1>4, SetInduction
<1>6. Good(left[Len(bootstraps)])
  BY <1>1, <1>5
<1> QED
  BY <1>6 DEF Remaining, left
-----------------------------------------------------------------------------
(* The inductive invariant.                                                *)

Typed ==
  /\ conns \in Seq(Conn) /\ bootstraps \in Seq(Boot)
  /\ horizon \in Nat /\ broadcast \in Nat /\ final \in Nat
  /\ joined \in [Conn -> Nat]
  /\ relayed \subseteq Bundle /\ incoming \subseteq Bundle /\ outgoing \subseteq Conn \X Bundle
  /\ data \in [Conn -> Seq(Message)] /\ reply \in [Conn -> {"none", "ready", "bad"}]
  /\ stage \in [Conn -> Stages] /\ start \in [Conn -> Nat]
  /\ kept \in [Conn -> SUBSET Bundle]

(* No frame is final that has not been broadcast, none relayed is above    *)
(* horizon.                                                                *)
BelowHorizon ==
  /\ final <= broadcast /\ broadcast <= horizon
  /\ \A bundle \in relayed : bundle[2] <= horizon

Registered ==
  /\ \A c \in ToSet(conns) : stage[c] # "away"
  /\ \A boot \in ToSet(bootstraps) :
       stage[boot.conn] # "away" /\ boot.start = Promised(boot.conn)

(* What the data on a conn says of its client: whatever follows the        *)
(* initial data is the client's frame, and that frame is final.            *)
Mailbox ==
  \A c \in Conn :
    /\ stage[c] = "away" => data[c] = <<>>
    /\ stage[c] = "greeted" =>
         /\ data[c] # <<>> /\ Head(data[c]).kind = "initial"
         /\ Tail(data[c]) # <<>> => Promised(c) <= final
    /\ stage[c] = "joining" /\ data[c] # <<>> => Promised(c) <= final
    /\ reply[c] = "ready" => stage[c] = "playing" /\ start[c] <= final

(* A client whose frame is still to come is in bootstraps.                 *)
Awaited ==
  \A c \in Conn :
    stage[c] \in {"greeted", "joining"} /\ final < Promised(c)
      => [conn |-> c, start |-> Promised(c)] \in ToSet(bootstraps)

(* Only a client that plays has an EngineJoined event or bundles of its    *)
(* own, and they are for frames after its first.                           *)
Joins ==
  /\ \A c \in Conn : joined[c] # 0 => stage[c] = "playing" /\ joined[c] > start[c]
  /\ \A bundle \in relayed \cup incoming :
       bundle[1] \in Conn => stage[bundle[1]] = "playing" /\ bundle[2] > start[bundle[1]]

IInv == /\ Typed /\ BelowHorizon /\ Registered /\ Mailbox /\ Awaited /\ Joins
        /\ PromiseKept /\ NothingMissed
LEMMA PromisedNat ==
  ASSUME Typed, Mailbox, NEW c \in Conn
  PROVE  Promised(c) \in Nat
<1>1. CASE stage[c] = "greeted"
  <2>1. data[c] \in Seq(Message) /\ data[c] # <<>>
    BY <1>1 DEF Typed, Mailbox
  <2>2. Head(data[c]) \in Message
    BY <2>1
  <2> QED
    BY <1>1, <2>2 DEF Promised, Message
<1>2. CASE stage[c] # "greeted"
  BY <1>2 DEF Promised, Typed
<1> QED
  BY <1>1, <1>2

LEMMA Members ==
  ASSUME Typed
  PROVE  ToSet(conns) \subseteq Conn /\ ToSet(bootstraps) \subseteq Boot
BY InSet DEF Typed

LEMMA InitIInv ==
  ASSUME Init
  PROVE  IInv
<1>1. ToSet(conns) = {} /\ ToSet(bootstraps) = {}
  BY DEF Init, ToSet
<1>2. Typed
  BY CommunicatorAssumption DEF Init, Typed, Stages, Bundle
<1>3. BelowHorizon /\ Registered /\ Joins
  BY <1>1 DEF Init, BelowHorizon, Registered, Joins
<1>4. Mailbox
  BY DEF Init, Mailbox
<1>5. Awaited /\ PromiseKept
  BY DEF Init, Awaited, PromiseKept
<1>6. NothingMissed
  BY <1>1 DEF NothingMissed
<1> QED
  BY <1>2, <1>3, <1>4, <1>5, <1>6 DEF IInv

-----------------------------------------------------------------------------
(* Each step preserves the invariant.                                      *)

LEMMA AcceptStep ==
  ASSUME IInv, NEW c \in Conn, Accept(c)
  PROVE  IInv'
<1> DEFINE initial == [kind |-> "initial", frame |-> horizon + 1]
           boot == [conn |-> c, start |-> horizon + 1]
<1> USE DEF IInv
<1>1. horizon + 1 \in Nat /\ initial \in Message /\ boot \in Boot
  BY DEF Typed, Message, Boot
<1>2. stage[c] = "away" /\ data[c] = <<>>
  BY DEF Accept, Mailbox
<1>3. data' = [data EXCEPT ![c] = Append(@, initial)] /\ stage' = [stage EXCEPT ![c] = "greeted"]
  BY DEF Accept
<1>4. data'[c] \in Seq(Message) /\ data'[c] # <<>> /\ Head(data'[c]) = initial /\ Tail(data'[c]) = <<>>
  <2>1. data'[c] = Append(<<>>, initial)
    BY <1>2, <1>3 DEF Typed
  <2> QED
    BY <1>1, <2>1, Appended
<1>5. \A d \in Conn : d # c => data'[d] = data[d] /\ stage'[d] = stage[d]
  BY <1>3 DEF Typed
<1>6. stage'[c] = "greeted"
  BY <1>3 DEF Typed
<1>7. Promised(c)' = horizon + 1
  BY <1>4, <1>6 DEF Promised
<1>8. \A d \in Conn : d # c => Promised(d)' = Promised(d)
  BY <1>5 DEF Promised, Accept
<1>9. /\ conns' \in Seq(Conn) /\ ToSet(conns') = ToSet(conns) \cup {c}
      /\ bootstraps' \in Seq(Boot) /\ ToSet(bootstraps') = ToSet(bootstraps) \cup {boot}
  <2>1. conns' = Append(conns, c) /\ bootstraps' = Append(bootstraps, boot)
    BY DEF Accept
  <2> HIDE DEF boot
  <2> QED
    BY <1>1, <2>1, Appended DEF Typed
<1>10. ToSet(conns) \subseteq Conn /\ ToSet(bootstraps) \subseteq Boot
  BY Members
<1>11. UNCHANGED <<horizon, broadcast, final, joined, relayed, outgoing, incoming, reply, start, kept>>
  BY DEF Accept, updaterVars
<1> HIDE DEF initial
<1>12. Typed'
  <2>1. data' \in [Conn -> Seq(Message)]
    BY <1>3, <1>4, <1>5 DEF Typed
  <2>2. stage' \in [Conn -> Stages]
    BY <1>3 DEF Typed, Stages
  <2> QED
    BY <1>9, <1>11, <2>1, <2>2 DEF Typed
<1>13. BelowHorizon'
  BY <1>11 DEF BelowHorizon
<1>14. Registered'
  <2>1. \A d \in ToSet(conns') : stage'[d] # "away"
    BY <1>5, <1>6, <1>9, <1>10 DEF Registered
  <2>2. ASSUME NEW b \in ToSet(bootstraps')
        PROVE  stage'[b.conn] # "away" /\ b.start = Promised(b.conn)'
    <3>1. CASE b = boot
      BY <1>6, <1>7, <3>1
    <3>2. CASE b \in ToSet(bootstraps)
      <4>1. b.conn \in Conn /\ stage[b.conn] # "away" /\ b.start = Promised(b.conn)
        BY <1>10, <3>2 DEF Registered, Boot
      <4>2. b.conn # c
        BY <1>2, <4>1
      <4> QED
        BY <1>5, <1>8, <4>1, <4>2
    <3> QED
      BY <1>9, <2>2, <3>1, <3>2
  <2> QED
    BY <2>1, <2>2 DEF Registered
<1>15. Mailbox'
  <2> SUFFICES ASSUME NEW d \in Conn
               PROVE  /\ stage'[d] = "away" => data'[d] = <<>>
                      /\ stage'[d] = "greeted" =>
                           /\ data'[d] # <<>> /\ Head(data'[d]).kind = "initial"
                           /\ Tail(data'[d]) # <<>> => Promised(d)' <= final'
                      /\ stage'[d] = "joining" /\ data'[d] # <<>> => Promised(d)' <= final'
                      /\ reply'[d] = "ready" => stage'[d] = "playing" /\ start'[d] <= final'
    BY DEF Mailbox
  <2>1. CASE d = c
    <3>1. reply[c] # "ready"
      BY <1>2 DEF Mailbox
    <3> QED
      BY <1>4, <1>6, <1>11, <2>1, <3>1 DEF initial
  <2>2. CASE d # c
    BY <1>5, <1>8, <1>11, <2>2 DEF Mailbox
  <2> QED
    BY <2>1, <2>2
<1>16. Awaited'
  <2> SUFFICES ASSUME NEW d \in Conn, stage'[d] \in {"greeted", "joining"}, final' < Promised(d)'
               PROVE  [conn |-> d, start |-> Promised(d)'] \in ToSet(bootstraps')
    BY DEF Awaited
  <2>1. CASE d = c
    BY <1>7, <1>9, <2>1
  <2>2. CASE d # c
    BY <1>5, <1>8, <1>9, <1>11, <2>2 DEF Awaited
  <2> QED
    BY <2>1, <2>2
<1>17. Joins'
  <2>1. \A d \in Conn : stage[d] = "playing" => stage'[d] = "playing"
    BY <1>2, <1>5
  <2> QED
    BY <1>11, <2>1 DEF Joins
<1>18. PromiseKept'
  <2> SUFFICES ASSUME NEW d \in Conn, stage'[d] \in {"greeted", "joining"}
               PROVE  \/ final' < Promised(d)'
                      \/ [kind |-> "boot", frame |-> Promised(d)'] \in ToSet(data'[d])
    BY DEF PromiseKept
  <2>1. CASE d = c
    BY <1>7, <1>11, <2>1 DEF Typed, BelowHorizon
  <2>2. CASE d # c
    BY <1>5, <1>8, <1>11, <2>2 DEF PromiseKept
  <2> QED
    BY <2>1, <2>2
<1>19. NothingMissed'
  <2> SUFFICES ASSUME NEW d \in ToSet(conns'), NEW bundle \in relayed',
                      bundle[1] # d, bundle[2] > Promised(d)', stage'[d] # "gone"
               PROVE  bundle \in kept'[d] \/ <<d, bundle>> \in outgoing'
    BY DEF NothingMissed
  <2>1. d # c
    <3>1. bundle[2] \in Nat /\ bundle[2] <= horizon
      BY <1>11 DEF Typed, Bundle, BelowHorizon
    <3> QED
      BY <1>7, <3>1 DEF Typed
  <2>2. d \in ToSet(conns) /\ d \in Conn
    BY <1>9, <1>10, <2>1
  <2> QED
    BY <1>5, <1>8, <1>11, <2>1, <2>2 DEF NothingMissed
<1> QED
  BY <1>12, <1>13, <1>14, <1>15, <1>16, <1>17, <1>18, <1>19
LEMMA QuietStep ==
  ASSUME IInv,
         UNCHANGED <<conns, bootstraps, horizon, broadcast, final, joined, relayed, outgoing,
                     incoming, data, reply, stage, start, kept>>
  PROVE  IInv'
<1>1. \A c : Promised(c)' = Promised(c)
  BY DEF Promised
<1>2. Typed' /\ BelowHorizon' /\ Joins'
  BY DEF IInv, Typed, BelowHorizon, Joins
<1>3. Registered' /\ Mailbox'
  BY <1>1 DEF IInv, Registered, Mailbox
<1>4. Awaited' /\ PromiseKept'
  BY <1>1 DEF IInv, Awaited, PromiseKept
<1>5. NothingMissed'
  BY <1>1 DEF IInv, NothingMissed
<1> QED
  BY <1>2, <1>3, <1>4, <1>5 DEF IInv

(* What BroadcastBundle and RelayBundle have in common.                    *)
LEMMA PassOnStep ==
  ASSUME IInv, NEW bundle \in Bundle, NEW receivers \in SUBSET Conn, PassOn(bundle, receivers),
         \A c \in ToSet(conns) : bundle[1] # c => c \in receivers,
         broadcast' \in Nat, broadcast <= broadcast', broadcast' <= horizon',
         incoming' \subseteq incoming, bundle[1] \in Conn => bundle \in incoming,
         UNCHANGED <<conns, bootstraps, final, joined, data, reply, clientVars>>
  PROVE  IInv'
<1> USE DEF IInv, clientVars
<1>1. \A c : Promised(c)' = Promised(c)
  BY DEF Promised
<1>2. bundle[2] \in Nat
  BY DEF Bundle
<1>3. /\ horizon' \in Nat /\ horizon <= horizon' /\ bundle[2] <= horizon'
      /\ relayed' = relayed \cup {bundle}
      /\ outgoing' = outgoing \cup (receivers \X {bundle})
  BY <1>2 DEF PassOn, Greater, Typed
<1>4. Typed'
  BY <1>3 DEF Typed
<1>5. BelowHorizon'
  <2>1. \A b \in relayed : b[2] \in Nat
    BY DEF Typed, Bundle
  <2> QED
    BY <1>2, <1>3, <2>1 DEF BelowHorizon, Typed
<1>6. Registered' /\ Mailbox'
  BY <1>1 DEF Registered, Mailbox
<1>7. Awaited' /\ PromiseKept'
  BY <1>1 DEF Awaited, PromiseKept
<1>8. Joins'
  BY <1>3 DEF Joins
<1>9. NothingMissed'
  <2> SUFFICES ASSUME NEW c \in ToSet(conns), NEW b \in relayed',
                      b[1] # c, b[2] > Promised(c), stage[c] # "gone"
               PROVE  b \in kept[c] \/ <<c, b>> \in outgoing'
    BY <1>1 DEF NothingMissed
  <2>1. CASE b = bundle
    BY <1>3, <2>1
  <2>2. CASE b \in relayed
    BY <1>3, <2>2 DEF NothingMissed
  <2> QED
    BY <1>3, <2>1, <2>2
<1> QED
  BY <1>4, <1>5, <1>6, <1>7, <1>8, <1>9

LEMMA BroadcastBundleStep ==
  ASSUME IInv, BroadcastBundle
  PROVE  IInv'
<1>1. broadcast' = broadcast + 1 /\ broadcast \in Nat /\ horizon \in Nat /\ ToSet(conns) \subseteq Conn
  BY Members DEF IInv, Typed, BroadcastBundle
<1>2. <<Host, broadcast + 1>> \in Bundle /\ PassOn(<<Host, broadcast + 1>>, ToSet(conns))
  BY <1>1 DEF Bundle, BroadcastBundle
<1>3. broadcast' <= horizon'
  BY <1>1, <1>2 DEF PassOn, Greater
<1> QED
  BY <1>1, <1>2, <1>3, PassOnStep, CommunicatorAssumption DEF BroadcastBundle

LEMMA RelayBundleStep ==
  ASSUME IInv, NEW c \in Conn, RelayBundle(c)
  PROVE  IInv'
<1>1. PICK bundle \in incoming : /\ bundle[1] = c /\ PassOn(bundle, ToSet(conns) \ {c})
                                 /\ incoming' = incoming \ {bundle}
  BY DEF RelayBundle
<1>2. bundle \in Bundle /\ horizon \in Nat /\ broadcast \in Nat
  BY DEF IInv, Typed
<1>3. ToSet(conns) \ {c} \in SUBSET Conn
  BY Members DEF IInv
<1>4. broadcast' = broadcast /\ broadcast <= horizon'
  <2>1. bundle[2] \in Nat
    BY <1>2 DEF Bundle
  <2> QED
    BY <1>1, <1>2, <2>1 DEF IInv, BelowHorizon, PassOn, Greater, RelayBundle, updaterVars
<1>5. UNCHANGED <<conns, bootstraps, final, joined, data, reply, clientVars>>
  BY DEF RelayBundle, updaterVars
<1> QED
  BY <1>1, <1>2, <1>3, <1>4, <1>5, PassOnStep

LEMMA SendBootstrapFrameStep ==
  ASSUME IInv, SendBootstrapFrame
  PROVE  IInv'
<1> DEFINE ready == {bootstraps[i].conn :
                       i \in {j \in DOMAIN bootstraps : bootstraps[j].start = final + 1}}
           message == [kind |-> "boot", frame |-> final + 1]
<1> USE DEF IInv
<1>1. /\ final < broadcast /\ final' = final + 1
      /\ data' = [c \in Conn |-> IF c \in ready THEN Append(data[c], message) ELSE data[c]]
      /\ bootstraps' = Remaining(final + 1)
      /\ UNCHANGED <<conns, horizon, broadcast, joined, relayed, outgoing, incoming, reply,
                     stage, start, kept>>
  BY DEF SendBootstrapFrame, clientVars
<1>2. final \in Nat /\ broadcast \in Nat /\ horizon \in Nat /\ message \in Message
  BY DEF Typed, Message
<1>3. \A c \in Conn : c \in ready <=> [conn |-> c, start |-> final + 1] \in ToSet(bootstraps)
  <2>1. \A i \in DOMAIN bootstraps : bootstraps[i] \in Boot
    BY DEF Typed
  <2>2. ASSUME NEW c \in Conn, c \in ready PROVE [conn |-> c, start |-> final + 1] \in ToSet(bootstraps)
    <3>1. PICK i \in DOMAIN bootstraps : bootstraps[i].start = final + 1 /\ bootstraps[i].conn = c
      BY <2>2
    <3>2. bootstraps[i] = [conn |-> c, start |-> final + 1]
      BY <2>1, <3>1 DEF Boot
    <3> QED
      BY <3>2 DEF ToSet
  <2>3. ASSUME NEW c \in Conn, [conn |-> c, start |-> final + 1] \in ToSet(bootstraps) PROVE c \in ready
    <3>1. PICK i \in DOMAIN bootstraps : bootstraps[i] = [conn |-> c, start |-> final + 1]
      BY <2>3 DEF ToSet
    <3> QED
      BY <3>1
  <2> QED
    BY <2>2, <2>3
<1> HIDE DEF ready
<1>4. ASSUME NEW c \in Conn, c \in ready
      PROVE  stage[c] # "away" /\ Promised(c) = final + 1
  BY <1>3, <1>4 DEF Registered
<1>5. ASSUME NEW c \in Conn
      PROVE  /\ data'[c] \in Seq(Message)
             /\ ToSet(data'[c]) = IF c \in ready THEN ToSet(data[c]) \cup {message} ELSE ToSet(data[c])
             /\ data[c] # <<>> => data'[c] # <<>> /\ Head(data'[c]) = Head(data[c])
             /\ c \notin ready => data'[c] = data[c]
  <2>1. data[c] \in Seq(Message)
    BY DEF Typed
  <2> HIDE DEF message
  <2>2. CASE c \in ready
    BY <1>1, <1>2, <2>1, <2>2, Appended
  <2>3. CASE c \notin ready
    BY <1>1, <2>1, <2>3
  <2> QED
    BY <2>2, <2>3
<1>6. \A c \in Conn : Promised(c)' = Promised(c) /\ Promised(c) \in Nat
  <2> SUFFICES ASSUME NEW c \in Conn PROVE Promised(c)' = Promised(c) /\ Promised(c) \in Nat
    OBVIOUS
  <2>1. stage[c] = "greeted" => data[c] # <<>>
    BY DEF Mailbox
  <2> QED
    BY <1>1, <1>5, <2>1, PromisedNat DEF Promised
<1>7. /\ bootstraps' \in Seq(Boot) /\ ToSet(bootstraps') \subseteq ToSet(bootstraps)
      /\ \A boot \in ToSet(bootstraps) : boot.start = final + 1 \/ boot \in ToSet(bootstraps')
  BY <1>1, RemainingKeeps DEF Typed
<1>8. ToSet(conns) \subseteq Conn /\ ToSet(bootstraps) \subseteq Boot
  BY Members
<1>9. Typed'
  <2>1. data' \in [Conn -> Seq(Message)]
    BY <1>1, <1>5
  <2> QED
    BY <1>1, <1>2, <1>7, <2>1 DEF Typed
<1>10. BelowHorizon'
  BY <1>1, <1>2 DEF BelowHorizon
<1>11. Registered'
  BY <1>1, <1>6, <1>7, <1>8 DEF Registered, Boot
<1>12. Mailbox'
  <2> SUFFICES ASSUME NEW c \in Conn
               PROVE  /\ stage[c] = "away" => data'[c] = <<>>
                      /\ stage[c] = "greeted" =>
                           /\ data'[c] # <<>> /\ Head(data'[c]).kind = "initial"
                           /\ Tail(data'[c]) # <<>> => Promised(c) <= final'
                      /\ stage[c] = "joining" /\ data'[c] # <<>> => Promised(c) <= final'
                      /\ reply[c] = "ready" => stage[c] = "playing" /\ start[c] <= final'
    BY <1>1, <1>6 DEF Mailbox
  <2>1. reply[c] = "ready" => stage[c] = "playing" /\ start[c] <= final'
    BY <1>1, <1>2 DEF Mailbox, Typed
  <2>2. stage[c] = "greeted" => data'[c] # <<>> /\ Head(data'[c]).kind = "initial"
    BY <1>5 DEF Mailbox
  <2>3. CASE c \in ready
    <3>1. stage[c] # "away" /\ Promised(c) <= final'
      BY <1>1, <1>2, <1>4, <2>3
    <3> QED
      BY <2>1, <2>2, <3>1
  <2>4. CASE c \notin ready
    <3>1. data'[c] = data[c]
      BY <1>5, <2>4
    <3>2. Promised(c) <= final => Promised(c) <= final'
      BY <1>1, <1>2, <1>6
    <3> QED
      BY <2>1, <2>2, <3>1, <3>2 DEF Mailbox
  <2> QED
    BY <2>3, <2>4
<1>13. Awaited'
  <2> SUFFICES ASSUME NEW c \in Conn, stage[c] \in {"greeted", "joining"}, final + 1 < Promised(c)
               PROVE  [conn |-> c, start |-> Promised(c)] \in ToSet(bootstraps')
    BY <1>1, <1>6 DEF Awaited
  <2>1. [conn |-> c, start |-> Promised(c)] \in ToSet(bootstraps)
    BY <1>2, <1>6 DEF Awaited
  <2>2. Promised(c) # final + 1
    BY <1>2, <1>6
  <2> QED
    BY <1>7, <2>1, <2>2
<1>14. Joins'
  BY <1>1 DEF Joins
<1>15. PromiseKept'
  <2> SUFFICES ASSUME NEW c \in Conn, stage[c] \in {"greeted", "joining"}
               PROVE  \/ final' < Promised(c)
                      \/ [kind |-> "boot", frame |-> Promised(c)] \in ToSet(data'[c])
    BY <1>1, <1>6 DEF PromiseKept
  <2>1. CASE final < Promised(c)
    <3>1. CASE Promised(c) = final + 1
      <4>1. c \in ready
        BY <1>3, <2>1, <3>1 DEF Awaited
      <4> QED
        BY <1>5, <3>1, <4>1
    <3>2. CASE Promised(c) # final + 1
      BY <1>1, <1>2, <1>6, <2>1, <3>2
    <3> QED
      BY <3>1, <3>2
  <2>2. CASE [kind |-> "boot", frame |-> Promised(c)] \in ToSet(data[c])
    BY <1>5, <2>2
  <2> QED
    BY <2>1, <2>2 DEF PromiseKept
<1>16. NothingMissed'
  BY <1>1, <1>6, <1>8 DEF NothingMissed
<1> QED
  BY <1>9, <1>10, <1>11, <1>12, <1>13, <1>14, <1>15, <1>16
LEMMA WelcomeStep ==
  ASSUME IInv, NEW c \in Conn, Welcome(c)
  PROVE  IInv'
<1> USE DEF IInv
<1>1. PICK frame \in broadcast + 1 .. broadcast + 2 : joined' = [joined EXCEPT ![c] = frame]
  BY DEF Welcome
<1>2. UNCHANGED <<conns, bootstraps, horizon, broadcast, final, relayed, outgoing, incoming,
                  data, reply, stage, start, kept>>
  BY DEF Welcome, clientVars
<1>3. \A d : Promised(d)' = Promised(d)
  BY <1>2 DEF Promised
<1>4. frame \in Nat /\ frame > broadcast
  BY DEF Typed
<1>5. stage[c] = "playing" /\ frame > start[c]
  <2>1. stage[c] = "playing" /\ start[c] <= final /\ final <= broadcast /\ start[c] \in Nat
    BY DEF Welcome, Mailbox, BelowHorizon, Typed
  <2> QED
    BY <1>4, <2>1 DEF Typed
<1>6. Typed'
  <2>1. joined' \in [Conn -> Nat]
    BY <1>1, <1>4 DEF Typed
  <2> QED
    BY <1>2, <2>1 DEF Typed
<1>7. BelowHorizon' /\ Registered' /\ Mailbox'
  BY <1>2, <1>3 DEF BelowHorizon, Registered, Mailbox
<1>8. Awaited' /\ PromiseKept' /\ NothingMissed'
  BY <1>2, <1>3 DEF Awaited, PromiseKept, NothingMissed
<1>9. Joins'
  <2>1. \A d \in Conn : joined'[d] # 0 => stage'[d] = "playing" /\ joined'[d] > start'[d]
    BY <1>1, <1>2, <1>5 DEF Joins, Typed
  <2> QED
    BY <1>2, <2>1 DEF Joins
<1> QED
  BY <1>6, <1>7, <1>8, <1>9

LEMMA ReadInitialStep ==
  ASSUME IInv, NEW c \in Conn, ReadInitial(c)
  PROVE  IInv'
<1> USE DEF IInv
<1>1. /\ stage[c] = "greeted"
      /\ start' = [start EXCEPT ![c] = Head(data[c]).frame]
      /\ data' = [data EXCEPT ![c] = Tail(@)]
      /\ stage' = [stage EXCEPT ![c] = "joining"]
      /\ UNCHANGED <<conns, bootstraps, horizon, broadcast, final, joined, relayed, outgoing,
                     incoming, reply, kept>>
  BY DEF ReadInitial, hostVars, updaterVars
<1>2. data[c] \in Seq(Message) /\ data[c] # <<>> /\ Head(data[c]).kind = "initial"
  BY <1>1 DEF Typed, Mailbox
<1>3. /\ Head(data[c]) \in Message /\ Tail(data[c]) \in Seq(Message)
      /\ \A x \in ToSet(data[c]) : x = Head(data[c]) \/ x \in ToSet(Tail(data[c]))
  BY <1>2, TailKeeps
<1>4. stage'[c] = "joining" /\ data'[c] = Tail(data[c]) /\ start'[c] = Head(data[c]).frame
  BY <1>1 DEF Typed
<1>5. \A d \in Conn : d # c => stage'[d] = stage[d] /\ data'[d] = data[d] /\ start'[d] = start[d]
  BY <1>1 DEF Typed
<1>6. \A d \in Conn : Promised(d)' = Promised(d)
  BY <1>1, <1>4, <1>5 DEF Promised
<1>7. ToSet(conns) \subseteq Conn /\ ToSet(bootstraps) \subseteq Boot
  BY Members
<1>8. Typed'
  <2>1. data' \in [Conn -> Seq(Message)]
    BY <1>1, <1>3 DEF Typed
  <2>2. start' \in [Conn -> Nat] /\ stage' \in [Conn -> Stages]
    BY <1>1, <1>3 DEF Typed, Message, Stages
  <2> QED
    BY <1>1, <2>1, <2>2 DEF Typed
<1>9. BelowHorizon'
  BY <1>1 DEF BelowHorizon
<1>10. Registered'
  BY <1>1, <1>4, <1>5, <1>6, <1>7 DEF Registered, Boot
<1>11. Mailbox'
  <2> SUFFICES ASSUME NEW d \in Conn
               PROVE  /\ stage'[d] = "away" => data'[d] = <<>>
                      /\ stage'[d] = "greeted" =>
                           /\ data'[d] # <<>> /\ Head(data'[d]).kind = "initial"
                           /\ Tail(data'[d]) # <<>> => Promised(d)' <= final'
                      /\ stage'[d] = "joining" /\ data'[d] # <<>> => Promised(d)' <= final'
                      /\ reply'[d] = "ready" => stage'[d] = "playing" /\ start'[d] <= final'
    BY DEF Mailbox
  <2>1. CASE d = c
    <3>1. Tail(data[c]) # <<>> => Promised(c) <= final
      BY <1>1 DEF Mailbox
    <3>2. reply[c] # "ready"
      BY <1>1 DEF Mailbox
    <3> QED
      BY <1>1, <1>4, <1>6, <2>1, <3>1, <3>2
  <2>2. CASE d # c
    BY <1>1, <1>5, <1>6, <2>2 DEF Mailbox
  <2> QED
    BY <2>1, <2>2
<1>12. Awaited'
  BY <1>1, <1>4, <1>5, <1>6 DEF Awaited
<1>13. Joins'
  BY <1>1, <1>4, <1>5 DEF Joins
<1>14. PromiseKept'
  <2> SUFFICES ASSUME NEW d \in Conn, stage'[d] \in {"greeted", "joining"}
               PROVE  \/ final < Promised(d)
                      \/ [kind |-> "boot", frame |-> Promised(d)] \in ToSet(data'[d])
    BY <1>1, <1>6 DEF PromiseKept
  <2>1. CASE d = c
    <3>1. [kind |-> "boot", frame |-> Promised(c)] # Head(data[c])
      BY <1>2
    <3> QED
      BY <1>1, <1>3, <1>4, <2>1, <3>1 DEF PromiseKept
  <2>2. CASE d # c
    BY <1>5, <2>2 DEF PromiseKept
  <2> QED
    BY <2>1, <2>2
<1>15. NothingMissed'
  BY <1>1, <1>4, <1>5, <1>6, <1>7 DEF NothingMissed
<1> QED
  BY <1>8, <1>9, <1>10, <1>11, <1>12, <1>13, <1>14, <1>15

(* Collect and Receive: a bundle on its way to c is kept or is not for a   *)
(* frame after the client's first.                                         *)
LEMMA TakeStep ==
  ASSUME IInv, NEW c \in Conn, stage[c] \in {"joining", "playing"},
         NEW sent \in outgoing, sent[1] = c, outgoing' = outgoing \ {sent},
         \/ kept' = [kept EXCEPT ![c] = @ \cup {sent[2]}]
         \/ kept' = kept /\ ~(sent[2][2] > start[c]),
         UNCHANGED <<hostVars, updaterVars, relayed, incoming, data, reply, stage, start>>
  PROVE  IInv'
<1> USE DEF IInv, hostVars, updaterVars
<1>1. \A d : Promised(d)' = Promised(d)
  BY DEF Promised
<1>2. sent = <<c, sent[2]>> /\ sent[2] \in Bundle
  BY DEF Typed
<1>3. ToSet(conns) \subseteq Conn
  BY Members
<1>4. \A d \in Conn : kept[d] \subseteq kept'[d]
  BY DEF Typed
<1>5. Typed'
  <2>1. kept \in [Conn -> SUBSET Bundle]
    BY DEF Typed
  <2>2. kept[c] \cup {sent[2]} \in SUBSET Bundle
    BY <1>2, <2>1
  <2>3. kept' \in [Conn -> SUBSET Bundle]
    BY <2>1, <2>2
  <2> QED
    BY <2>3 DEF Typed
<1>6. BelowHorizon' /\ Registered' /\ Mailbox'
  BY <1>1 DEF BelowHorizon, Registered, Mailbox
<1>7. Awaited' /\ PromiseKept' /\ Joins'
  BY <1>1 DEF Awaited, PromiseKept, Joins
<1>8. NothingMissed'
  <2> SUFFICES ASSUME NEW d \in ToSet(conns), NEW bundle \in relayed,
                      bundle[1] # d, bundle[2] > Promised(d), stage[d] # "gone"
               PROVE  bundle \in kept'[d] \/ <<d, bundle>> \in outgoing'
    BY <1>1 DEF NothingMissed
  <2>1. CASE <<d, bundle>> = sent
    <3>1. d = c /\ bundle = sent[2] /\ Promised(c) = start[c]
      BY <1>2, <2>1 DEF Promised
    <3> QED
      BY <3>1 DEF Typed
  <2>2. CASE <<d, bundle>> # sent
    BY <1>3, <1>4, <2>2 DEF NothingMissed
  <2> QED
    BY <2>1, <2>2
<1> QED
  BY <1>5, <1>6, <1>7, <1>8

LEMMA CollectStep ==
  ASSUME IInv, NEW c \in Conn, Collect(c)
  PROVE  IInv'
<1>1. PICK sent \in outgoing :
        /\ sent[1] = c /\ outgoing' = outgoing \ {sent}
        /\ kept' = IF sent[2][2] > start[c] THEN [kept EXCEPT ![c] = @ \cup {sent[2]}] ELSE kept
  BY DEF Collect
<1> QED
  BY <1>1, TakeStep DEF Collect

LEMMA ReceiveStep ==
  ASSUME IInv, NEW c \in Conn, Receive(c)
  PROVE  IInv'
<1>1. PICK sent \in outgoing :
        /\ sent[1] = c /\ outgoing' = outgoing \ {sent}
        /\ kept' = [kept EXCEPT ![c] = @ \cup {sent[2]}]
  BY DEF Receive
<1> QED
  BY <1>1, TakeStep DEF Receive

(* ReadBoot and GiveUp: the client has its frame and answers.              *)
LEMMA AnswerStep ==
  ASSUME IInv, NEW c \in Conn, stage[c] = "joining", data[c] # <<>>,
         data' = [data EXCEPT ![c] = Tail(@)],
         \/ reply' = [reply EXCEPT ![c] = "ready"] /\ stage' = [stage EXCEPT ![c] = "playing"]
         \/ reply' = [reply EXCEPT ![c] = "bad"] /\ stage' = [stage EXCEPT ![c] = "gone"],
         UNCHANGED <<hostVars, updaterVars, relayed, outgoing, incoming, start, kept>>
  PROVE  IInv'
<1> USE DEF IInv, hostVars, updaterVars
<1>1. Tail(data[c]) \in Seq(Message)
  BY TailKeeps DEF Typed
<1>2. stage'[c] \in {"playing", "gone"}
  BY DEF Typed
<1>3. \A d \in Conn : d # c => stage'[d] = stage[d] /\ data'[d] = data[d] /\ reply'[d] = reply[d]
  BY DEF Typed
<1>4. \A d \in Conn : Promised(d)' = Promised(d)
  BY <1>2, <1>3 DEF Promised
<1>5. start[c] <= final
  BY DEF Mailbox, Promised
<1>6. reply'[c] = "ready" => stage'[c] = "playing"
  BY DEF Typed
<1>7. ToSet(conns) \subseteq Conn /\ ToSet(bootstraps) \subseteq Boot
  BY Members
<1>8. Typed'
  <2>1. data' \in [Conn -> Seq(Message)]
    BY <1>1 DEF Typed
  <2>2. stage' \in [Conn -> Stages] /\ reply' \in [Conn -> {"none", "ready", "bad"}]
    BY DEF Typed, Stages
  <2> QED
    BY <2>1, <2>2 DEF Typed
<1>9. BelowHorizon'
  BY DEF BelowHorizon
<1>10. Registered'
  BY <1>2, <1>3, <1>4, <1>7 DEF Registered, Boot
<1>11. Mailbox'
  <2> SUFFICES ASSUME NEW d \in Conn
               PROVE  /\ stage'[d] = "away" => data'[d] = <<>>
                      /\ stage'[d] = "greeted" =>
                           /\ data'[d] # <<>> /\ Head(data'[d]).kind = "initial"
                           /\ Tail(data'[d]) # <<>> => Promised(d)' <= final'
                      /\ stage'[d] = "joining" /\ data'[d] # <<>> => Promised(d)' <= final'
                      /\ reply'[d] = "ready" => stage'[d] = "playing" /\ start'[d] <= final'
    BY DEF Mailbox
  <2>1. CASE d = c
    BY <1>2, <1>5, <1>6, <2>1
  <2>2. CASE d # c
    BY <1>3, <1>4, <2>2 DEF Mailbox
  <2> QED
    BY <2>1, <2>2
<1>12. Awaited' /\ PromiseKept'
  BY <1>2, <1>3, <1>4 DEF Awaited, PromiseKept
<1>13. Joins'
  <2>1. \A d \in Conn : stage[d] = "playing" => stage'[d] = "playing"
    BY <1>3
  <2> QED
    BY <2>1 DEF Joins
<1>14. NothingMissed'
  BY <1>3, <1>4, <1>7 DEF NothingMissed
<1> QED
  BY <1>8, <1>9, <1>10, <1>11, <1>12, <1>13, <1>14

LEMMA PlayStep ==
  ASSUME IInv, NEW c \in Conn, Play(c)
  PROVE  IInv'
<1> USE DEF IInv
<1>1. PICK frame \in joined[c] .. MaxFrame : incoming' = incoming \cup {<<c, frame>>}
  BY DEF Play
<1>2. UNCHANGED <<conns, bootstraps, horizon, broadcast, final, joined, relayed, outgoing,
                  data, reply, stage, start, kept>>
  BY DEF Play, hostVars, updaterVars, clientVars
<1>3. \A d : Promised(d)' = Promised(d)
  BY <1>2 DEF Promised
<1>4. joined[c] \in Nat \ {0}
  <2>1. <<Host, joined[c]>> \in Bundle
    BY DEF Play, Typed
  <2> QED
    BY <2>1 DEF Bundle
<1>5. stage[c] = "playing" /\ joined[c] > start[c] /\ start[c] \in Nat
  BY <1>4 DEF Joins, Typed
<1>6. frame \in Nat \ {0} /\ frame > start[c]
  BY <1>4, <1>5, CommunicatorAssumption
<1>7. Typed'
  <2>1. <<c, frame>> \in Bundle
    BY <1>6 DEF Bundle
  <2> QED
    BY <1>1, <1>2, <2>1 DEF Typed
<1>8. BelowHorizon' /\ Registered' /\ Mailbox'
  BY <1>2, <1>3 DEF BelowHorizon, Registered, Mailbox
<1>9. Awaited' /\ PromiseKept' /\ NothingMissed'
  BY <1>2, <1>3 DEF Awaited, PromiseKept, NothingMissed
<1>10. Joins'
  BY <1>1, <1>2, <1>5, <1>6 DEF Joins
<1> QED
  BY <1>7, <1>8, <1>9, <1>10

LEMMA NextStep ==
  ASSUME IInv, [Next]_vars
  PROVE  IInv'
<1>1. CASE BroadcastBundle
  BY <1>1, BroadcastBundleStep
<1>2. CASE SendBootstrapFrame
  BY <1>2, SendBootstrapFrameStep
<1>3. CASE Shutdown \/ CloseConns \/ Finish
  BY <1>3, QuietStep DEF Shutdown, CloseConns, Finish, updaterVars, clientVars
<1>4. ASSUME NEW c \in Conn, HostStep(c)
      PROVE  IInv'
  <2>1. CASE Accept(c)
    BY <2>1, AcceptStep
  <2>2. CASE RelayBundle(c)
    BY <2>2, RelayBundleStep
  <2>3. CASE Welcome(c)
    BY <2>3, WelcomeStep
  <2>4. CASE BootstrapFails(c)
    BY <2>4, QuietStep DEF BootstrapFails, updaterVars, clientVars
  <2>5. CASE EndConn(c)
    BY <2>5, QuietStep DEF EndConn, updaterVars, clientVars
  <2> QED
    BY <1>4, <2>1, <2>2, <2>3, <2>4, <2>5 DEF HostStep
<1>5. ASSUME NEW c \in Conn, ClientStep(c)
      PROVE  IInv'
  <2>1. CASE ReadInitial(c)
    BY <2>1, ReadInitialStep
  <2>2. CASE Collect(c)
    BY <2>2, CollectStep
  <2>3. CASE ReadBoot(c)
    BY <2>3, AnswerStep DEF ReadBoot
  <2>4. CASE GiveUp(c)
    BY <2>4, AnswerStep DEF GiveUp
  <2>5. CASE Receive(c)
    BY <2>5, ReceiveStep
  <2>6. CASE Play(c)
    BY <2>6, PlayStep
  <2> QED
    BY <1>5, <2>1, <2>2, <2>3, <2>4, <2>5, <2>6 DEF ClientStep
<1>6. CASE UNCHANGED vars
  BY <1>6, QuietStep DEF vars, hostVars, updaterVars, clientVars
<1> QED
  BY <1>1, <1>2, <1>3, <1>4, <1>5, <1>6 DEF Next

-----------------------------------------------------------------------------
(* The invariant of routine(), its goroutines and the clients: what        *)
(* bootstraps, the data on each conn and horizon say of each other.        *)
THEOREM Invariance == Spec => []IInv
<1>1. Init => IInv
  BY InitIInv
<1>2. IInv /\ [Next]_vars => IInv'
  BY NextStep
<1> QED
  BY <1>1, <1>2, PTL DEF Spec

(* Every bundle after its first frame reaches a client or is on its way.   *)
THEOREM NothingIsMissed == Spec => []NothingMissed
<1>1. IInv => NothingMissed
  BY DEF IInv
<1> QED
  BY <1>1, Invariance, PTL

(* No client waits for a frame that Bootstrap_frames has already passed.   *)
THEOREM PromisesAreKept == Spec => []PromiseKept
<1>1. IInv => PromiseKept
  BY DEF IInv
<1> QED
  BY <1>1, Invariance, PTL

(* A client's EngineJoined event, and every bundle it issues, come after   *)
(* its first frame.                                                        *)
THEOREM NoneJoinsTooEarly == Spec => []JoinsAfterItsFrame
<1>1. IInv => JoinsAfterItsFrame
  BY DEF IInv, Joins, JoinsAfterItsFrame
<1> QED
  BY <1>1, Invariance, PTL

-----------------------------------------------------------------------------
(* The conns that are counted.                                             *)

(* The conns in active_conns: those whose goroutine has not counted them   *)
(* down, the ones whose bootstrapRoutine failed included.                  *)
Live == {c \in Conn : task[c] \in {"bootstrap", "conn", "failed"}}

Counting ==
  /\ routine \in {"select", "wait", "closed"} /\ stopping \in BOOLEAN
  /\ task \in [Conn -> Tasks] /\ closed \subseteq Conn
  /\ \A c \in Conn : stage[c] = "away" => task[c] = "none"
  /\ IsFiniteSet(Live) /\ active_conns = Cardinality(Live)
  /\ routine = "closed" => Live = {}

LEMMA CountingInit == Init => Counting
<1> SUFFICES ASSUME Init PROVE Counting
  OBVIOUS
<1>1. Live = {}
  BY DEF Init, Live
<1> QED
  BY <1>1, FS_EmptySet DEF Init, Counting, Tasks

LEMMA CountingStep == IInv /\ Counting /\ [Next]_vars => Counting'
<1> SUFFICES ASSUME IInv, Counting, [Next]_vars PROVE Counting'
  OBVIOUS
<1>1. conns \in Seq(Conn) /\ stage \in [Conn -> Stages]
  BY DEF IInv, Typed
<1>2. ToSet(conns) \subseteq Conn
  BY <1>1, InSet
<1>3. ASSUME UNCHANGED <<task, active_conns>>,
             routine' \in {"select", "wait"} \/ routine' = routine, stopping' \in BOOLEAN,
             closed' \subseteq Conn,
             \A c \in Conn : stage'[c] = "away" => stage[c] = "away"
      PROVE  Counting'
  BY <1>3 DEF Counting, Live
<1>4. CASE BroadcastBundle \/ SendBootstrapFrame \/ UNCHANGED vars
  BY <1>3, <1>4 DEF BroadcastBundle, SendBootstrapFrame, vars, hostVars, clientVars, Counting
<1>5. CASE Shutdown \/ CloseConns
  BY <1>2, <1>3, <1>5 DEF Shutdown, CloseConns, clientVars, Counting
<1>6. CASE Finish
  <2>1. Live = {}
    BY <1>6, FS_EmptySet DEF Finish, Counting
  <2> QED
    BY <1>6, <2>1 DEF Finish, clientVars, Counting, Live
<1>7. ASSUME NEW c \in Conn, Accept(c) PROVE Counting'
  <2>1. /\ task[c] = "none" /\ task' = [task EXCEPT ![c] = "bootstrap"]
        /\ active_conns' = active_conns + 1
        /\ routine = "select" /\ UNCHANGED <<routine, stopping, closed>>
        /\ stage' = [stage EXCEPT ![c] = "greeted"]
    BY <1>7 DEF Accept, Counting
  <2>2. Live' = Live \cup {c} /\ c \notin Live
    BY <2>1 DEF Live, Counting
  <2>3. IsFiniteSet(Live') /\ Cardinality(Live') = Cardinality(Live) + 1
    BY <2>2, FS_AddElement DEF Counting
  <2> QED
    BY <1>1, <2>1, <2>3 DEF Counting, Tasks
<1>8. ASSUME NEW c \in Conn, RelayBundle(c) PROVE Counting'
  BY <1>3, <1>8 DEF RelayBundle, clientVars, Counting
<1>9. ASSUME NEW c \in Conn, Welcome(c) \/ BootstrapFails(c) PROVE Counting'
  <2>1. /\ task[c] = "bootstrap" /\ UNCHANGED <<routine, stopping, active_conns, stage>>
        /\ \E next \in {"conn", "failed"} : task' = [task EXCEPT ![c] = next]
        /\ closed' \subseteq Conn
    BY <1>9 DEF Welcome, BootstrapFails, clientVars, Counting
  <2>2. Live' = Live
    BY <2>1 DEF Live, Counting
  <2> QED
    BY <2>1, <2>2 DEF Counting, Tasks
<1>10. ASSUME NEW c \in Conn, EndConn(c) PROVE Counting'
  <2>1. /\ task[c] = "conn" /\ task' = [task EXCEPT ![c] = "ended"]
        /\ active_conns' = active_conns - 1
        /\ UNCHANGED <<routine, stopping, closed, stage>>
    BY <1>10 DEF EndConn, clientVars
  <2>2. Live' = Live \ {c} /\ c \in Live
    BY <2>1 DEF Live, Counting
  <2>3. IsFiniteSet(Live') /\ Cardinality(Live') = Cardinality(Live) - 1
    BY <2>2, FS_RemoveElement DEF Counting
  <2>4. routine # "closed"
    BY <2>2 DEF Counting
  <2> QED
    BY <2>1, <2>3, <2>4 DEF Counting, Tasks
<1>11. ASSUME NEW c \in Conn, ClientStep(c) PROVE Counting'
  <2>1. UNCHANGED hostVars /\ \E next \in Stages \ {"away"} :
          stage' \in {stage, [stage EXCEPT ![c] = next]}
    BY <1>11 DEF ClientStep, ReadInitial, Collect, ReadBoot, GiveUp, Receive, Play, clientVars, Stages
  <2> QED
    BY <1>1, <1>3, <2>1 DEF hostVars, Counting
<1> QED
  BY <1>4, <1>5, <1>6, <1>7, <1>8, <1>9, <1>10, <1>11 DEF Next, HostStep

(* active_conns counts the conns that are served or whose bootstrapRoutine *)
(* failed: Done() never takes it below zero, which would panic, Wait()     *)
(* returns only when there are none, and there are none from then on.      *)
THEOREM ConnsAreCounted == Spec => []Counting
BY CountingInit, CountingStep, Invariance, PTL DEF Spec

(* All the state of the host and its clients keeps its type.               *)
THEOREM TypeCorrect == Spec => []TypeOK
<1>1. IInv /\ Counting => TypeOK
  <2> SUFFICES ASSUME IInv, Counting PROVE TypeOK
    OBVIOUS
  <2>1. active_conns \in Nat
    BY FS_CardinalityType DEF Counting
  <2> QED
    BY <2>1 DEF IInv, Typed, Counting, TypeOK
<1> QED
  BY <1>1, ConnsAreCounted, Invariance, PTL
=============================================================================
