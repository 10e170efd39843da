--------------------------- MODULE BundlerProofs ---------------------------
(***************************************************************************)
(* The updater gets every frame once and in order, and every event in one  *)
(* of them, whatever the ticks and the clock changes.                      *)
(***************************************************************************)
EXTENDS BundlerTicker, SharedLemmas

LEMMA FrameAtType == ASSUME NEW ms \in Int PROVE FrameAt(ms) \in Int
BY BundlerAssumption DEF FrameAt

LEMMA EventAppended ==
  ASSUME NEW events \in AllEvents, NEW event \in Event
  PROVE  [events EXCEPT !.game = Append(@, event)] \in AllEvents
<1>1. events.game \in Seq(Event)
  BY DEF AllEvents
<1>2. Append(events.game, event) \in Seq(Event)
  BY <1>1
<1> QED
  BY <1>2 DEF AllEvents

LEMMA EngineEventAppended ==
  ASSUME NEW events \in AllEvents, NEW event \in EngineEvent
  PROVE  [events EXCEPT !.engine = Append(@, event)] \in AllEvents
<1>1. events.engine \in Seq(EngineEvent)
  BY DEF AllEvents
<1>2. Append(events.engine, event) \in Seq(EngineEvent)
  BY <1>1
<1> QED
  BY <1>2 DEF AllEvents

LEMMA TypeInvariant == TypeOK /\ [Next]_vars => TypeOK'
<1> SUFFICES ASSUME TypeOK, [Next]_vars PROVE TypeOK'
  OBVIOUS
<1>1. ASSUME NEW event \in Event, AcceptEvent(event) PROVE TypeOK'
  <2>1. current' \in AllEvents /\ accepted' \in AllEvents
    BY <1>1, EventAppended DEF AcceptEvent, TypeOK
  <2> QED
    BY <1>1, <2>1 DEF AcceptEvent, TypeOK
<1>2. ASSUME NEW event \in EngineEvent, AcceptEngineEvent(event) PROVE TypeOK'
  <2>1. current' \in AllEvents /\ accepted' \in AllEvents
    BY <1>2, EngineEventAppended DEF AcceptEngineEvent, TypeOK
  <2> QED
    BY <1>2, <2>1 DEF AcceptEngineEvent, TypeOK
<1>3. CASE Tick
  BY <1>3 DEF Tick, TypeOK
<1>4. CASE Send
  <2>1. NoEvents \in AllEvents
    BY DEF NoEvents, AllEvents
  <2>2. [frame |-> current_frame, events |-> current] \in [frame : Int, events : AllEvents]
    BY DEF TypeOK
  <2> QED
    BY <1>4, <2>1, <2>2 DEF Send, TypeOK
<1>5. CASE AdjustClock
  BY <1>5, BundlerAssumption DEF AdjustClock, TypeOK
<1>6. CASE Shutdown
  BY <1>6 DEF Shutdown, TypeOK
<1>7. CASE Close
  BY <1>7 DEF Close, TypeOK
<1>8. CASE UNCHANGED vars
  BY <1>8 DEF vars, TypeOK
<1> QED
  BY <1>1, <1>2, <1>3, <1>4, <1>5, <1>6, <1>7, <1>8 DEF Next

(* The fields of the bundler keep their types.                             *)
THEOREM TypeCorrect == Spec => []TypeOK
<1>1. Init => TypeOK
  <2> SUFFICES ASSUME Init PROVE TypeOK
    OBVIOUS
  <2>1. NoEvents \in AllEvents
    BY DEF NoEvents, AllEvents
  <2>2. Start_ms \in Int /\ FrameAt(Start_ms) \in Int
    BY BundlerAssumption, FrameAtType
  <2>3. sent \in Seq([frame : Int, events : AllEvents])
    BY DEF Init
  <2>4. stopping \in BOOLEAN
    BY DEF Init
  <2> QED
    BY <2>1, <2>2, <2>3, <2>4 DEF Init, TypeOK
<1> QED
  BY <1>1, TypeInvariant, PTL DEF Spec

(* Bundle i is for frame i - 1 after the first, and the next one will be   *)
(* for the frame after the last: ticks that complete several frames, and   *)
(* clocks set forward or back, neither skip nor repeat one.                *)
THEOREM FramesInOrder == Spec => []FramesConsecutive
<1>1. Init => FramesConsecutive
  BY BundlerAssumption, FrameAtType DEF Init, FramesConsecutive
<1>2. TypeOK /\ FramesConsecutive /\ [Next]_vars => FramesConsecutive'
  <2> SUFFICES ASSUME TypeOK, FramesConsecutive, [Next]_vars PROVE FramesConsecutive'
    OBVIOUS
  <2>1. CASE UNCHANGED <<current_frame, sent>>
    BY <2>1 DEF FramesConsecutive
  <2>2. CASE Send
    <3>1. sent \in Seq([frame : Int, events : AllEvents]) /\ FrameAt(Start_ms) \in Int
      BY BundlerAssumption, FrameAtType DEF TypeOK
    <3>2. /\ sent' = Append(sent, [frame |-> current_frame, events |-> current])
          /\ current_frame' = current_frame + 1
      BY <2>2 DEF Send
    <3>3. current_frame' = FrameAt(Start_ms) + Len(sent')
      BY <3>1, <3>2 DEF FramesConsecutive
    <3>4. ASSUME NEW i \in DOMAIN sent' PROVE sent'[i].frame = FrameAt(Start_ms) + i - 1
      <4>1. CASE i \in DOMAIN sent
        BY <3>1, <3>2, <4>1 DEF FramesConsecutive
      <4>2. CASE i \notin DOMAIN sent
        <5>1. i = Len(sent) + 1 /\ sent'[i].frame = current_frame
          BY <3>1, <3>2, <4>2
        <5> QED
          BY <3>1, <5>1 DEF FramesConsecutive
      <4> QED
        BY <4>1, <4>2
    <3> QED
      BY <3>3, <3>4 DEF FramesConsecutive
  <2>3. Next => Send \/ UNCHANGED <<current_frame, sent>>
    BY DEF Next, AcceptEvent, AcceptEngineEvent, Tick, AdjustClock, Shutdown, Close
  <2> QED
    BY <2>1, <2>2, <2>3 DEF vars
<1> QED
  BY <1>1, <1>2, TypeCorrect, PTL DEF Spec

-----------------------------------------------------------------------------
(* No event is lost.                                                       *)

(* FlattenSeq of the community modules, unfolded.                          *)
LEMMA FlattenDef ==
  ASSUME NEW S, NEW s \in Seq(Seq(S)), s # <<>>
  PROVE  \E f : /\ FlattenSeq(s) = f[Len(s)]
                /\ \A i \in 1 .. Len(s) : f[i] = IF i = 1 THEN s[i] ELSE f[i - 1] \o s[i]
<1> DEFINE W == 1 .. Len(s)
           step(g, i) == IF i = 1 THEN s[i] ELSE g[i - 1] \o s[i]
           I == {n \in Nat : \E g : /\ g = [i \in W |-> g[i]]
                                    /\ \A i \in W : i <= n => g[i] = step(g, i)}
<1>1. 0 \in I
  <2> DEFINE g == [i \in W |-> s]
  <2>1. \A i \in W : i <= 0 => g[i] = step(g, i)
    OBVIOUS
  <2>2. g = [i \in W |-> g[i]]
    OBVIOUS
  <2> HIDE DEF g, step
  <2> QED
    BY <2>1, <2>2
<1>2. ASSUME NEW n \in Nat, n \in I PROVE n + 1 \in I
  <2>1. PICK g : /\ g = [i \in W |-> g[i]]
                 /\ \A i \in W : i <= n => g[i] = step(g, i)
    BY <1>2
  <2> DEFINE h == [i \in W |-> IF i = n + 1 THEN step(g, i) ELSE g[i]]
  <2>2. ASSUME NEW i \in W, i <= n + 1 PROVE h[i] = step(h, i)
    <3>1. i # 1 => i - 1 \in W /\ h[i - 1] = g[i - 1]
      BY <2>2
    <3>2. step(h, i) = step(g, i)
      BY <3>1
    <3>3. CASE i = n + 1
      BY <3>2, <3>3
    <3>4. CASE i # n + 1
      <4>1. i <= n
        BY <2>2, <3>4
      <4>2. g[i] = step(g, i) /\ h[i] = g[i]
        BY <2>1, <3>4, <4>1
      <4> QED
        BY <3>2, <4>2
    <3> QED
      BY <3>3, <3>4
  <2>3. h = [i \in W |-> h[i]]
    OBVIOUS
  <2> HIDE DEF h, step
  <2> QED
    BY <2>2, <2>3
<1>3. Nat \subseteq I
  <2> HIDE DEF I
  <2> QED
    BY <1>1, <1>2, SetInduction
<1>4. Len(s) \in Nat /\ Len(s) # 0
  OBVIOUS
<1>5. PICK g : /\ g = [i \in W |-> g[i]]
               /\ \A i \in W : i <= Len(s) => g[i] = step(g, i)
  BY <1>3, <1>4
<1>6. g = [i \in W |-> step(g, i)]
  <2> HIDE DEF step
  <2> QED
    BY <1>5
<1> DEFINE flatten == CHOOSE f : f = [i \in W |-> step(f, i)]
<1>7. flatten = [i \in W |-> step(flatten, i)]
  <2> HIDE DEF step
  <2> QED
    BY <1>6
<1>8. FlattenSeq(s) = flatten[Len(s)]
  BY <1>4 DEF FlattenSeq
<1>9. \A i \in W : flatten[i] = step(flatten, i)
  <2> HIDE DEF flatten, step
  <2> QED
    BY <1>7
<1> HIDE DEF flatten
<1> QED
  BY <1>8, <1>9

(* Flattening one sequence more appends it.                                *)
LEMMA FlattenAppend ==
  ASSUME NEW S, NEW s \in Seq(Seq(S)), NEW x \in Seq(S)
  PROVE  /\ FlattenSeq(s) \in Seq(S)
         /\ FlattenSeq(Append(s, x)) = FlattenSeq(s) \o x
<1> DEFINE t == Append(s, x)
<1>1. /\ t \in Seq(Seq(S)) /\ t # <<>> /\ Len(t) = Len(s) + 1 /\ Len(s) \in Nat
      /\ \A i \in 1 .. Len(s) : t[i] = s[i] /\ s[i] \in Seq(S)
      /\ t[Len(s) + 1] = x
  BY AppendProperties, ElementOfSeq
<1> HIDE DEF t
<1>2. PICK g : /\ FlattenSeq(t) = g[Len(t)]
               /\ \A i \in 1 .. Len(t) : g[i] = IF i = 1 THEN t[i] ELSE g[i - 1] \o t[i]
  BY <1>1, FlattenDef
<1>3. CASE s = <<>>
  <2>1. FlattenSeq(s) = <<>>
    BY <1>3 DEF FlattenSeq
  <2>2. FlattenSeq(t) = x
    BY <1>1, <1>2, <1>3
  <2> QED
    BY <2>1, <2>2, ConcatEmptySeq DEF t
<1>4. CASE s # <<>>
  <2>1. PICK f : /\ FlattenSeq(s) = f[Len(s)]
                 /\ \A i \in 1 .. Len(s) : f[i] = IF i = 1 THEN s[i] ELSE f[i - 1] \o s[i]
    BY <1>4, FlattenDef
  <2> DEFINE I == {n \in Nat : n + 1 \in 1 .. Len(s) =>
                                  f[n + 1] = g[n + 1] /\ f[n + 1] \in Seq(S)}
  <2>2. 0 \in I
    BY <1>1, <1>2, <2>1
  <2>3. ASSUME NEW n \in Nat, n \in I PROVE n + 1 \in I
    <3> SUFFICES ASSUME (n + 1) + 1 \in 1 .. Len(s)
                 PROVE  f[(n + 1) + 1] = g[(n + 1) + 1] /\ f[(n + 1) + 1] \in Seq(S)
      OBVIOUS
    <3> DEFINE i == (n + 1) + 1
    <3>1. i \in 1 .. Len(s) /\ i \in 1 .. Len(t) /\ i # 1 /\ i - 1 = n + 1 /\ n + 1 \in 1 .. Len(s)
      BY <1>1
    <3>2. f[i - 1] = g[i - 1] /\ f[i - 1] \in Seq(S)
      BY <2>3, <3>1
    <3> HIDE DEF i
    <3>3. f[i] = f[i - 1] \o s[i] /\ g[i] = g[i - 1] \o t[i] /\ t[i] = s[i] /\ s[i] \in Seq(S)
      BY <1>1, <1>2, <2>1, <3>1
    <3>4. f[i] = g[i] /\ f[i] \in Seq(S)
      BY <3>2, <3>3, ConcatProperties
    <3> QED
      BY <3>4 DEF i
  <2>4. Nat \subseteq I
    <3> HIDE DEF I
    <3> QED
      BY <2>2, <2>3, SetInduction
  <2>5. Len(s) - 1 \in Nat /\ (Len(s) - 1) + 1 = Len(s) /\ Len(s) \in 1 .. Len(s)
    BY <1>1, <1>4
  <2>6. f[Len(s)] = g[Len(s)] /\ f[Len(s)] \in Seq(S)
    BY <2>4, <2>5
  <2>7. g[Len(s) + 1] = g[Len(s)] \o x
    <3>1. Len(s) + 1 \in 1 .. Len(t) /\ Len(s) + 1 # 1 /\ (Len(s) + 1) - 1 = Len(s)
      BY <1>1, <2>5
    <3> QED
      BY <1>1, <1>2, <3>1
  <2> QED
    BY <1>1, <1>2, <2>1, <2>6, <2>7 DEF t
<1> QED
  BY <1>3, <1>4

LEMMA FieldTyped ==
  ASSUME NEW T, NEW bundles \in Seq([frame : Int, events : T]), NEW i \in 1 .. Len(bundles)
  PROVE  bundles[i].events \in T
<1>1. bundles[i] \in [frame : Int, events : T]
  BY ElementOfSeq
<1> QED
  BY <1>1

(* The events of one kind in the bundles sent.                             *)
Sent(kind) == [i \in DOMAIN sent |-> sent[i].events[kind]]

LEMMA SentAppended ==
  ASSUME NEW S, NEW kind \in {"game", "engine"}, sent \in Seq([frame : Int, events : AllEvents]),
         \A events \in AllEvents : events[kind] \in Seq(S),
         NEW frame \in Int, NEW events \in AllEvents,
         sent' = Append(sent, [frame |-> frame, events |-> events])
  PROVE  /\ Sent(kind) \in Seq(Seq(S))
         /\ Sent(kind)' = Append(Sent(kind), events[kind])
<1> DEFINE new == [frame |-> frame, events |-> events]
<1>1. new \in [frame : Int, events : AllEvents] /\ new.events = events
  BY Zenon
<1>2. /\ DOMAIN sent = 1 .. Len(sent) /\ Len(sent) \in Nat
      /\ \A i \in 1 .. Len(sent) : sent[i].events \in AllEvents
  BY FieldTyped
<1> HIDE DEF new
<1>3. /\ DOMAIN sent' = 1 .. Len(sent) + 1
      /\ \A i \in 1 .. Len(sent) : sent'[i] = sent[i]
      /\ sent'[Len(sent) + 1] = new
  BY <1>1 DEF new
<1>4. Sent(kind) = [i \in 1 .. Len(sent) |-> sent[i].events[kind]]
  BY <1>2 DEF Sent
<1>5. Sent(kind)' = [i \in 1 .. Len(sent) + 1 |-> sent'[i].events[kind]]
  BY <1>3 DEF Sent
<1>6. Sent(kind) \in Seq(Seq(S)) /\ Len(Sent(kind)) = Len(sent)
  BY <1>2, <1>4
<1>7. Append(Sent(kind), events[kind])
        = [i \in 1 .. Len(sent) + 1 |-> IF i = Len(sent) + 1 THEN events[kind] ELSE Sent(kind)[i]]
  BY <1>2, <1>4, <1>6
<1> QED
  BY <1>1, <1>2, <1>3, <1>4, <1>5, <1>6, <1>7

LEMMA SentTyped ==
  ASSUME NEW S, NEW kind \in {"game", "engine"}, sent \in Seq([frame : Int, events : AllEvents]),
         \A events \in AllEvents : events[kind] \in Seq(S)
  PROVE  Sent(kind) \in Seq(Seq(S))
<1>1. \A i \in 1 .. Len(sent) : sent[i].events \in AllEvents
  BY FieldTyped
<1>2. Sent(kind) = [i \in 1 .. Len(sent) |-> sent[i].events[kind]]
  BY DEF Sent
<1>3. \A i \in 1 .. Len(sent) : sent[i].events[kind] \in Seq(S)
  BY <1>1
<1>4. Len(sent) \in Nat
  OBVIOUS
<1> QED
  BY <1>2, <1>3, <1>4, IsASeq

(* One kind of events: what a step does to the bundles sent, the events    *)
(* still to be sent and the events taken.                                  *)
LEMMA KindConserved ==
  ASSUME TypeOK, NEW S, NEW kind \in {"game", "engine"},
         \A events \in AllEvents : events[kind] \in Seq(S),
         FlattenSeq(Sent(kind)) \o current[kind] = accepted[kind],
         \/ /\ UNCHANGED sent
            /\ \E event \in S : /\ current'[kind] = Append(current[kind], event)
                                /\ accepted'[kind] = Append(accepted[kind], event)
         \/ /\ UNCHANGED sent
            /\ current'[kind] = current[kind] /\ accepted'[kind] = accepted[kind]
         \/ /\ sent' = Append(sent, [frame |-> current_frame, events |-> current])
            /\ current'[kind] = <<>> /\ accepted'[kind] = accepted[kind]
  PROVE  FlattenSeq(Sent(kind)') \o current'[kind] = accepted'[kind]
<1> DEFINE flat == FlattenSeq(Sent(kind))
<1>1. current \in AllEvents /\ current[kind] \in Seq(S) /\ current_frame \in Int
      /\ sent \in Seq([frame : Int, events : AllEvents])
  BY DEF TypeOK
<1>2. Sent(kind) \in Seq(Seq(S))
  BY <1>1, SentTyped
<1>3. flat \in Seq(S)
  <2>1. <<>> \in Seq(S)
    OBVIOUS
  <2> QED
    BY <1>2, <2>1, FlattenAppend
<1>4. CASE UNCHANGED sent
  <2>1. Sent(kind)' = Sent(kind)
    BY <1>4 DEF Sent
  <2>2. CASE \E event \in S : /\ current'[kind] = Append(current[kind], event)
                             /\ accepted'[kind] = Append(accepted[kind], event)
    <3>1. PICK event \in S : /\ current'[kind] = Append(current[kind], event)
                             /\ accepted'[kind] = Append(accepted[kind], event)
      BY <2>2
    <3>2. /\ Append(current[kind], event) = current[kind] \o <<event>>
          /\ Append(flat \o current[kind], event) = (flat \o current[kind]) \o <<event>>
          /\ <<event>> \in Seq(S)
      <4>1. flat \o current[kind] \in Seq(S)
        BY <1>1, <1>3, ConcatProperties
      <4> QED
        BY <1>1, <4>1, AppendIsConcat
    <3>3. flat \o (current[kind] \o <<event>>) = (flat \o current[kind]) \o <<event>>
      <4>1. ASSUME NEW r \in Seq(S), NEW s \in Seq(S), NEW t \in Seq(S)
            PROVE  r \o (s \o t) = (r \o s) \o t
        BY ConcatAssociative
      <4> HIDE DEF flat
      <4> QED
        BY <1>1, <1>3, <3>2, <4>1
    <3> QED
      BY <2>1, <3>1, <3>2, <3>3
  <2>3. CASE current'[kind] = current[kind] /\ accepted'[kind] = accepted[kind]
    BY <2>1, <2>3
  <2>4. CASE sent' = Append(sent, [frame |-> current_frame, events |-> current])
    <3>1. Len(sent') = Len(sent) + 1 /\ Len(sent) \in Nat
      BY <1>1, <2>4
    <3> QED
      BY <1>4, <3>1
  <2> QED
    BY <2>2, <2>3, <2>4
<1>5. CASE /\ sent' = Append(sent, [frame |-> current_frame, events |-> current])
           /\ current'[kind] = <<>> /\ accepted'[kind] = accepted[kind]
  <2>1. Sent(kind)' = Append(Sent(kind), current[kind])
    BY <1>1, <1>5, SentAppended
  <2>2. FlattenSeq(Sent(kind)') = flat \o current[kind] /\ FlattenSeq(Sent(kind)') \in Seq(S)
    <3>1. FlattenSeq(Sent(kind)') = flat \o current[kind]
      BY <1>1, <1>2, <2>1, FlattenAppend
    <3> QED
      BY <1>1, <1>3, <3>1, ConcatProperties
  <2> QED
    BY <1>5, <2>2, ConcatEmptySeq
<1> QED
  BY <1>4, <1>5

(* Every event taken is in one bundle or still to be sent, in the order in *)
(* which the events arrived, whatever ticks and clock changes come between.*)
THEOREM NoEventLost == Spec => []EventsConserved
<1> DEFINE Conserved(kind) == FlattenSeq(Sent(kind)) \o current[kind] = accepted[kind]
<1>1. EventsConserved <=> Conserved("game") /\ Conserved("engine")
  BY DEF EventsConserved, Sent
<1>2. Init => EventsConserved
  <2> SUFFICES ASSUME Init PROVE EventsConserved
    OBVIOUS
  <2>1. DOMAIN sent = {} /\ current = NoEvents /\ accepted = NoEvents
    BY DEF Init
  <2>2. [i \in DOMAIN sent |-> sent[i].events.game] = <<>>
        /\ [i \in DOMAIN sent |-> sent[i].events.engine] = <<>>
    BY <2>1
  <2>3. FlattenSeq(<<>>) = <<>> /\ <<>> \o <<>> = <<>>
    BY DEF FlattenSeq
  <2> QED
    BY <2>1, <2>2, <2>3 DEF EventsConserved, NoEvents
<1>3. TypeOK /\ EventsConserved /\ [Next]_vars => EventsConserved'
  <2> SUFFICES ASSUME TypeOK, EventsConserved, [Next]_vars
               PROVE  Conserved("game")' /\ Conserved("engine")'
    BY DEF EventsConserved, Sent
  <2>1. \A events \in AllEvents : events["game"] \in Seq(Event) /\ events["engine"] \in Seq(EngineEvent)
    BY DEF AllEvents
  <2>2. /\ current \in AllEvents /\ accepted \in AllEvents
        /\ DOMAIN current = {"game", "engine"} /\ DOMAIN accepted = {"game", "engine"}
    BY DEF TypeOK, AllEvents
  <2> DEFINE Step(kind, S) ==
               \/ /\ UNCHANGED sent
                  /\ \E event \in S : /\ current'[kind] = Append(current[kind], event)
                                      /\ accepted'[kind] = Append(accepted[kind], event)
               \/ /\ UNCHANGED sent
                  /\ current'[kind] = current[kind] /\ accepted'[kind] = accepted[kind]
               \/ /\ sent' = Append(sent, [frame |-> current_frame, events |-> current])
                  /\ current'[kind] = <<>> /\ accepted'[kind] = accepted[kind]
  <2>3. Step("game", Event) /\ Step("engine", EngineEvent)
    <3>1. ASSUME NEW event \in Event, AcceptEvent(event)
          PROVE  Step("game", Event) /\ Step("engine", EngineEvent)
      BY <2>2, <3>1 DEF AcceptEvent
    <3>2. ASSUME NEW event \in EngineEvent, AcceptEngineEvent(event)
          PROVE  Step("game", Event) /\ Step("engine", EngineEvent)
      BY <2>2, <3>2 DEF AcceptEngineEvent
    <3>3. CASE Send
      BY <2>2, <3>3 DEF Send, NoEvents
    <3>4. CASE UNCHANGED <<sent, current, accepted>>
      BY <3>4
    <3>5. Tick \/ AdjustClock \/ Shutdown \/ Close \/ UNCHANGED vars
            => UNCHANGED <<sent, current, accepted>>
      BY DEF Tick, AdjustClock, Shutdown, Close, vars
    <3> QED
      BY <3>1, <3>2, <3>3, <3>4, <3>5 DEF Next
  <2>4. Conserved("game")'
    BY <1>1, <2>1, <2>3, KindConserved
  <2>5. Conserved("engine")'
    BY <1>1, <2>1, <2>3, KindConserved
  <2> QED
    BY <2>4, <2>5
<1> QED
  BY <1>2, <1>3, TypeCorrect, PTL DEF Spec

-----------------------------------------------------------------------------
(* With its ticker the Bundler is still a Bundler: what is proved above    *)
(* holds however ticks are dropped, late or at an end.                     *)
THEOREM TickedBundlerIsBundler == TickerSpec => Spec
<1>1. TickerInit => Init
  BY DEF TickerInit
<1>2. [TickerNext]_allVars => [Next]_vars
  BY DEF TickerNext, allVars, Next, Fire, Stop, Begin, Forward, TakeTick, BundlerStep
<1> QED
  BY <1>1, <1>2, PTL DEF TickerSpec, Spec

(* What is on its way of a stopped ticker counts towards its late ticks.   *)
OnTheWay == (IF buffered THEN 1 ELSE 0) + (IF forwarding THEN 1 ELSE 0)
LateInv ==
  /\ late \in Nat
  /\ late + OnTheWay <= 2
  /\ ticker = "running" => late = 0

(* Of a stopped ticker two ticks at most still reach the clock.            *)
THEOREM AtMostTwoLateTicks == TickerSpec => []TwoLateTicks
<1>1. TickerInit => LateInv
  BY DEF TickerInit, LateInv, OnTheWay
<1>2. LateInv /\ [TickerNext]_allVars => LateInv'
  <2> SUFFICES ASSUME LateInv, [TickerNext]_allVars PROVE LateInv'
    OBVIOUS
  <2> USE DEF LateInv, OnTheWay
  <2>1. CASE Fire
    BY <2>1 DEF Fire
  <2>2. CASE Stop
    BY <2>2 DEF Stop
  <2>3. CASE Begin
    BY <2>3 DEF Begin
  <2>4. CASE Forward
    BY <2>4 DEF Forward
  <2>5. CASE TakeTick
    BY <2>5 DEF TakeTick
  <2>6. CASE BundlerStep
    BY <2>6 DEF BundlerStep, tickerVars
  <2>7. CASE UNCHANGED allVars
    BY <2>7 DEF allVars, tickerVars
  <2> QED
    BY <2>1, <2>2, <2>3, <2>4, <2>5, <2>6, <2>7 DEF TickerNext
<1>3. LateInv => TwoLateTicks
  BY DEF LateInv, OnTheWay, TwoLateTicks
<1> QED
  BY <1>1, <1>2, <1>3, PTL DEF TickerSpec
=============================================================================
