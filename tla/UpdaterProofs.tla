---------------------------- MODULE UpdaterProofs ----------------------------
(***************************************************************************)
(* Updater implements FinalLog, for every session, window size and order   *)
(* of delivery; and while it does not panic, its window holds what it      *)
(* should and its callers are told what they should.                       *)
(*                                                                         *)
(* IInv says what routine() relies on between two handlers (Steady) and    *)
(* inside one, before advance() has caught up (Ready): below the oldest    *)
(* dirty frame every frame of the window follows from the one before it,   *)
(* above it anything goes.  An operator that runs before advance() keeps   *)
(* Ready, and advance() turns Ready into Steady.  On top of it:            *)
(*                                                                         *)
(*   WindowInv  the bundles in the window are the ones received, if a      *)
(*              joining client's clock is Punctual;                        *)
(*   CallsInv   who waits for a final state is queued, and the reverse;    *)
(*   PaceInv    no handler reaches outside the window, if all engines of   *)
(*              the session are InPace;                                    *)
(*   SupplyInv, FastInv                                                    *)
(*              what an updater whose bundles come FromTheStart of the     *)
(*              session tells those who ask for its fast states;           *)
(*   PassInv    who waits for a fast state is queued, once;                *)
(*   TypesInv   the types that IInv leaves open.                           *)
(*                                                                         *)
(* The last section is about FinalLog by itself.                           *)
(***************************************************************************)
EXTENDS Updater, SharedLemmas, FiniteSetTheorems

USE MaxFramesAssumption

-----------------------------------------------------------------------------
(* A bundle that is still incomplete already decides the outcome of its    *)
(* frame once every engine known there is in it.                           *)

(* fb holds some of the bundles of all.                                    *)
SubBundle(fb, all) ==
  /\ DOMAIN fb \subseteq DOMAIN all
  /\ \A id \in DOMAIN fb : fb[id] = all[id]

(* Every engine whose bundle is in all but not in fb is outside engines    *)
(* and sent no engine events.                                              *)
NothingMissing(fb, all, engines) ==
  \A id \in DOMAIN all \ DOMAIN fb : id \notin engines /\ all[id].engine = <<>>

LEMMA SamePlaces ==
  ASSUME NEW fb, NEW all, SubBundle(fb, all),
         \A id \in DOMAIN all \ DOMAIN fb : all[id].engine = <<>>,
         NEW e
  PROVE  Places(fb, e) = Places(all, e)
<1>1. ASSUME NEW p \in Places(fb, e) PROVE p \in Places(all, e)
  BY <1>1 DEF SubBundle, Places
<1>2. ASSUME NEW p \in Places(all, e) PROVE p \in Places(fb, e)
  <2>1. PICK id \in DOMAIN all : p \in {id} \X DOMAIN all[id].engine
    BY <1>2 DEF Places
  <2>2. all[p[1]].engine[p[2]] = e /\ p[1] = id /\ p[2] \in DOMAIN all[id].engine
    BY <1>2, <2>1 DEF Places
  <2>3. id \in DOMAIN fb
    <3>1. ASSUME all[id].engine = <<>> PROVE DOMAIN all[id].engine = {}
      BY <3>1
    <3> QED
      BY <2>2, <3>1
  <2>4. fb[id] = all[id]
    BY <2>3 DEF SubBundle
  <2> QED
    BY <2>1, <2>2, <2>3, <2>4 DEF Places
<1> QED
  BY <1>1, <1>2

(* Bundles that nobody known on the frame has sent, and that carry no      *)
(* engine events, change neither the engines nor the game of the frame.    *)
LEMMA LateBundlesChangeNothing ==
  ASSUME NEW fb, NEW all, NEW info, NEW game, SubBundle(fb, all),
         NothingMissing(fb, all, ApplyEngineEvents(info, fb))
  PROVE  LET engines == ApplyEngineEvents(info, fb)
         IN  /\ ApplyEngineEvents(info, all) = engines
             /\ ApplyAndThink(game, engines, all) = ApplyAndThink(game, engines, fb)
<1> DEFINE engines == ApplyEngineEvents(info, fb)
<1>1. ApplyEngineEvents(info, all) = engines
  <2>1. \A e : Places(fb, e) = Places(all, e)
    BY SamePlaces DEF NothingMissing
  <2> QED
    BY <2>1 DEF ApplyEngineEvents
<1>2. [id \in DOMAIN all \cap engines |-> all[id].game]
        = [id \in DOMAIN fb \cap engines |-> fb[id].game]
  <2>1. DOMAIN all \cap engines = DOMAIN fb \cap engines
    BY DEF SubBundle, NothingMissing
  <2>2. \A id \in DOMAIN fb \cap engines : all[id].game = fb[id].game
    BY DEF SubBundle
  <2> HIDE DEF engines
  <2> QED
    BY <2>1, <2>2
<1> QED
  BY <1>1, <1>2 DEF ApplyAndThink

(* An engine nobody drops stays known.                                     *)
LEMMA StaysKnown ==
  ASSUME NEW info, NEW fb, NEW id \in EngineId, id \in info,
         Places(fb, EngineDropped(id)) = {}
  PROVE  id \in ApplyEngineEvents(info, fb)
BY DEF ApplyEngineEvents

-----------------------------------------------------------------------------
(* The updater's fields.                                                   *)

LEMMA Constants ==
  /\ BaseFrame \in Nat /\ MaxFrame \in Nat /\ FirstTick \in Nat /\ BaseFrame < MaxFrame
  /\ Host \in EngineId /\ Self \in EngineId /\ Host \in Founders
  /\ Founders \subseteq EngineId /\ Host \notin Droppable
BY ConfigAssumption

UpdaterFields ==
  {"id", "first", "data", "local_frame", "global_frame", "oldest_dirty_frame",
   "skip_to_frame", "final_requests", "fast_requests", "bootstrap_frames", "panicked"}
SlotFields == {"info", "game", "bundle", "made"}

Shape(v) ==
  /\ DOMAIN v = UpdaterFields /\ v.id = Self
  /\ v.first \in Nat /\ v.global_frame \in Nat /\ v.oldest_dirty_frame \in Nat
  /\ v.skip_to_frame \in Int
  /\ BaseFrame <= v.first /\ v.first <= v.global_frame
  /\ v.global_frame <= v.first + Max_frames /\ v.global_frame <= MaxFrame
  /\ DOMAIN v.data = Window(v.first)
  /\ \A f \in Window(v.first) : DOMAIN v.data[f] = SlotFields
  /\ DOMAIN v.bootstrap_frames = BaseFrame .. v.first

(* The state of a frame is the one before it with its bundle applied.      *)
Linked(data, f) == data[f] = ThinkFrame(data[f - 1], data[f])

Ready(v, all) ==
  /\ Shape(v) /\ ~v.panicked
  /\ v.first < v.oldest_dirty_frame /\ v.oldest_dirty_frame <= v.global_frame + 1
  /\ v.data[v.first].info = v.bootstrap_frames[v.first].info
  /\ v.data[v.first].game = v.bootstrap_frames[v.first].game
  /\ \A f \in v.first + 1 .. v.global_frame : SubBundle(v.data[f].bundle, all[f])
  /\ \A f \in v.first + 1 .. v.oldest_dirty_frame - 1 : Placeholder(v, f) \/ Linked(v.data, f)
  /\ \A f \in v.first .. v.oldest_dirty_frame - 1 : Host \in v.data[f].info

Steady(v, all) == Ready(v, all) /\ v.oldest_dirty_frame = v.global_frame + 1

(* Only the host's bundles carry engine events, and none drops the host or *)
(* this engine.                                                            *)
Spares(events) ==
  \A i \in DOMAIN events.engine :
    events.engine[i] # EngineDropped(Host) /\ events.engine[i] # EngineDropped(Self)
HostRules(all) ==
  \A f \in Frames : \A id \in DOMAIN all[f] :
    /\ id # Host => all[f][id].engine = <<>>
    /\ Spares(all[f][id])

(* The state a log holds for a frame is the outcome of the frame's bundles,*)
(* and no engine known on it, the host among them, is missing from them.   *)
Settled(log, f, bundle) ==
  LET engines == ApplyEngineEvents(log[f - 1].info, bundle)
  IN  /\ log[f] = [info |-> engines, game |-> ApplyAndThink(log[f - 1].game, engines, bundle)]
      /\ engines \subseteq DOMAIN bundle /\ Host \in engines

(* w has sent the final states of v and the outcomes of the frames since.  *)
Extends(v, w, all) ==
  /\ v.first <= w.first
  /\ \A f \in BaseFrame .. v.first : w.bootstrap_frames[f] = v.bootstrap_frames[f]
  /\ \A f \in v.first + 1 .. w.first : Settled(w.bootstrap_frames, f, all[f])

(* The window holds what has been received, no more and no less; got maps  *)
(* each frame of the session to the bundle of it.                          *)
Holds(v, got) ==
  /\ DOMAIN got = Frames
  /\ \A f \in v.first + 1 .. v.global_frame : v.data[f].made /\ v.data[f].bundle = got[f]
  /\ \A f \in Frames : f > v.global_frame => got[f] = EmptyBundle

(* The second frame of the window lacks a bundle.                          *)
Waits(v) == v.first < v.global_frame => ~Complete(v.data[v.first + 1])

(* What is received with one bundle more, and with one for each of several *)
(* frames.                                                                 *)
Plus(got, fb) ==
  [f \in DOMAIN got |-> IF f = fb.frame THEN Absorb(got[f], fb.bundle) ELSE got[f]]
PlusAll(got, sent) ==
  [f \in DOMAIN got |-> IF f \in DOMAIN sent THEN Absorb(got[f], sent[f]) ELSE got[f]]

(* advance() leaves the bundles of the frames that stay in the window, and *)
(* takes its passes over the final requests.                               *)
Advanced(v, w) ==
  /\ w.global_frame = v.global_frame
  /\ \A f \in w.first .. v.global_frame :
       w.data[f].bundle = v.data[f].bundle /\ w.data[f].made = v.data[f].made
  /\ w.final_requests = ServedUpTo(v.final_requests, v.first, w.first)
  /\ Waits(w)

-----------------------------------------------------------------------------
(* Recursive definitions.                                                  *)

LEMMA RethinkDef ==
  ASSUME NEW v, v.first \in Nat, v.global_frame \in Nat,
         v.oldest_dirty_frame \in Nat, v.first < v.oldest_dirty_frame
  PROVE  Rethink(v) = [f \in Window(v.first) |->
            IF f \in v.oldest_dirty_frame .. v.global_frame
              THEN ThinkFrame(Rethink(v)[f - 1], v.data[f])
              ELSE v.data[f]]
<1> DEFINE W == Window(v.first)
           step(g, f) == IF f \in v.oldest_dirty_frame .. v.global_frame
                           THEN ThinkFrame(g[f - 1], v.data[f]) ELSE v.data[f]
           S == {n \in Nat : \E g : /\ g = [f \in W |-> g[f]]
                                    /\ \A f \in W : f <= v.first + n => g[f] = step(g, f)}
<1>1. 0 \in S
  <2> DEFINE g == [f \in W |-> v.data[f]]
  <2>1. \A f \in W : f <= v.first + 0 => g[f] = step(g, f)
    BY DEF Window
  <2>2. g = [f \in W |-> g[f]]
    OBVIOUS
  <2> HIDE DEF g, step
  <2> QED
    BY <2>1, <2>2
<1>2. ASSUME NEW n \in Nat, n \in S PROVE n + 1 \in S
  <2>1. PICK g : /\ g = [f \in W |-> g[f]]
                 /\ \A f \in W : f <= v.first + n => g[f] = step(g, f)
    BY <1>2
  <2> DEFINE h == [f \in W |-> IF f = v.first + (n + 1) THEN step(g, f) ELSE g[f]]
  <2>2. ASSUME NEW f \in W, f <= v.first + (n + 1) PROVE h[f] = step(h, f)
    <3>1. f \in Nat /\ f >= v.first
      BY DEF Window
    <3>2. f - 1 \in W => h[f - 1] = g[f - 1]
      BY <2>2, <3>1
    <3>3. f \in v.oldest_dirty_frame .. v.global_frame => f - 1 \in W
      BY <3>1, f \in v.first .. v.first + Max_frames DEF Window
    <3>4. step(h, f) = step(g, f)
      BY <3>2, <3>3
    <3>5. CASE f = v.first + (n + 1)
      BY <3>4, <3>5
    <3>6. CASE f # v.first + (n + 1)
      <4>1. f <= v.first + n
        BY <2>2, <3>1, <3>6
      <4> QED
        BY <2>1, <3>4, <3>6, <4>1
    <3> QED
      BY <3>5, <3>6
  <2>3. h = [f \in W |-> h[f]]
    OBVIOUS
  <2> HIDE DEF h, step
  <2> QED
    BY <2>2, <2>3
<1>3. Nat \subseteq S
  <2> HIDE DEF S
  <2> QED
    BY <1>1, <1>2, SetInduction
<1>4. PICK g : /\ g = [f \in W |-> g[f]]
               /\ \A f \in W : f <= v.first + Max_frames => g[f] = step(g, f)
  BY <1>3
<1>5. \A f \in W : f <= v.first + Max_frames
  BY DEF Window
<1>6. g = [f \in W |-> step(g, f)]
  <2> HIDE DEF step
  <2> QED
    BY <1>4, <1>5
<1> QED
  BY <1>6 DEF Rethink

LEMMA AbsorbGroupDef ==
  ASSUME NEW v, NEW group, Len(group) \in Nat
  PROVE  AbsorbGroup(v, group) = [i \in 0 .. Len(group) |->
            IF i = 0 THEN v ELSE AbsorbRemote(AbsorbGroup(v, group)[i - 1], group[i])]
<1> DEFINE W == 0 .. Len(group)
           step(g, i) == IF i = 0 THEN v ELSE AbsorbRemote(g[i - 1], group[i])
           S == {n \in Nat : \E g : /\ g = [i \in W |-> g[i]]
                                    /\ \A i \in W : i <= n => g[i] = step(g, i)}
<1>1. 0 \in S
  <2> DEFINE g == [i \in W |-> v]
  <2>1. \A i \in W : i <= 0 => g[i] = step(g, i)
    OBVIOUS
  <2>2. g = [i \in W |-> g[i]]
    OBVIOUS
  <2> HIDE DEF g, step
  <2> QED
    BY <2>1, <2>2
<1>2. ASSUME NEW n \in Nat, n \in S PROVE n + 1 \in S
  <2>1. PICK g : /\ g = [i \in W |-> g[i]]
                 /\ \A i \in W : i <= n => g[i] = step(g, i)
    BY <1>2
  <2> DEFINE h == [i \in W |-> IF i = n + 1 THEN step(g, i) ELSE g[i]]
  <2>2. ASSUME NEW i \in W, i <= n + 1 PROVE h[i] = step(h, i)
    <3>1. i # 0 => i - 1 \in W /\ h[i - 1] = g[i - 1]
      BY <2>2
    <3>2. step(h, i) = step(g, i)
      BY <3>1
    <3>3. CASE i = n + 1
      BY <3>2, <3>3
    <3>4. CASE i # n + 1
      <4>1. i <= n
        BY <2>2, <3>4
      <4>2. g[i] = step(g, i) /\ h[i] = g[i]
        BY <2>1, <3>4, <4>1
      <4> QED
        BY <3>2, <4>2
    <3> QED
      BY <3>3, <3>4
  <2>3. h = [i \in W |-> h[i]]
    OBVIOUS
  <2> HIDE DEF h, step
  <2> QED
    BY <2>2, <2>3
<1>3. Nat \subseteq S
  <2> HIDE DEF S
  <2> QED
    BY <1>1, <1>2, SetInduction
<1>4. PICK g : /\ g = [i \in W |-> g[i]]
               /\ \A i \in W : i <= Len(group) => g[i] = step(g, i)
  BY <1>3
<1>5. g = [i \in W |-> step(g, i)]
  <2> HIDE DEF step
  <2> QED
    BY <1>4
<1> QED
  BY <1>5 DEF AbsorbGroup

(* The loop that advances the window stops somewhere, and no earlier than  *)
(* it has to.                                                              *)
LEMMA NewStartDef ==
  ASSUME NEW v, NEW data, v.first \in Nat, v.global_frame \in Nat, v.first <= v.global_frame
  PROVE  /\ NewStart(v, data) \in v.first .. v.global_frame
         /\ \A f \in v.first + 1 .. NewStart(v, data) : Complete(data[f])
         /\ NewStart(v, data) < v.global_frame => ~Complete(data[NewStart(v, data) + 1])
<1> DEFINE Prefix(n) == \A f \in v.first + 1 .. n : Complete(data[f])
           Stop(n) == Prefix(n) /\ (n < v.global_frame => ~Complete(data[n + 1]))
<1>1. \E n \in v.first .. v.global_frame : Stop(n)
  <2> SUFFICES ASSUME \A n \in v.first .. v.global_frame : ~Stop(n) PROVE FALSE
    OBVIOUS
  <2> DEFINE S == {k \in Nat : v.first + k <= v.global_frame => Prefix(v.first + k)}
  <2>1. 0 \in S
    OBVIOUS
  <2>2. ASSUME NEW k \in Nat, k \in S PROVE k + 1 \in S
    <3> SUFFICES ASSUME v.first + (k + 1) <= v.global_frame PROVE Prefix(v.first + (k + 1))
      OBVIOUS
    <3>1. v.first + k \in v.first .. v.global_frame /\ v.first + k < v.global_frame
      OBVIOUS
    <3>2. Prefix(v.first + k)
      BY <2>2, <3>1
    <3>3. Complete(data[(v.first + k) + 1])
      BY <3>1, <3>2
    <3>4. \A f \in v.first + 1 .. v.first + (k + 1) :
            f \in v.first + 1 .. v.first + k \/ f = (v.first + k) + 1
      OBVIOUS
    <3> QED
      BY <3>2, <3>3, <3>4
  <2>3. Nat \subseteq S
    <3> HIDE DEF S
    <3> QED
      BY <2>1, <2>2, SetInduction
  <2>4. v.global_frame - v.first \in S
    BY <2>3
  <2>5. Prefix(v.global_frame)
    BY <2>4
  <2> QED
    BY <2>5
<1> HIDE DEF Stop
<1>2. NewStart(v, data) = CHOOSE n \in v.first .. v.global_frame : Stop(n)
  BY DEF NewStart, Stop
<1>3. NewStart(v, data) \in v.first .. v.global_frame /\ Stop(NewStart(v, data))
  BY <1>1, <1>2
<1> QED
  BY <1>3 DEF Stop

-----------------------------------------------------------------------------
(* The queues of requests.                                                 *)

Asked(requests, r) == \E i \in DOMAIN requests : requests[i] = r

(* A step of the loop takes out no request but one for the frame, and puts *)
(* none in.                                                                *)
LEMMA ServeKeeps ==
  ASSUME NEW R, NEW left \in Seq(R), NEW i \in Nat, i # 0, NEW frame
  PROVE  /\ Serve(left, i, frame) \in Seq(R)
         /\ \A r : Asked(left, r) /\ r.frame # frame => Asked(Serve(left, i, frame), r)
         /\ \A r : Asked(Serve(left, i, frame), r) => Asked(left, r)
<1> DEFINE n == Len(left)
           w == Serve(left, i, frame)
<1>0. n \in Nat /\ DOMAIN left = 1 .. n /\ left \in [1 .. n -> R]
  OBVIOUS
<1>1. CASE ~(i <= n /\ left[i].frame = frame)
  BY <1>1 DEF Serve
<1>2. CASE i <= n /\ left[i].frame = frame
  <2> DEFINE moved == [left EXCEPT ![i] = left[n]]
  <2>1. /\ moved \in Seq(R) /\ Len(moved) = n
        /\ \A k \in 1 .. n : moved[k] = IF k = i THEN left[n] ELSE left[k]
    <3>1. n \in 1 .. n /\ i \in 1 .. n
      BY <1>0, <1>2
    <3> QED
      BY <1>0, <3>1
  <2>2. w = SubSeq(moved, 1, n - 1)
    BY <1>2 DEF Serve, Last
  <2> HIDE DEF moved
  <2>3. /\ w \in Seq(R) /\ DOMAIN w = 1 .. n - 1
        /\ \A k \in 1 .. n - 1 : w[k] = moved[k]
    BY <1>0, <2>1, <2>2
  <2> HIDE DEF w, n
  <2>4. ASSUME NEW r, Asked(left, r), r.frame # frame PROVE Asked(w, r)
    <3>1. PICK k \in 1 .. n : left[k] = r
      BY <1>0, <2>4 DEF Asked
    <3>2. k # i
      BY <1>2, <2>4, <3>1
    <3>3. CASE k < n
      <4>1. k \in DOMAIN w /\ w[k] = r
        BY <1>0, <2>1, <2>3, <3>1, <3>2, <3>3
      <4> QED
        BY <4>1 DEF Asked
    <3>4. CASE k = n
      <4>0. i \in 1 .. n - 1 /\ i \in 1 .. n
        BY <1>0, <1>2, <3>2, <3>4
      <4>1. i \in DOMAIN w /\ w[i] = r
        BY <2>1, <2>3, <3>1, <3>4, <4>0
      <4> QED
        BY <4>1 DEF Asked
    <3> QED
      BY <1>0, <3>3, <3>4
  <2>5. ASSUME NEW r, Asked(w, r) PROVE Asked(left, r)
    <3>1. PICK k \in 1 .. n - 1 : w[k] = r
      BY <2>3, <2>5 DEF Asked
    <3>2. k \in 1 .. n /\ n \in 1 .. n
      BY <1>0
    <3>3. r = left[n] \/ r = left[k]
      BY <2>1, <2>3, <3>1, <3>2
    <3> QED
      BY <1>0, <3>2, <3>3 DEF Asked
  <2> QED
    BY <2>3, <2>4, <2>5 DEF w
<1> QED
  BY <1>1, <1>2

LEMMA UnservedDef ==
  ASSUME NEW requests, NEW frame, Len(requests) \in Nat
  PROVE  \E g : /\ g = [i \in 0 .. Len(requests) |->
                          IF i = 0 THEN requests ELSE Serve(g[i - 1], i, frame)]
                /\ Unserved(requests, frame) = g[Len(requests)]
<1> DEFINE W == 0 .. Len(requests)
           step(g, i) == IF i = 0 THEN requests ELSE Serve(g[i - 1], i, frame)
           S == {n \in Nat : \E g : /\ g = [i \in W |-> g[i]]
                                    /\ \A i \in W : i <= n => g[i] = step(g, i)}
<1>1. 0 \in S
  <2> DEFINE g == [i \in W |-> requests]
  <2>1. \A i \in W : i <= 0 => g[i] = step(g, i)
    OBVIOUS
  <2>2. g = [i \in W |-> g[i]]
    OBVIOUS
  <2> HIDE DEF g, step
  <2> QED
    BY <2>1, <2>2
<1>2. ASSUME NEW n \in Nat, n \in S PROVE n + 1 \in S
  <2>1. PICK g : /\ g = [i \in W |-> g[i]]
                 /\ \A i \in W : i <= n => g[i] = step(g, i)
    BY <1>2
  <2> DEFINE h == [i \in W |-> IF i = n + 1 THEN step(g, i) ELSE g[i]]
  <2>2. ASSUME NEW i \in W, i <= n + 1 PROVE h[i] = step(h, i)
    <3>1. i # 0 => i - 1 \in W /\ h[i - 1] = g[i - 1]
      BY <2>2
    <3>2. step(h, i) = step(g, i)
      BY <3>1
    <3>3. CASE i = n + 1
      BY <3>2, <3>3
    <3>4. CASE i # n + 1
      <4>1. i <= n
        BY <2>2, <3>4
      <4>2. g[i] = step(g, i) /\ h[i] = g[i]
        BY <2>1, <3>4, <4>1
      <4> QED
        BY <3>2, <4>2
    <3> QED
      BY <3>3, <3>4
  <2>3. h = [i \in W |-> h[i]]
    OBVIOUS
  <2> HIDE DEF h, step
  <2> QED
    BY <2>2, <2>3
<1>3. Nat \subseteq S
  <2> HIDE DEF S
  <2> QED
    BY <1>1, <1>2, SetInduction
<1>4. \E g : g = [i \in W |-> step(g, i)]
  <2>1. PICK g : /\ g = [i \in W |-> g[i]]
                 /\ \A i \in W : i <= Len(requests) => g[i] = step(g, i)
    BY <1>3
  <2> HIDE DEF step
  <2>2. g = [i \in W |-> step(g, i)]
    BY <2>1
  <2> QED
    BY <2>2
<1> DEFINE left == CHOOSE g : g = [i \in W |-> step(g, i)]
<1>5. Unserved(requests, frame) = left[Len(requests)]
  BY DEF Unserved
<1>6. left = [i \in W |-> step(left, i)]
  <2> HIDE DEF step
  <2> QED
    BY <1>4
<1> HIDE DEF left
<1> QED
  BY <1>5, <1>6

LEMMA UnservedKeeps ==
  ASSUME NEW R, NEW requests \in Seq(R), NEW frame
  PROVE  /\ Unserved(requests, frame) \in Seq(R)
         /\ \A r : Asked(requests, r) /\ r.frame # frame => Asked(Unserved(requests, frame), r)
         /\ \A r : Asked(Unserved(requests, frame), r) => Asked(requests, r)
<1> DEFINE n == Len(requests)
<1>0. n \in Nat
  OBVIOUS
<1>1. PICK g : /\ g = [i \in 0 .. n |->
                         IF i = 0 THEN requests ELSE Serve(g[i - 1], i, frame)]
               /\ Unserved(requests, frame) = g[n]
  BY <1>0, UnservedDef
<1> DEFINE Good(w) == /\ w \in Seq(R)
                      /\ \A r : Asked(requests, r) /\ r.frame # frame => Asked(w, r)
                      /\ \A r : Asked(w, r) => Asked(requests, r)
           S == {k \in Nat : k <= n => Good(g[k])}
<1>2. 0 \in S
  BY <1>0, <1>1
<1>3. ASSUME NEW k \in Nat, k \in S PROVE k + 1 \in S
  <2> SUFFICES ASSUME k + 1 <= n PROVE Good(g[k + 1])
    OBVIOUS
  <2>1. g[k + 1] = Serve(g[k], k + 1, frame) /\ Good(g[k])
    BY <1>0, <1>1, <1>3
  <2>2. /\ Serve(g[k], k + 1, frame) \in Seq(R)
        /\ \A r : Asked(g[k], r) /\ r.frame # frame => Asked(Serve(g[k], k + 1, frame), r)
        /\ \A r : Asked(Serve(g[k], k + 1, frame), r) => Asked(g[k], r)
    BY <2>1, ServeKeeps
  <2> QED
    BY <2>1, <2>2
<1>4. Nat \subseteq S
  <2> HIDE DEF S
  <2> QED
    BY <1>2, <1>3, SetInduction
<1>5. n \in S
  BY <1>0, <1>4
<1> QED
  BY <1>0, <1>1, <1>5

(* Requests that are queued once.                                          *)
Distinct(requests) ==
  \A i, j \in DOMAIN requests : requests[i] = requests[j] => i = j

(* A step of the loop takes out the request it answers.                    *)
LEMMA ServeTakes ==
  ASSUME NEW R, NEW left \in Seq(R), Distinct(left), NEW i \in Nat, i # 0, NEW frame
  PROVE  /\ Distinct(Serve(left, i, frame))
         /\ i <= Len(left) /\ left[i].frame = frame => ~Asked(Serve(left, i, frame), left[i])
<1> DEFINE n == Len(left)
           w == Serve(left, i, frame)
<1>0. n \in Nat /\ DOMAIN left = 1 .. n /\ left \in [1 .. n -> R]
  OBVIOUS
<1>1. CASE ~(i <= n /\ left[i].frame = frame)
  BY <1>1 DEF Serve
<1>2. CASE i <= n /\ left[i].frame = frame
  <2> DEFINE moved == [left EXCEPT ![i] = left[n]]
             at(k) == IF k = i THEN n ELSE k
  <2>1. /\ moved \in Seq(R) /\ Len(moved) = n
        /\ \A k \in 1 .. n : moved[k] = IF k = i THEN left[n] ELSE left[k]
    <3>1. n \in 1 .. n /\ i \in 1 .. n
      BY <1>0, <1>2
    <3> QED
      BY <1>0, <3>1
  <2>2. w = SubSeq(moved, 1, n - 1)
    BY <1>2 DEF Serve, Last
  <2> HIDE DEF moved
  <2>3. DOMAIN w = 1 .. n - 1 /\ \A k \in 1 .. n - 1 : w[k] = moved[k]
    BY <1>0, <2>1, <2>2
  <2> HIDE DEF w, n
  <2>4. \A k \in 1 .. n - 1 : k \in 1 .. n /\ k # n /\ n \in 1 .. n
    BY <1>0
  <2>5. \A k \in 1 .. n - 1 : at(k) \in 1 .. n /\ at(k) # i /\ w[k] = left[at(k)]
    BY <2>1, <2>3, <2>4
  <2>6. i \in 1 .. n
    BY <1>0, <1>2
  <2>7. \A k, l \in 1 .. n - 1 : at(k) = at(l) => k = l
    BY <2>4
  <2> HIDE DEF at
  <2>8. \A k, l \in 1 .. n - 1 : w[k] = w[l] => k = l
    BY <1>0, <2>5, <2>7 DEF Distinct
  <2>9. \A k \in 1 .. n - 1 : w[k] # left[i]
    BY <1>0, <2>5, <2>6 DEF Distinct
  <2> QED
    BY <2>3, <2>8, <2>9 DEF Distinct, Asked, w
<1> QED
  BY <1>1, <1>2

(* The pass answers the first request for the frame, whatever it skips.    *)
LEMMA FirstServed ==
  ASSUME NEW R, NEW requests \in Seq(R), Distinct(requests), NEW frame
  PROVE  /\ Distinct(Unserved(requests, frame))
         /\ \A r : Asked(requests, r) /\ r.frame = frame =>
              \E first : /\ Asked(requests, first) /\ first.frame = frame
                        /\ ~Asked(Unserved(requests, frame), first)
<1> DEFINE n == Len(requests)
<1>0. n \in Nat /\ DOMAIN requests = 1 .. n
  OBVIOUS
<1>1. PICK g : /\ g = [i \in 0 .. n |->
                         IF i = 0 THEN requests ELSE Serve(g[i - 1], i, frame)]
               /\ Unserved(requests, frame) = g[n]
  BY <1>0, UnservedDef
<1> DEFINE Taken(w) == \E first : /\ Asked(requests, first) /\ first.frame = frame
                                  /\ ~Asked(w, first)
           Same(w, k) == w = requests /\ \A i \in 1 .. k : requests[i].frame # frame
           Good(w, k) == w \in Seq(R) /\ Distinct(w) /\ (Taken(w) \/ Same(w, k))
           S == {k \in Nat : k <= n => Good(g[k], k)}
<1>2. 0 \in S
  BY <1>0, <1>1
<1>3. ASSUME NEW k \in Nat, k \in S PROVE k + 1 \in S
  <2> SUFFICES ASSUME k + 1 <= n PROVE Good(g[k + 1], k + 1)
    OBVIOUS
  <2> DEFINE w == g[k]
             x == g[k + 1]
  <2> HIDE DEF Taken
  <2>1. w \in Seq(R) /\ Distinct(w) /\ (Taken(w) \/ Same(w, k))
    <3>1. k <= n
      BY <1>0
    <3> HIDE DEF w
    <3> QED
      BY <1>3, <3>1 DEF w
  <2>0. x = Serve(w, k + 1, frame) /\ k + 1 \in Nat /\ k + 1 # 0
    <3>1. k + 1 \in 0 .. n /\ k + 1 # 0 /\ (k + 1) - 1 = k
      BY <1>0
    <3> QED
      BY <1>1, <3>1
  <2> HIDE DEF w, x
  <2>2. x \in Seq(R) /\ \A r : Asked(x, r) => Asked(w, r)
    BY <2>0, <2>1, ServeKeeps
  <2>3. /\ Distinct(x)
        /\ k + 1 <= Len(w) /\ w[k + 1].frame = frame => ~Asked(x, w[k + 1])
    BY <2>0, <2>1, ServeTakes
  <2>4. CASE Taken(w)
    <3>1. Taken(x)
      BY <2>2, <2>4 DEF Taken
    <3> QED
      BY <2>2, <2>3, <3>1 DEF x
  <2>5. CASE Same(w, k) /\ requests[k + 1].frame = frame
    <3>1. k + 1 \in DOMAIN requests /\ w = requests
      BY <1>0, <2>5
    <3>2. ~Asked(x, requests[k + 1])
      BY <2>3, <2>5, <3>1
    <3>3. Asked(requests, requests[k + 1])
      BY <3>1 DEF Asked
    <3>4. Taken(x)
      BY <2>5, <3>2, <3>3 DEF Taken
    <3> QED
      BY <2>2, <2>3, <3>4 DEF x
  <2>6. CASE Same(w, k) /\ requests[k + 1].frame # frame
    <3>1. x = requests
      BY <2>0, <2>6 DEF Serve
    <3>2. \A i \in 1 .. k + 1 : i \in 1 .. k \/ i = k + 1
      OBVIOUS
    <3>3. \A i \in 1 .. k + 1 : requests[i].frame # frame
      BY <2>6, <3>2
    <3> QED
      BY <2>2, <2>3, <3>1, <3>3 DEF x
  <2> QED
    BY <2>1, <2>4, <2>5, <2>6
<1>4. Nat \subseteq S
  <2> HIDE DEF S
  <2> QED
    BY <1>2, <1>3, SetInduction
<1>5. n \in S
  BY <1>0, <1>4
<1>6. Good(g[n], n)
  BY <1>0, <1>5
<1> HIDE DEF n
<1>7. ASSUME NEW r, Asked(requests, r), r.frame = frame PROVE Taken(g[n])
  <2>1. PICK i \in 1 .. n : requests[i] = r
    BY <1>0, <1>7 DEF Asked
  <2> HIDE DEF Taken
  <2> QED
    BY <1>6, <1>7, <2>1
<1> QED
  BY <1>1, <1>6, <1>7

LEMMA ServedUpToDef ==
  ASSUME NEW requests, NEW first \in Nat, NEW start \in Nat, first <= start
  PROVE  \E g : /\ g = [f \in first .. start |->
                          IF f = first THEN requests ELSE Unserved(g[f - 1], f)]
                /\ ServedUpTo(requests, first, start) = g[start]
<1> DEFINE W == first .. start
           step(g, f) == IF f = first THEN requests ELSE Unserved(g[f - 1], f)
           S == {n \in Nat : \E g : /\ g = [f \in W |-> g[f]]
                                    /\ \A f \in W : f <= first + n => g[f] = step(g, f)}
<1>1. 0 \in S
  <2> DEFINE g == [f \in W |-> requests]
  <2>1. \A f \in W : f <= first + 0 => g[f] = step(g, f)
    OBVIOUS
  <2>2. g = [f \in W |-> g[f]]
    OBVIOUS
  <2> HIDE DEF g, step
  <2> QED
    BY <2>1, <2>2
<1>2. ASSUME NEW n \in Nat, n \in S PROVE n + 1 \in S
  <2>1. PICK g : /\ g = [f \in W |-> g[f]]
                 /\ \A f \in W : f <= first + n => g[f] = step(g, f)
    BY <1>2
  <2> DEFINE h == [f \in W |-> IF f = first + (n + 1) THEN step(g, f) ELSE g[f]]
  <2>2. ASSUME NEW f \in W, f <= first + (n + 1) PROVE h[f] = step(h, f)
    <3>1. f # first => f - 1 \in W /\ h[f - 1] = g[f - 1]
      BY <2>2
    <3>2. step(h, f) = step(g, f)
      BY <3>1
    <3>3. CASE f = first + (n + 1)
      BY <3>2, <3>3
    <3>4. CASE f # first + (n + 1)
      <4>1. f <= first + n
        BY <2>2, <3>4
      <4>2. g[f] = step(g, f) /\ h[f] = g[f]
        BY <2>1, <3>4, <4>1
      <4> QED
        BY <3>2, <4>2
    <3> QED
      BY <3>3, <3>4
  <2>3. h = [f \in W |-> h[f]]
    OBVIOUS
  <2> HIDE DEF h, step
  <2> QED
    BY <2>2, <2>3
<1>3. Nat \subseteq S
  <2> HIDE DEF S
  <2> QED
    BY <1>1, <1>2, SetInduction
<1>4. \E g : g = [f \in W |-> step(g, f)]
  <2>0. start - first \in Nat /\ first + (start - first) = start
    OBVIOUS
  <2>1. start - first \in S
    <3> HIDE DEF S
    <3> QED
      BY <1>3, <2>0
  <2> HIDE DEF step
  <2>2. PICK g : /\ g = [f \in W |-> g[f]]
                 /\ \A f \in W : f <= first + (start - first) => g[f] = step(g, f)
    BY <2>1
  <2>3. \A f \in W : f <= first + (start - first)
    BY <2>0
  <2>4. g = [f \in W |-> step(g, f)]
    BY <2>2, <2>3
  <2> QED
    BY <2>4
<1> DEFINE left == CHOOSE g : g = [f \in W |-> step(g, f)]
<1>5. ServedUpTo(requests, first, start) = left[start]
  BY DEF ServedUpTo
<1>6. left = [f \in W |-> step(left, f)]
  <2> HIDE DEF step
  <2> QED
    BY <1>4
<1> HIDE DEF left
<1> QED
  BY <1>5, <1>6

(* What is taken out of the queue of final requests has become final: its  *)
(* frame is one of those advance() moved over.                             *)
LEMMA ServedUpToKeeps ==
  ASSUME NEW R, NEW requests \in Seq(R), NEW first \in Nat, NEW start \in Nat, first <= start
  PROVE  LET left == ServedUpTo(requests, first, start)
         IN  /\ left \in Seq(R)
             /\ \A r : Asked(requests, r) /\ r.frame \notin first + 1 .. start => Asked(left, r)
             /\ \A r : Asked(left, r) => Asked(requests, r)
<1>1. PICK g : /\ g = [f \in first .. start |->
                         IF f = first THEN requests ELSE Unserved(g[f - 1], f)]
               /\ ServedUpTo(requests, first, start) = g[start]
  BY ServedUpToDef
<1> DEFINE Good(w, f) == /\ w \in Seq(R)
                         /\ \A r : Asked(requests, r) /\ r.frame \notin first + 1 .. f => Asked(w, r)
                         /\ \A r : Asked(w, r) => Asked(requests, r)
           S == {k \in Nat : first + k <= start => Good(g[first + k], first + k)}
<1>2. 0 \in S
  BY <1>1
<1>3. ASSUME NEW k \in Nat, k \in S PROVE k + 1 \in S
  <2> DEFINE f == first + (k + 1)
  <2> SUFFICES ASSUME f <= start PROVE Good(g[f], f)
    OBVIOUS
  <2>1. g[f] = Unserved(g[f - 1], f) /\ f - 1 = first + k /\ f \in Nat /\ f # first
    BY <1>1
  <2>2. Good(g[f - 1], f - 1)
    BY <1>3, <2>1
  <2>3. \A r : r.frame \notin first + 1 .. f => r.frame # f /\ r.frame \notin first + 1 .. f - 1
    BY <2>1
  <2> HIDE DEF f
  <2>4. /\ Unserved(g[f - 1], f) \in Seq(R)
        /\ \A r : Asked(g[f - 1], r) /\ r.frame # f => Asked(Unserved(g[f - 1], f), r)
        /\ \A r : Asked(Unserved(g[f - 1], f), r) => Asked(g[f - 1], r)
    BY <2>2, UnservedKeeps
  <2> QED
    BY <2>1, <2>2, <2>3, <2>4
<1>4. Nat \subseteq S
  <2> HIDE DEF S
  <2> QED
    BY <1>2, <1>3, SetInduction
<1>5. start - first \in S /\ first + (start - first) = start
  <2>1. start - first \in Nat /\ first + (start - first) = start
    OBVIOUS
  <2> HIDE DEF S
  <2> QED
    BY <1>4, <2>1
<1> QED
  BY <1>1, <1>5

-----------------------------------------------------------------------------
(* advance().                                                              *)

LEMMA HostNotDropped ==
  ASSUME NEW all, HostRules(all), NEW f \in Frames, NEW fb, SubBundle(fb, all[f])
  PROVE  Places(fb, EngineDropped(Host)) = {} /\ Places(fb, EngineDropped(Self)) = {}
<1> SUFFICES ASSUME NEW p \in Places(fb, EngineDropped(Host)) \cup Places(fb, EngineDropped(Self))
             PROVE  FALSE
  OBVIOUS
<1>1. PICK id \in DOMAIN fb : p \in {id} \X DOMAIN fb[id].engine
  BY DEF Places
<1>2. /\ p[1] = id /\ p[2] \in DOMAIN fb[id].engine
      /\ fb[p[1]].engine[p[2]] \in {EngineDropped(Host), EngineDropped(Self)}
  BY <1>1 DEF Places
<1>3. id \in DOMAIN all[f] /\ all[f][id] = fb[id]
  BY DEF SubBundle
<1> QED
  BY <1>2, <1>3 DEF HostRules, Spares

(* What ThinkFrame computes, and that computing it twice changes nothing.  *)
LEMMA Thought ==
  ASSUME NEW prev, NEW d, DOMAIN d = SlotFields
  PROVE  LET e == ThinkFrame(prev, d)
         IN  /\ DOMAIN e = SlotFields /\ e.bundle = d.bundle /\ e.made = d.made
             /\ e.info = ApplyEngineEvents(prev.info, d.bundle)
             /\ e.game = ApplyAndThink(prev.game, e.info, d.bundle)
             /\ e = ThinkFrame(prev, e)
BY DEF ThinkFrame, SlotFields

LEMMA LinkedState ==
  ASSUME NEW data, NEW f, DOMAIN data[f] = SlotFields, Linked(data, f)
  PROVE  /\ data[f].info = ApplyEngineEvents(data[f - 1].info, data[f].bundle)
         /\ data[f].game = ApplyAndThink(data[f - 1].game, data[f].info, data[f].bundle)
<1>1. data[f] = ThinkFrame(data[f - 1], data[f])
  BY DEF Linked
<1> QED
  BY <1>1, Thought

(* What the rethink loop leaves in the window.                             *)
LEMMA Rethought ==
  ASSUME NEW v, NEW all, Ready(v, all), HostRules(all)
  PROVE  LET data == Rethink(v)
         IN  /\ DOMAIN data = Window(v.first)
             /\ \A f \in Window(v.first) :
                  /\ DOMAIN data[f] = SlotFields
                  /\ data[f].bundle = v.data[f].bundle /\ data[f].made = v.data[f].made
             /\ \A f \in v.first .. v.oldest_dirty_frame - 1 : data[f] = v.data[f]
             /\ \A f \in v.oldest_dirty_frame .. v.global_frame : Linked(data, f)
             /\ \A f \in v.first .. v.global_frame : Host \in data[f].info
<1> DEFINE data == Rethink(v)
           W == Window(v.first)
<1>1. /\ v.first \in Nat /\ v.global_frame \in Nat /\ v.oldest_dirty_frame \in Nat
      /\ v.first < v.oldest_dirty_frame /\ v.oldest_dirty_frame <= v.global_frame + 1
      /\ v.global_frame <= v.first + Max_frames /\ v.global_frame <= MaxFrame
      /\ v.first <= v.global_frame /\ BaseFrame <= v.first
  BY DEF Ready, Shape
<1>2. \A f \in W : DOMAIN v.data[f] = SlotFields
  BY DEF Ready, Shape
<1>3. data = [f \in W |-> IF f \in v.oldest_dirty_frame .. v.global_frame
                             THEN ThinkFrame(data[f - 1], v.data[f]) ELSE v.data[f]]
  BY <1>1, RethinkDef
<1> HIDE DEF data
<1>4. DOMAIN data = W
  BY <1>3
<1>5. \A f \in v.oldest_dirty_frame .. v.global_frame :
        f \in W /\ data[f] = ThinkFrame(data[f - 1], v.data[f])
  BY <1>1, <1>3 DEF Window
<1>6. \A f \in W : f \notin v.oldest_dirty_frame .. v.global_frame => data[f] = v.data[f]
  BY <1>3
<1>7. ASSUME NEW f \in W
      PROVE  /\ DOMAIN data[f] = SlotFields
             /\ data[f].bundle = v.data[f].bundle /\ data[f].made = v.data[f].made
  <2>1. CASE f \in v.oldest_dirty_frame .. v.global_frame
    BY <1>2, <1>5, <2>1, Thought
  <2>2. CASE f \notin v.oldest_dirty_frame .. v.global_frame
    BY <1>2, <1>6, <2>2
  <2> QED
    BY <2>1, <2>2
<1>8. \A f \in v.first .. v.oldest_dirty_frame - 1 : data[f] = v.data[f]
  BY <1>1, <1>6 DEF Window
<1>9. ASSUME NEW f \in v.oldest_dirty_frame .. v.global_frame PROVE Linked(data, f)
  BY <1>2, <1>5, Thought DEF Linked
<1>10. \A f \in v.first .. v.global_frame : Host \in data[f].info
  <2> DEFINE S == {k \in Nat : v.first + k <= v.global_frame => Host \in data[v.first + k].info}
  <2>1. 0 \in S
    <3>1. data[v.first] = v.data[v.first] /\ Host \in v.data[v.first].info
      BY <1>1, <1>8 DEF Ready
    <3> QED
      BY <1>1, <3>1
  <2>2. ASSUME NEW k \in Nat, k \in S PROVE k + 1 \in S
    <3> DEFINE f == v.first + (k + 1)
    <3> SUFFICES ASSUME f <= v.global_frame PROVE Host \in data[f].info
      OBVIOUS
    <3>1. f - 1 = v.first + k /\ f \in v.first + 1 .. v.global_frame /\ f \in Frames
      BY <1>1, Constants DEF Frames
    <3>2. Host \in data[f - 1].info
      BY <1>1, <2>2, <3>1
    <3>3. CASE f < v.oldest_dirty_frame
      BY <1>1, <1>8, <3>1, <3>3 DEF Ready
    <3>4. CASE f >= v.oldest_dirty_frame
      <4>1. Linked(data, f) /\ f \in W
        BY <1>1, <1>5, <1>9, <3>1, <3>4
      <4>2. SubBundle(v.data[f].bundle, all[f])
        BY <3>1 DEF Ready
      <4>3. Places(data[f].bundle, EngineDropped(Host)) = {}
        BY <1>7, <3>1, <4>1, <4>2, HostNotDropped
      <4>4. Host \in EngineId
        BY Constants
      <4> HIDE DEF f
      <4>5. data[f].info = ApplyEngineEvents(data[f - 1].info, data[f].bundle)
        BY <1>7, <4>1, LinkedState
      <4> QED
        BY <3>2, <4>3, <4>4, <4>5, StaysKnown
    <3> QED
      BY <1>1, <3>1, <3>3, <3>4
  <2>3. Nat \subseteq S
    <3> HIDE DEF S
    <3> QED
      BY <2>1, <2>2, SetInduction
  <2> SUFFICES ASSUME NEW f \in v.first .. v.global_frame PROVE Host \in data[f].info
    OBVIOUS
  <2>4. f - v.first \in S /\ v.first + (f - v.first) = f
    BY <1>1, <2>3
  <2> QED
    BY <2>4
<1> QED
  BY <1>4, <1>7, <1>8, <1>9, <1>10 DEF data

(* advance() makes a frame final only with the bundles of every engine     *)
(* known on it, so its state is the outcome of all bundles issued for it.  *)
LEMMA AdvanceExtends ==
  ASSUME NEW v, NEW all, Ready(v, all), HostRules(all)
  PROVE  LET w == advance(v)
         IN  /\ Steady(w, all) /\ Extends(v, w, all) /\ Advanced(v, w)
             /\ w.skip_to_frame = v.skip_to_frame /\ w.local_frame = v.local_frame
<1> DEFINE data == Rethink(v)
           start == NewStart(v, data)
           past == DOMAIN v.bootstrap_frames
           sent == [f \in past \cup (v.first + 1 .. start) |->
                      IF f \in past THEN v.bootstrap_frames[f]
                      ELSE [info |-> data[f].info, game |-> data[f].game]]
           w == advance(v)
<1>1. /\ v.first \in Nat /\ v.global_frame \in Nat /\ v.oldest_dirty_frame \in Nat
      /\ v.first < v.oldest_dirty_frame /\ v.oldest_dirty_frame <= v.global_frame + 1
      /\ v.global_frame <= v.first + Max_frames /\ v.global_frame <= MaxFrame
      /\ v.first <= v.global_frame /\ BaseFrame <= v.first /\ v.skip_to_frame \in Int
      /\ DOMAIN v = UpdaterFields /\ v.id = Self /\ ~v.panicked
      /\ past = BaseFrame .. v.first
      /\ BaseFrame \in Nat /\ MaxFrame \in Nat
  BY Constants DEF Ready, Shape
<1>2. /\ DOMAIN data = Window(v.first)
      /\ \A f \in Window(v.first) :
           /\ DOMAIN data[f] = SlotFields
           /\ data[f].bundle = v.data[f].bundle /\ data[f].made = v.data[f].made
      /\ \A f \in v.first .. v.oldest_dirty_frame - 1 : data[f] = v.data[f]
      /\ \A f \in v.oldest_dirty_frame .. v.global_frame : Linked(data, f)
      /\ \A f \in v.first .. v.global_frame : Host \in data[f].info
  BY Rethought
<1>3. /\ start \in v.first .. v.global_frame
      /\ \A f \in v.first + 1 .. start : Complete(data[f])
      /\ start < v.global_frame => ~Complete(data[start + 1])
  BY <1>1, NewStartDef
<1>4. w = [v EXCEPT !.first = start,
                    !.data = Rotated(data, v.first, start),
                    !.oldest_dirty_frame = v.global_frame + 1,
                    !.bootstrap_frames = sent,
                    !.final_requests = ServedUpTo(@, v.first, start)]
  <2>1. InWindow(v, v.oldest_dirty_frame - 1)
    BY <1>1 DEF InWindow, Window
  <2> QED
    BY <1>1, <2>1 DEF advance
<1> HIDE DEF data, start, w
<1>5. /\ DOMAIN w = UpdaterFields /\ w.id = Self /\ ~w.panicked
      /\ w.first = start /\ w.data = Rotated(data, v.first, start)
      /\ w.oldest_dirty_frame = v.global_frame + 1 /\ w.bootstrap_frames = sent
      /\ w.global_frame = v.global_frame /\ w.skip_to_frame = v.skip_to_frame
      /\ w.local_frame = v.local_frame
      /\ w.final_requests = ServedUpTo(v.final_requests, v.first, start)
  BY <1>1, <1>4 DEF UpdaterFields
<1>6. \A f \in start .. v.global_frame : f \in Window(start) /\ w.data[f] = data[f]
  BY <1>1, <1>3, <1>5 DEF Rotated, Window
<1>7. DOMAIN w.data = Window(start) /\ \A f \in Window(start) : DOMAIN w.data[f] = SlotFields
  <2>1. \A f \in Window(start) :
          f \in Window(v.first) \/ f - (Max_frames + 1) \in Window(v.first)
    <3>1. v.first \in Nat /\ start \in v.first .. v.first + Max_frames /\ Max_frames \in Nat
      BY <1>1, <1>3, MaxFramesAssumption
    <3>2. SUFFICES ASSUME NEW f \in Window(start), f \notin Window(v.first)
                   PROVE  f - (Max_frames + 1) \in Window(v.first)
      OBVIOUS
    <3>3. f \in start .. start + Max_frames /\ f \notin v.first .. v.first + Max_frames
      BY <3>2 DEF Window
    <3>4. f - (Max_frames + 1) \in v.first .. v.first + Max_frames
      BY <3>1, <3>3
    <3> QED
      BY <3>4 DEF Window
  <2> QED
    BY <1>2, <1>5, <2>1 DEF Rotated
<1>8. ASSUME NEW f \in v.first + 1 .. v.global_frame
      PROVE  SubBundle(data[f].bundle, all[f]) /\ f \in Window(v.first)
  <2>1. f \in Window(v.first)
    BY <1>1 DEF Window
  <2>2. SubBundle(v.data[f].bundle, all[f])
    BY DEF Ready
  <2> QED
    BY <1>2, <2>1, <2>2
\* A placeholder is not complete: the host is known there and has sent nothing.
<1>9. ASSUME NEW f \in v.first + 1 .. v.global_frame, Complete(data[f])
      PROVE  Linked(data, f)
  <2>1. CASE f < v.oldest_dirty_frame
    <3>0. /\ f \in v.first .. v.oldest_dirty_frame - 1
          /\ f - 1 \in v.first .. v.oldest_dirty_frame - 1
      BY <1>1, <2>1
    <3>1. data[f] = v.data[f] /\ data[f - 1] = v.data[f - 1]
      BY <1>2, <3>0
    <3>2. Host \in DOMAIN v.data[f].bundle
      BY <1>1, <1>2, <1>9, <3>1 DEF Complete
    <3>3. ~Placeholder(v, f)
      BY <3>2 DEF Placeholder
    <3>4. Linked(v.data, f)
      BY <1>1, <2>1, <3>3 DEF Ready
    <3> QED
      BY <3>1, <3>4 DEF Linked
  <2>2. CASE f >= v.oldest_dirty_frame
    BY <1>1, <1>2, <2>2
  <2> QED
    BY <1>1, <2>1, <2>2
<1>10. past \cup (v.first + 1 .. start) = BaseFrame .. start
  BY <1>1, <1>3
<1>11. Shape(w)
  <2>1. DOMAIN w.bootstrap_frames = BaseFrame .. start
    BY <1>5, <1>10
  <2> QED
    BY <1>1, <1>3, <1>5, <1>7, <2>1 DEF Shape
<1>12. ASSUME NEW f \in v.first .. start
       PROVE  w.bootstrap_frames[f].info = data[f].info /\ w.bootstrap_frames[f].game = data[f].game
  <2>1. CASE f = v.first
    <3>1. data[f] = v.data[f] /\ f \in past
      BY <1>1, <1>2, <2>1
    <3> QED
      BY <1>5, <2>1, <3>1 DEF Ready
  <2>2. CASE f # v.first
    BY <1>1, <1>3, <1>5, <2>2
  <2> QED
    BY <2>1, <2>2
<1>13. Extends(v, w, all)
  <2>1. ASSUME NEW f \in BaseFrame .. v.first
        PROVE  w.bootstrap_frames[f] = v.bootstrap_frames[f]
    BY <1>1, <1>5
  <2>2. ASSUME NEW f \in v.first + 1 .. start
        PROVE  Settled(w.bootstrap_frames, f, all[f])
    <3> DEFINE fb == data[f].bundle
               engines == ApplyEngineEvents(data[f - 1].info, fb)
    <3>1. /\ f \in v.first + 1 .. v.global_frame /\ f \in v.first .. v.global_frame
          /\ f - 1 \in v.first .. start /\ f \in v.first .. start /\ f \in Frames
      BY <1>1, <1>3 DEF Frames
    <3>2. Linked(data, f) /\ Complete(data[f]) /\ SubBundle(fb, all[f]) /\ Host \in data[f].info
      <4>1. Complete(data[f])
        BY <1>3
      <4> QED
        BY <1>2, <1>8, <1>9, <3>1, <4>1
    <3>3. data[f].info = engines /\ engines \subseteq DOMAIN fb /\ Host \in engines
      BY <1>2, <1>8, <3>1, <3>2, LinkedState DEF Complete
    <3>4. NothingMissing(fb, all[f], engines)
      BY <3>1, <3>3 DEF NothingMissing, HostRules
    <3>5. /\ ApplyEngineEvents(data[f - 1].info, all[f]) = engines
          /\ ApplyAndThink(data[f - 1].game, engines, all[f])
               = ApplyAndThink(data[f - 1].game, engines, fb)
      BY <3>2, <3>4, LateBundlesChangeNothing
    <3>6. w.bootstrap_frames[f] = [info |-> data[f].info, game |-> data[f].game]
      BY <1>1, <1>3, <1>5
    <3>7. w.bootstrap_frames[f - 1].info = data[f - 1].info
          /\ w.bootstrap_frames[f - 1].game = data[f - 1].game
      BY <1>12, <3>1
    <3>8. data[f].game = ApplyAndThink(data[f - 1].game, engines, fb)
      BY <1>2, <1>8, <3>1, <3>2, <3>3, LinkedState
    <3>9. DOMAIN fb \subseteq DOMAIN all[f]
      BY <3>2 DEF SubBundle
    <3> QED
      BY <3>3, <3>5, <3>6, <3>7, <3>8, <3>9 DEF Settled
  <2>3. w.first = start /\ v.first <= start
    BY <1>1, <1>3, <1>5
  <2> QED
    BY <2>1, <2>2, <2>3 DEF Extends
<1>14. Steady(w, all)
  <2>1. ASSUME NEW f \in start + 1 .. v.global_frame
        PROVE  SubBundle(w.data[f].bundle, all[f])
    <3>1. f \in v.first + 1 .. v.global_frame /\ w.data[f] = data[f]
      BY <1>1, <1>3, <1>6
    <3> QED
      BY <1>8, <3>1
  <2>2. ASSUME NEW f \in start .. v.global_frame
        PROVE  Host \in w.data[f].info
    <3>1. f \in v.first .. v.global_frame /\ w.data[f] = data[f]
      BY <1>1, <1>3, <1>6
    <3>2. Host \in data[f].info
      BY <1>2, <3>1
    <3> QED
      BY <3>1, <3>2
  <2>3. ASSUME NEW f \in start + 1 .. v.global_frame
        PROVE  Placeholder(w, f) \/ Linked(w.data, f)
    <3>1. f \in v.first + 1 .. v.global_frame
      BY <1>1, <1>3
    <3>2. w.data[f] = data[f] /\ w.data[f - 1] = data[f - 1]
      BY <1>1, <1>3, <1>6
    <3>3. CASE f < v.oldest_dirty_frame
      <4>0. /\ f \in v.first .. v.oldest_dirty_frame - 1
            /\ f - 1 \in v.first .. v.oldest_dirty_frame - 1
        BY <1>1, <3>1, <3>3
      <4>1. data[f] = v.data[f] /\ data[f - 1] = v.data[f - 1]
        BY <1>2, <4>0
      <4>2. Placeholder(v, f) \/ Linked(v.data, f)
        BY <1>1, <3>1, <3>3 DEF Ready
      <4> QED
        BY <3>2, <4>1, <4>2 DEF Placeholder, Linked
    <3>4. CASE f >= v.oldest_dirty_frame
      <4>1. Linked(data, f)
        BY <1>1, <1>2, <3>1, <3>4
      <4> QED
        BY <3>2, <4>1 DEF Linked
    <3> QED
      BY <1>1, <3>1, <3>3, <3>4
  <2>4. w.data[start].info = w.bootstrap_frames[start].info
        /\ w.data[start].game = w.bootstrap_frames[start].game
    BY <1>1, <1>3, <1>6, <1>12
  <2>5. w.first = start /\ w.global_frame = v.global_frame
        /\ w.oldest_dirty_frame = v.global_frame + 1 /\ v.global_frame + 1 - 1 = v.global_frame
    BY <1>1, <1>5
  <2> QED
    BY <1>1, <1>3, <1>5, <1>11, <2>1, <2>2, <2>3, <2>4, <2>5 DEF Steady, Ready
<1>15. Advanced(v, w)
  <2>1. ASSUME NEW f \in start .. v.global_frame
        PROVE  w.data[f].bundle = v.data[f].bundle /\ w.data[f].made = v.data[f].made
    <3>1. f \in Window(v.first) /\ w.data[f] = data[f]
      BY <1>1, <1>3, <1>6 DEF Window
    <3> QED
      BY <1>2, <3>1
  <2>2. Waits(w)
    <3>1. start < v.global_frame => start + 1 \in start .. v.global_frame
      BY <1>1, <1>3
    <3> QED
      BY <1>3, <1>5, <1>6, <3>1 DEF Waits
  <2> QED
    BY <1>5, <2>1, <2>2 DEF Advanced
<1> QED
  BY <1>5, <1>13, <1>14, <1>15 DEF w

-----------------------------------------------------------------------------
(* What runs before advance().                                             *)

LEMMA AbsorbedSubBundle ==
  ASSUME NEW fb, NEW fb2, NEW all, SubBundle(fb, all), SubBundle(fb2, all)
  PROVE  SubBundle(Absorb(fb, fb2), all)
BY DEF SubBundle, Absorb

LEMMA EmptySubBundle == \A all : SubBundle(EmptyBundle, all)
BY DEF SubBundle, EmptyBundle

(* More bundles issued do not disturb the window.                          *)
LEMMA ReadyWithMore ==
  ASSUME NEW v, NEW all, NEW more, Ready(v, all),
         \A f \in Frames : SubBundle(all[f], more[f])
  PROVE  Ready(v, more)
<1>1. ASSUME NEW f \in v.first + 1 .. v.global_frame
      PROVE  SubBundle(v.data[f].bundle, more[f])
  <2>1. SubBundle(v.data[f].bundle, all[f])
    BY DEF Ready
  <2>2. f \in Frames
    BY Constants DEF Ready, Shape, Frames
  <2>3. SubBundle(all[f], more[f])
    BY <2>2
  <2> QED
    BY <2>1, <2>3 DEF SubBundle
<1> QED
  BY <1>1 DEF Ready

(* After initFrameData up to a frame, the frames beyond global_frame up to *)
(* it hold no bundles, and nothing else has changed.                       *)
Cleared(v, frame) ==
  \A f \in v.global_frame + 1 .. frame :
    f \in Window(v.first) /\ v.data[f].made /\ v.data[f].bundle = EmptyBundle

Unchanged(v, w) ==
  /\ w.global_frame = v.global_frame
  /\ \A f \in v.first .. v.global_frame : w.data[f] = v.data[f]

LEMMA InitFramesReady ==
  ASSUME NEW v, NEW all, Ready(v, all), NEW frame \in Nat, frame <= MaxFrame,
         ~InitFrames(v, frame).panicked
  PROVE  LET w == InitFrames(v, frame)
         IN  /\ Ready(w, all) /\ Cleared(w, frame) /\ Unchanged(v, w)
             /\ w.first = v.first /\ w.bootstrap_frames = v.bootstrap_frames
             /\ w.final_requests = v.final_requests
             /\ w.skip_to_frame = v.skip_to_frame
             /\ w.oldest_dirty_frame = v.oldest_dirty_frame
<1> DEFINE w == InitFrames(v, frame)
           last == v.data[Greater(v.global_frame, v.first)]
           fresh == {f \in v.global_frame + 1 .. frame : f > v.first}
           data == [f \in DOMAIN v.data |->
                      IF f \in fresh THEN FrameData(last.info, v.data[f].game, EmptyBundle)
                      ELSE v.data[f]]
<1>1. /\ v.first \in Nat /\ v.global_frame \in Nat /\ v.oldest_dirty_frame \in Nat
      /\ v.first <= v.global_frame /\ v.global_frame <= v.first + Max_frames
      /\ v.oldest_dirty_frame <= v.global_frame + 1
      /\ DOMAIN v = UpdaterFields /\ DOMAIN v.data = Window(v.first)
      /\ \A f \in Window(v.first) : DOMAIN v.data[f] = SlotFields
  BY DEF Ready, Shape
<1>2. frame > v.global_frame => InWindow(v, frame)
  BY <1>1 DEF InitFrames, Panic, UpdaterFields
<1>3. w = [v EXCEPT !.data = data]
  BY <1>2 DEF InitFrames
<1> HIDE DEF w, data
<1>4. /\ DOMAIN w = UpdaterFields /\ w.data = data
      /\ w.id = v.id /\ w.first = v.first /\ w.global_frame = v.global_frame
      /\ w.oldest_dirty_frame = v.oldest_dirty_frame /\ w.skip_to_frame = v.skip_to_frame
      /\ w.bootstrap_frames = v.bootstrap_frames /\ w.panicked = v.panicked
      /\ w.final_requests = v.final_requests
  BY <1>1, <1>3 DEF UpdaterFields
<1>5. \A f \in v.first .. v.global_frame : w.data[f] = v.data[f]
  BY <1>1, <1>4 DEF data, Window
<1>6. DOMAIN w.data = Window(v.first) /\ \A f \in Window(v.first) : DOMAIN w.data[f] = SlotFields
  BY <1>1, <1>4 DEF data, FrameData, SlotFields
<1>7. ASSUME NEW f \in v.global_frame + 1 .. frame
      PROVE  f \in Window(v.first) /\ w.data[f].made /\ w.data[f].bundle = EmptyBundle
  <2>1. f \in Window(v.first) /\ f \in fresh
    BY <1>1, <1>2 DEF InWindow, Window
  <2> QED
    BY <1>1, <1>4, <2>1 DEF data, FrameData
<1>8. Shape(w)
  BY <1>4, <1>6 DEF Ready, Shape
<1>9. Ready(w, all)
  <2>1. ASSUME NEW f \in v.first + 1 .. v.oldest_dirty_frame - 1
        PROVE  Placeholder(w, f) \/ Linked(w.data, f)
    <3>1. w.data[f] = v.data[f] /\ w.data[f - 1] = v.data[f - 1]
      BY <1>1, <1>5
    <3>2. Placeholder(v, f) \/ Linked(v.data, f)
      BY DEF Ready
    <3> QED
      BY <3>1, <3>2 DEF Placeholder, Linked
  <2>2. \A f \in v.first + 1 .. v.global_frame : SubBundle(w.data[f].bundle, all[f])
    BY <1>1, <1>5 DEF Ready
  <2>3. \A f \in v.first .. v.oldest_dirty_frame - 1 : Host \in w.data[f].info
    BY <1>1, <1>5 DEF Ready
  <2>4. w.data[v.first] = v.data[v.first]
    BY <1>1, <1>5
  <2> QED
    BY <1>4, <1>8, <2>1, <2>2, <2>3, <2>4 DEF Ready
<1>10. Cleared(w, frame)
  BY <1>4, <1>7 DEF Cleared
<1>11. Unchanged(v, w)
  BY <1>4, <1>5 DEF Unchanged
<1> QED
  BY <1>4, <1>9, <1>10, <1>11 DEF w

(* What the bundle of one frame does to the window.                        *)
Stored(v, w, fb) ==
  /\ w.global_frame = Greater(v.global_frame, fb.frame)
  /\ \A f \in Window(v.first) \ {fb.frame} : w.data[f] = v.data[f]
  /\ w.data[fb.frame].bundle = Absorb(v.data[fb.frame].bundle, fb.bundle)
  /\ w.data[fb.frame].made = v.data[fb.frame].made

LEMMA StoreReady ==
  ASSUME NEW v, NEW all, Ready(v, all), NEW fb, fb.frame \in Nat, fb.frame <= MaxFrame,
         v.first < fb.frame, Cleared(v, fb.frame), SubBundle(fb.bundle, all[fb.frame]),
         ~Store(v, fb).panicked
  PROVE  LET w == Store(v, fb)
         IN  /\ Ready(w, all) /\ Stored(v, w, fb) /\ w.first = v.first
             /\ w.bootstrap_frames = v.bootstrap_frames /\ w.skip_to_frame = v.skip_to_frame
             /\ w.final_requests = v.final_requests
<1> DEFINE w == Store(v, fb)
           frame == fb.frame
<1>1. /\ v.first \in Nat /\ v.global_frame \in Nat /\ v.oldest_dirty_frame \in Nat
      /\ v.first <= v.global_frame /\ v.global_frame <= v.first + Max_frames
      /\ v.first < v.oldest_dirty_frame /\ v.oldest_dirty_frame <= v.global_frame + 1
      /\ v.global_frame <= MaxFrame
      /\ DOMAIN v = UpdaterFields /\ DOMAIN v.data = Window(v.first)
      /\ \A f \in Window(v.first) : DOMAIN v.data[f] = SlotFields
      /\ ~v.panicked
  BY DEF Ready, Shape
<1>2. InWindow(v, frame)
  BY <1>1 DEF Store, Panic, UpdaterFields
<1>3. w = [v EXCEPT !.global_frame = Greater(@, frame),
                    !.oldest_dirty_frame = Lesser(@, frame),
                    !.data[frame].bundle = Absorb(@, fb.bundle)]
  BY <1>1, <1>2 DEF Store, Panic, UpdaterFields
<1> HIDE DEF w
<1>4. frame \in DOMAIN v.data
  BY <1>1, <1>2 DEF InWindow
<1>5. /\ DOMAIN w = UpdaterFields /\ w.id = v.id /\ w.first = v.first
      /\ w.global_frame = Greater(v.global_frame, frame)
      /\ w.oldest_dirty_frame = Lesser(v.oldest_dirty_frame, frame)
      /\ w.skip_to_frame = v.skip_to_frame /\ w.bootstrap_frames = v.bootstrap_frames
      /\ ~w.panicked /\ w.final_requests = v.final_requests
  BY <1>1, <1>3 DEF UpdaterFields
<1>6. /\ DOMAIN w.data = Window(v.first)
      /\ \A f \in Window(v.first) : DOMAIN w.data[f] = SlotFields
      /\ \A f \in Window(v.first) \ {frame} : w.data[f] = v.data[f]
      /\ w.data[frame].bundle = Absorb(v.data[frame].bundle, fb.bundle)
      /\ w.data[frame].made = v.data[frame].made
  BY <1>1, <1>3, <1>4 DEF UpdaterFields, SlotFields
<1>7. /\ w.global_frame \in Nat /\ v.global_frame <= w.global_frame /\ frame <= w.global_frame
      /\ w.global_frame <= v.first + Max_frames /\ w.global_frame <= MaxFrame
      /\ w.oldest_dirty_frame \in Nat /\ v.first < w.oldest_dirty_frame
      /\ w.oldest_dirty_frame <= v.oldest_dirty_frame /\ w.oldest_dirty_frame <= frame
      /\ w.oldest_dirty_frame <= w.global_frame + 1
      /\ (w.global_frame = v.global_frame \/ w.global_frame = frame)
  BY <1>1, <1>2, <1>5 DEF Greater, Lesser, InWindow, Window
<1>8. ASSUME NEW f \in v.first + 1 .. w.global_frame
      PROVE  SubBundle(w.data[f].bundle, all[f])
  <2>1. f \in Window(v.first)
    BY <1>1, <1>7 DEF Window
  <2>2. SubBundle(v.data[f].bundle, all[f])
    <3>1. CASE f <= v.global_frame
      <4>1. f \in v.first + 1 .. v.global_frame
        BY <1>1, <3>1
      <4> QED
        BY <4>1 DEF Ready
    <3>2. CASE f > v.global_frame
      <4>1. f \in v.global_frame + 1 .. frame
        BY <1>1, <1>7, <3>2
      <4>2. v.data[f].bundle = EmptyBundle
        BY <4>1 DEF Cleared
      <4> QED
        BY <4>2, EmptySubBundle
    <3> QED
      BY <1>1, <3>1, <3>2
  <2>3. CASE f = frame
    BY <1>6, <2>2, <2>3, AbsorbedSubBundle
  <2>4. CASE f # frame
    BY <1>6, <2>1, <2>2, <2>4
  <2> QED
    BY <2>3, <2>4
<1>9. ASSUME NEW f \in v.first .. w.oldest_dirty_frame - 1
      PROVE  /\ w.data[f] = v.data[f] /\ f \in v.first .. v.oldest_dirty_frame - 1
  <2>1. f \in Window(v.first) \ {frame} /\ f \in v.first .. v.oldest_dirty_frame - 1
    BY <1>1, <1>7 DEF Window
  <2> QED
    BY <1>6, <2>1
<1>10. ASSUME NEW f \in v.first + 1 .. w.oldest_dirty_frame - 1
       PROVE  Placeholder(w, f) \/ Linked(w.data, f)
  <2>1. w.data[f] = v.data[f] /\ w.data[f - 1] = v.data[f - 1]
    BY <1>1, <1>7, <1>9
  <2>2. f \in v.first + 1 .. v.oldest_dirty_frame - 1
    BY <1>1, <1>7
  <2>3. Placeholder(v, f) \/ Linked(v.data, f)
    BY <2>2 DEF Ready
  <2> QED
    BY <2>1, <2>3 DEF Placeholder, Linked
<1>11. Shape(w)
  BY <1>1, <1>5, <1>6, <1>7 DEF Ready, Shape
<1>12. Ready(w, all)
  <2>1. w.data[v.first] = v.data[v.first]
    BY <1>1, <1>7, <1>9
  <2>2. \A f \in v.first .. w.oldest_dirty_frame - 1 : Host \in w.data[f].info
    BY <1>9 DEF Ready
  <2> QED
    BY <1>5, <1>7, <1>8, <1>10, <1>11, <2>1, <2>2 DEF Ready
<1>13. Stored(v, w, fb)
  BY <1>5, <1>6 DEF Stored
<1> QED
  BY <1>5, <1>12, <1>13 DEF w

LEMMA StoreHolds ==
  ASSUME NEW v, NEW w, NEW fb, NEW got, Shape(v), w.first = v.first, Stored(v, w, fb),
         Cleared(v, fb.frame), fb.frame \in Frames, v.first < fb.frame, Holds(v, got)
  PROVE  Holds(w, Plus(got, fb))
<1> DEFINE frame == fb.frame
           more == Plus(got, fb)
<1>1. /\ v.first \in Nat /\ v.global_frame \in Nat /\ v.first <= v.global_frame
      /\ v.global_frame <= v.first + Max_frames /\ v.global_frame <= MaxFrame
      /\ BaseFrame <= v.first /\ DOMAIN got = Frames
      /\ BaseFrame \in Nat /\ MaxFrame \in Nat /\ frame \in BaseFrame + 1 .. MaxFrame
  BY Constants DEF Shape, Holds, Frames
<1>2. /\ DOMAIN more = Frames /\ more[frame] = Absorb(got[frame], fb.bundle)
      /\ \A f \in Frames : f # frame => more[f] = got[f]
  BY <1>1 DEF Plus
<1> HIDE DEF more
<1>3. ASSUME NEW f \in v.first + 1 .. w.global_frame
      PROVE  v.data[f].made /\ v.data[f].bundle = got[f] /\ f \in Window(v.first) /\ f \in Frames
  <2>1. CASE f <= v.global_frame
    <3>1. f \in v.first + 1 .. v.global_frame /\ f \in Window(v.first) /\ f \in Frames
      BY <1>1, <2>1 DEF Window, Frames
    <3> QED
      BY <3>1 DEF Holds
  <2>2. CASE f > v.global_frame
    <3>1. f \in v.global_frame + 1 .. frame
      BY <1>1, <2>2 DEF Stored, Greater
    <3>2. f \in Frames
      BY <1>1, <3>1 DEF Frames
    <3>3. f \in Window(v.first) /\ v.data[f].made /\ v.data[f].bundle = EmptyBundle
      BY <3>1 DEF Cleared
    <3>4. got[f] = EmptyBundle
      BY <2>2, <3>2 DEF Holds
    <3> QED
      BY <3>2, <3>3, <3>4
  <2> QED
    BY <1>1, <2>1, <2>2 DEF Stored, Greater
<1>4. ASSUME NEW f \in v.first + 1 .. w.global_frame
      PROVE  w.data[f].made /\ w.data[f].bundle = more[f]
  <2>1. CASE f = frame
    BY <1>2, <1>3, <2>1 DEF Stored
  <2>2. CASE f # frame
    <3>1. w.data[f] = v.data[f]
      BY <1>3, <2>2 DEF Stored
    <3> QED
      BY <1>2, <1>3, <2>2, <3>1
  <2> QED
    BY <2>1, <2>2
<1>5. ASSUME NEW f \in Frames, f > w.global_frame PROVE more[f] = EmptyBundle
  <2>1. f > v.global_frame /\ f # frame
    BY <1>1, <1>5 DEF Stored, Greater, Frames
  <2> QED
    BY <1>2, <2>1 DEF Holds
<1> QED
  BY <1>2, <1>4, <1>5 DEF Holds, more

LEMMA AdvancedHolds ==
  ASSUME NEW v, NEW w, NEW got, Shape(v), v.first <= w.first, w.first \in Nat,
         Advanced(v, w), Holds(v, got)
  PROVE  Holds(w, got)
<1>1. \A f \in w.first + 1 .. w.global_frame :
        f \in v.first + 1 .. v.global_frame /\ f \in w.first .. v.global_frame
  BY DEF Shape, Advanced
<1> QED
  BY <1>1 DEF Advanced, Holds

LEMMA UnchangedHolds ==
  ASSUME NEW v, NEW w, NEW got, Shape(v), w.first = v.first, Unchanged(v, w), Holds(v, got)
  PROVE  Holds(w, got)
<1>1. \A f \in v.first + 1 .. v.global_frame : f \in v.first .. v.global_frame
  BY DEF Shape
<1> QED
  BY <1>1 DEF Unchanged, Holds

(* The join frame is noticed once, in a bundle that is then stored.        *)
SkipRule(v, w) ==
  /\ v.global_frame <= w.global_frame
  /\ \/ w.skip_to_frame = v.skip_to_frame
     \/ v.skip_to_frame = -1 /\ w.skip_to_frame <= w.global_frame

LEMMA NoticeJoinReady ==
  ASSUME NEW v, NEW all, Ready(v, all), NEW fb, fb.frame \in Nat, Cleared(v, fb.frame)
  PROVE  LET w == NoticeJoin(v, fb)
         IN  /\ Ready(w, all) /\ Cleared(w, fb.frame) /\ Unchanged(v, w)
             /\ w.first = v.first /\ w.bootstrap_frames = v.bootstrap_frames
             /\ w.final_requests = v.final_requests
             /\ \/ w.skip_to_frame = v.skip_to_frame
                \/ v.skip_to_frame = -1 /\ w.skip_to_frame = fb.frame
<1> DEFINE w == NoticeJoin(v, fb)
<1>1. CASE w = v
  BY <1>1 DEF Unchanged
<1>2. CASE v.skip_to_frame = -1 /\ w = [v EXCEPT !.skip_to_frame = fb.frame]
  <2> HIDE DEF w
  <2>1. DOMAIN v = UpdaterFields
    BY DEF Ready, Shape
  <2>2. /\ DOMAIN w = UpdaterFields /\ w.skip_to_frame \in Int
        /\ w.id = v.id /\ w.first = v.first /\ w.data = v.data
        /\ w.global_frame = v.global_frame /\ w.oldest_dirty_frame = v.oldest_dirty_frame
        /\ w.bootstrap_frames = v.bootstrap_frames /\ w.panicked = v.panicked
        /\ w.final_requests = v.final_requests /\ w.skip_to_frame = fb.frame
    BY <1>2, <2>1 DEF UpdaterFields
  <2>3. Shape(w)
    BY <2>2 DEF Ready, Shape
  <2>4. Ready(w, all)
    BY <2>2, <2>3 DEF Ready, Placeholder
  <2>5. Cleared(w, fb.frame)
    BY <2>2 DEF Cleared
  <2> QED
    BY <1>2, <2>2, <2>4, <2>5 DEF w, Unchanged
<1> QED
  BY <1>1, <1>2 DEF NoticeJoin

(* A bundle of the session that a handler may be given.                    *)
FromSession(fb, all) ==
  /\ fb.frame \in Nat /\ fb.frame <= MaxFrame
  /\ fb.frame > BaseFrame => SubBundle(fb.bundle, all[fb.frame])

LEMMA AbsorbRemoteReady ==
  ASSUME NEW v, NEW all, Ready(v, all), NEW fb, FromSession(fb, all),
         ~AbsorbRemote(v, fb).panicked
  PROVE  LET w == AbsorbRemote(v, fb)
         IN  /\ Ready(w, all)
             /\ w.first = v.first /\ w.bootstrap_frames = v.bootstrap_frames
             /\ w.final_requests = v.final_requests /\ SkipRule(v, w)
             /\ \A got : Holds(v, got) => Holds(w, Plus(got, fb))
<1>0. /\ v.first \in Nat /\ v.global_frame \in Nat /\ v.first <= v.global_frame
      /\ v.global_frame <= MaxFrame /\ BaseFrame <= v.first
      /\ Shape(v) /\ fb.frame \in Nat /\ fb.frame <= MaxFrame
  BY DEF Ready, Shape, FromSession
<1>1. CASE fb.frame <= v.first
  <2>1. AbsorbRemote(v, fb) = v
    BY <1>1 DEF AbsorbRemote
  <2>2. ASSUME NEW got, Holds(v, got) PROVE Holds(v, Plus(got, fb))
    <3>1. \A f \in Frames : f > v.first => Plus(got, fb)[f] = got[f]
      BY <1>0, <1>1, <2>2 DEF Plus, Holds
    <3>2. DOMAIN Plus(got, fb) = Frames
      BY <2>2 DEF Plus, Holds
    <3>3. \A f \in v.first + 1 .. v.global_frame : f \in Frames /\ f > v.first
      BY <1>0, Constants DEF Frames
    <3>4. \A f \in Frames : f > v.global_frame => f > v.first
      BY <1>0, Constants DEF Frames
    <3> QED
      BY <2>2, <3>1, <3>2, <3>3, <3>4 DEF Holds
  <2> QED
    BY <1>0, <2>1, <2>2 DEF SkipRule
<1>2. CASE ~(fb.frame <= v.first)
  <2> DEFINE ready == InitFrames(v, fb.frame)
             noticed == NoticeJoin(ready, fb)
  <2>1. AbsorbRemote(v, fb) = Store(noticed, fb)
    BY <1>2 DEF AbsorbRemote, Ready
  <2>2. ~noticed.panicked
    BY <2>1 DEF Store
  <2>3. ~ready.panicked
    <3>1. CASE noticed = ready
      BY <2>2, <3>1
    <3>2. CASE ready = Panic(v)
      <4>1. DOMAIN v = UpdaterFields
        BY DEF Ready, Shape
      <4>2. noticed.panicked
        BY <3>2, <4>1 DEF NoticeJoin, Panic, UpdaterFields
      <4> QED
        BY <2>2, <4>2
    <3>3. CASE ready # Panic(v)
      <4>1. DOMAIN v = UpdaterFields /\ ~v.panicked
        BY DEF Ready, Shape
      <4>2. ready.panicked = v.panicked
        BY <3>3, <4>1 DEF InitFrames, UpdaterFields
      <4> QED
        BY <4>1, <4>2
    <3> QED
      BY <3>2, <3>3
  <2>4. fb.frame \in Nat /\ fb.frame <= MaxFrame
    BY DEF FromSession
  <2>5. /\ Ready(ready, all) /\ Cleared(ready, fb.frame) /\ Unchanged(v, ready)
        /\ ready.first = v.first /\ ready.bootstrap_frames = v.bootstrap_frames
        /\ ready.final_requests = v.final_requests
        /\ ready.skip_to_frame = v.skip_to_frame
    BY <2>3, <2>4, InitFramesReady
  <2>6. /\ Ready(noticed, all) /\ Cleared(noticed, fb.frame) /\ Unchanged(ready, noticed)
        /\ noticed.first = v.first /\ noticed.bootstrap_frames = v.bootstrap_frames
        /\ noticed.final_requests = v.final_requests
        /\ \/ noticed.skip_to_frame = v.skip_to_frame
           \/ v.skip_to_frame = -1 /\ noticed.skip_to_frame = fb.frame
    <3> HIDE DEF ready
    <3> QED
      BY <2>4, <2>5, NoticeJoinReady
  <2>7. v.first < fb.frame /\ SubBundle(fb.bundle, all[fb.frame])
    BY <1>2, <2>4, Constants DEF FromSession, Ready, Shape
  <2>8. ~Store(noticed, fb).panicked
    BY <2>1
  <2> HIDE DEF noticed, ready
  <2> DEFINE w == Store(noticed, fb)
  <2>9. /\ Ready(w, all) /\ Stored(noticed, w, fb) /\ w.first = v.first
        /\ w.bootstrap_frames = v.bootstrap_frames /\ w.skip_to_frame = noticed.skip_to_frame
        /\ w.final_requests = v.final_requests
    BY <2>4, <2>6, <2>7, <2>8, StoreReady
  <2> HIDE DEF w
  <2>10. SkipRule(v, w)
    <3>1. noticed.global_frame = v.global_frame
      BY <2>5, <2>6 DEF Unchanged
    <3>2. v.global_frame <= w.global_frame /\ fb.frame <= w.global_frame
      BY <1>0, <2>9, <3>1 DEF Stored, Greater
    <3> QED
      BY <2>6, <2>9, <3>2 DEF SkipRule
  <2>11. ASSUME NEW got, Holds(v, got) PROVE Holds(w, Plus(got, fb))
    <3>1. Shape(ready) /\ Shape(noticed) /\ fb.frame \in Frames
      BY <1>0, <2>5, <2>6, <2>7, Constants DEF Ready, Frames
    <3>2. Holds(noticed, got)
      BY <1>0, <2>5, <2>6, <2>11, <3>1, UnchangedHolds
    <3> QED
      BY <2>6, <2>7, <2>9, <3>1, <3>2, StoreHolds
  <2> QED
    BY <2>1, <2>9, <2>10, <2>11 DEF w
<1> QED
  BY <1>1, <1>2

(* gots[i] is what has been received when i bundles of a group are in.     *)
Gathered(v, gots, group, n) ==
  Holds(v, gots[0]) /\ \A i \in 1 .. n : gots[i] = Plus(gots[i - 1], group[i])

LEMMA AbsorbGroupReady ==
  ASSUME NEW v, NEW all, Ready(v, all), NEW group, Len(group) \in Nat,
         \A i \in 1 .. Len(group) : FromSession(group[i], all),
         ~AbsorbGroup(v, group)[Len(group)].panicked
  PROVE  LET w == AbsorbGroup(v, group)[Len(group)]
         IN  /\ Ready(w, all)
             /\ w.first = v.first /\ w.bootstrap_frames = v.bootstrap_frames
             /\ w.final_requests = v.final_requests /\ SkipRule(v, w)
             /\ \A gots : Gathered(v, gots, group, Len(group)) => Holds(w, gots[Len(group)])
<1> DEFINE after == AbsorbGroup(v, group)
           Good(w, n) ==
             /\ Ready(w, all)
             /\ w.first = v.first /\ w.bootstrap_frames = v.bootstrap_frames
             /\ w.final_requests = v.final_requests /\ SkipRule(v, w)
             /\ \A gots : Gathered(v, gots, group, n) => Holds(w, gots[n])
           S == {n \in Nat : n <= Len(group) => after[n].panicked \/ Good(after[n], n)}
<1>1. after = [i \in 0 .. Len(group) |->
                 IF i = 0 THEN v ELSE AbsorbRemote(after[i - 1], group[i])]
  BY AbsorbGroupDef
<1> HIDE DEF after
<1>2. 0 \in S
  BY <1>1 DEF SkipRule, Gathered, Ready, Shape
<1>3. ASSUME NEW n \in Nat, n \in S PROVE n + 1 \in S
  <2> SUFFICES ASSUME n + 1 <= Len(group), ~after[n + 1].panicked PROVE Good(after[n + 1], n + 1)
    OBVIOUS
  <2>1. after[n + 1] = AbsorbRemote(after[n], group[n + 1])
    BY <1>1
  <2>2. ~after[n].panicked
    BY <2>1 DEF AbsorbRemote
  <2>3. Good(after[n], n)
    BY <1>3, <2>2
  <2>4. FromSession(group[n + 1], all)
    OBVIOUS
  <2>5. ~AbsorbRemote(after[n], group[n + 1]).panicked
    BY <2>1
  <2>6. LET w == AbsorbRemote(after[n], group[n + 1])
        IN  /\ Ready(w, all)
            /\ w.first = after[n].first /\ w.bootstrap_frames = after[n].bootstrap_frames
            /\ w.final_requests = after[n].final_requests /\ SkipRule(after[n], w)
            /\ \A got : Holds(after[n], got) => Holds(w, Plus(got, group[n + 1]))
    BY <2>3, <2>4, <2>5, AbsorbRemoteReady
  <2>7. ASSUME NEW gots, Gathered(v, gots, group, n + 1)
        PROVE  Holds(after[n + 1], gots[n + 1])
    <3>1. Gathered(v, gots, group, n) /\ gots[n + 1] = Plus(gots[n], group[n + 1])
      BY <2>7 DEF Gathered
    <3> QED
      BY <2>1, <2>3, <2>6, <3>1
  <2>8. SkipRule(v, after[n + 1])
    <3>1. /\ v.global_frame \in Nat /\ after[n].global_frame \in Nat
          /\ after[n + 1].global_frame \in Nat
          /\ v.skip_to_frame \in Int /\ after[n].skip_to_frame \in Int
          /\ after[n + 1].skip_to_frame \in Int
      BY <2>1, <2>3, <2>6 DEF Ready, Shape
    <3> QED
      BY <2>1, <2>3, <2>6, <3>1 DEF SkipRule
  <2> QED
    BY <2>1, <2>3, <2>6, <2>7, <2>8
<1>4. Nat \subseteq S
  <2> HIDE DEF S
  <2> QED
    BY <1>2, <1>3, SetInduction
<1>5. Len(group) \in S
  BY <1>4
<1>6. ~after[Len(group)].panicked
  BY DEF after
<1> QED
  BY <1>5, <1>6 DEF after

(* A group of remote bundles, in any order, with any gaps.                 *)
LEMMA HandleRemoteExtends ==
  ASSUME NEW v, NEW all, Steady(v, all), HostRules(all), NEW group, Len(group) \in Nat,
         \A i \in 1 .. Len(group) : FromSession(group[i], all),
         ~HandleRemote(v, group).panicked
  PROVE  LET w == HandleRemote(v, group)
         IN  /\ Steady(w, all) /\ Extends(v, w, all)
             /\ w.final_requests = ServedUpTo(v.final_requests, v.first, w.first)
             /\ SkipRule(v, w) /\ Waits(w)
             /\ \A gots : Gathered(v, gots, group, Len(group)) => Holds(w, gots[Len(group)])
<1> DEFINE x == AbsorbGroup(v, group)[Len(group)]
           w == HandleRemote(v, group)
<1>1. w = advance(x)
  BY DEF HandleRemote
<1>2. ~x.panicked
  BY <1>1 DEF advance
<1>3. /\ Ready(x, all)
      /\ x.first = v.first /\ x.bootstrap_frames = v.bootstrap_frames
      /\ x.final_requests = v.final_requests /\ SkipRule(v, x)
      /\ \A gots : Gathered(v, gots, group, Len(group)) => Holds(x, gots[Len(group)])
  BY <1>2, AbsorbGroupReady DEF Steady
<1> HIDE DEF x, w
<1>4. /\ Steady(w, all) /\ Extends(x, w, all) /\ Advanced(x, w)
      /\ w.skip_to_frame = x.skip_to_frame
  BY <1>1, <1>3, AdvanceExtends
<1>5. SkipRule(v, w)
  BY <1>3, <1>4 DEF SkipRule, Advanced
<1>6. \A got : Holds(x, got) => Holds(w, got)
  <2>1. Shape(x) /\ x.first <= w.first /\ w.first \in Nat
    BY <1>3, <1>4 DEF Extends, Steady, Ready, Shape
  <2> QED
    BY <1>4, <2>1, AdvancedHolds
<1> QED
  BY <1>3, <1>4, <1>5, <1>6 DEF Extends, Advanced, w

-----------------------------------------------------------------------------
(* A local bundle.                                                         *)

LEMMA InitFramesFields ==
  ASSUME NEW v, NEW frame, DOMAIN v = UpdaterFields, ~InitFrames(v, frame).panicked
  PROVE  LET w == InitFrames(v, frame)
         IN  /\ DOMAIN w = UpdaterFields /\ w.first = v.first /\ ~v.panicked
             /\ w.oldest_dirty_frame = v.oldest_dirty_frame
<1>1. CASE InitFrames(v, frame) = Panic(v)
  BY <1>1 DEF Panic, UpdaterFields
<1>2. CASE InitFrames(v, frame) # Panic(v)
  BY <1>2 DEF InitFrames, UpdaterFields
<1> QED
  BY <1>1, <1>2

LEMMA StoreFields ==
  ASSUME NEW v, NEW fb, DOMAIN v = UpdaterFields, ~Store(v, fb).panicked
  PROVE  LET w == Store(v, fb)
         IN  /\ w.first = v.first /\ ~v.panicked
             /\ w.oldest_dirty_frame = Lesser(v.oldest_dirty_frame, fb.frame)
<1>1. ~v.panicked
  BY DEF Store
<1>2. CASE Store(v, fb) = Panic(v)
  BY <1>2 DEF Panic, UpdaterFields
<1>3. CASE Store(v, fb) # Panic(v)
  BY <1>1, <1>3 DEF Store, UpdaterFields
<1> QED
  BY <1>2, <1>3

(* The skipped frames get the empty bundle of this engine.                 *)
Filled(v, w, frame) ==
  /\ w.global_frame = v.global_frame
  /\ \A f \in v.first + 1 .. v.global_frame :
       /\ w.data[f].made = v.data[f].made
       /\ w.data[f].bundle = IF f \in Skipped(v, frame)
                               THEN Absorb(v.data[f].bundle, Only(Self, NoEvents))
                             ELSE v.data[f].bundle

(* The join frame is after the start of the window: advance() panics       *)
(* otherwise.                                                              *)
LEMMA FillSkippedReady ==
  ASSUME NEW v, NEW all, Ready(v, all), NEW frame \in Nat, frame <= MaxFrame,
         \A f \in Skipped(v, frame) \cap Frames : SubBundle(Only(Self, NoEvents), all[f]),
         ~FillSkipped(v, frame).panicked,
         v.first < FillSkipped(v, frame).oldest_dirty_frame
  PROVE  LET w == FillSkipped(v, frame)
         IN  /\ Ready(w, all) /\ Filled(v, w, frame) /\ w.skip_to_frame = 0
             /\ w.first = v.first /\ w.bootstrap_frames = v.bootstrap_frames
             /\ w.final_requests = v.final_requests
<1> DEFINE w == FillSkipped(v, frame)
           dummy == Only(v.id, NoEvents)
           skipped == Skipped(v, frame)
<1>1. /\ v.first \in Nat /\ v.global_frame \in Nat /\ v.oldest_dirty_frame \in Nat
      /\ v.first < v.oldest_dirty_frame /\ v.oldest_dirty_frame <= v.global_frame + 1
      /\ v.global_frame <= v.first + Max_frames /\ v.skip_to_frame \in Int
      /\ DOMAIN v = UpdaterFields /\ DOMAIN v.data = Window(v.first)
      /\ \A f \in Window(v.first) : DOMAIN v.data[f] = SlotFields
      /\ ~v.panicked /\ v.id = Self /\ BaseFrame <= v.first /\ v.global_frame <= MaxFrame
  BY DEF Ready, Shape
<1>2. CASE v.skip_to_frame = 0
  BY <1>2 DEF FillSkipped, Filled, Skipped
<1>3. CASE v.skip_to_frame # 0
  <2> DEFINE data == [f \in DOMAIN v.data |->
                        IF f \in skipped
                          THEN [v.data[f] EXCEPT !.bundle = Absorb(@, dummy)]
                          ELSE v.data[f]]
  <2>1. w = [v EXCEPT !.oldest_dirty_frame = Lesser(@, v.skip_to_frame),
                      !.data = data, !.skip_to_frame = 0]
    <3>1. w # Panic(v)
      BY <1>1 DEF Panic, UpdaterFields
    <3>2. ~(\E f \in skipped : ~InWindow(v, f) \/ CannotAbsorb(v.data[f], dummy))
      <4> HIDE DEF skipped, dummy
      <4>1. (\E f \in skipped : ~InWindow(v, f) \/ CannotAbsorb(v.data[f], dummy))
              => w = Panic(v)
        BY <1>3 DEF FillSkipped, skipped, dummy
      <4> QED
        BY <3>1, <4>1
    <3> QED
      BY <1>3, <3>2 DEF FillSkipped
  <2> HIDE DEF w, data
  <2>2. /\ DOMAIN w = UpdaterFields /\ w.data = data /\ w.skip_to_frame = 0
        /\ w.oldest_dirty_frame = Lesser(v.oldest_dirty_frame, v.skip_to_frame)
        /\ w.id = v.id /\ w.first = v.first /\ w.global_frame = v.global_frame
        /\ w.bootstrap_frames = v.bootstrap_frames /\ ~w.panicked
        /\ w.final_requests = v.final_requests
    BY <1>1, <2>1 DEF UpdaterFields
  <2>3. v.first < w.oldest_dirty_frame
    BY DEF w
  <2>4. /\ w.oldest_dirty_frame \in Nat /\ w.oldest_dirty_frame <= v.oldest_dirty_frame
        /\ w.oldest_dirty_frame <= v.skip_to_frame
    BY <1>1, <2>2, <2>3 DEF Lesser
  <2>5. \A f \in skipped : f >= w.oldest_dirty_frame /\ f \in Int
    BY <1>1, <2>4 DEF Skipped
  <2>6. /\ DOMAIN data = Window(v.first)
        /\ \A f \in Window(v.first) : DOMAIN data[f] = SlotFields
    BY <1>1 DEF data, SlotFields
  <2>7. ASSUME NEW f \in v.first .. w.oldest_dirty_frame - 1
        PROVE  data[f] = v.data[f] /\ f \in v.first .. v.oldest_dirty_frame - 1
    <3>1. f \in Window(v.first) /\ f \notin skipped /\ f \in v.first .. v.oldest_dirty_frame - 1
      BY <1>1, <2>4, <2>5 DEF Window
    <3> QED
      BY <1>1, <3>1 DEF data
  <2>8. ASSUME NEW f \in v.first + 1 .. v.global_frame
        PROVE  SubBundle(data[f].bundle, all[f])
    <3>0. f \in Window(v.first) /\ f \in Frames
      BY <1>1, Constants DEF Window, Frames
    <3>1. SubBundle(v.data[f].bundle, all[f]) /\ f \in Window(v.first) /\ f \in Frames
      BY <3>0 DEF Ready
    <3>2. CASE f \in skipped
      <4>1. data[f].bundle = Absorb(v.data[f].bundle, dummy)
        BY <1>1, <3>1, <3>2 DEF data, SlotFields
      <4>2. SubBundle(dummy, all[f])
        BY <1>1, <3>1, <3>2
      <4> QED
        BY <3>1, <4>1, <4>2, AbsorbedSubBundle
    <3>3. CASE f \notin skipped
      BY <1>1, <3>1, <3>3 DEF data
    <3> QED
      BY <3>2, <3>3
  <2>9. ASSUME NEW f \in v.first + 1 .. w.oldest_dirty_frame - 1
        PROVE  Placeholder(w, f) \/ Linked(data, f)
    <3>1. /\ f \in v.first .. w.oldest_dirty_frame - 1
          /\ f - 1 \in v.first .. w.oldest_dirty_frame - 1
          /\ f \in v.first + 1 .. v.oldest_dirty_frame - 1
      BY <1>1, <2>4
    <3>2. data[f] = v.data[f] /\ data[f - 1] = v.data[f - 1]
      BY <2>7, <3>1
    <3>3. Placeholder(v, f) \/ Linked(v.data, f)
      BY <3>1 DEF Ready
    <3> QED
      BY <2>2, <3>2, <3>3 DEF Placeholder, Linked
  <2>10. Shape(w)
    BY <1>1, <2>2, <2>4, <2>6 DEF Ready, Shape
  <2>11. data[v.first] = v.data[v.first]
    BY <1>1, <2>3, <2>4, <2>7
  <2>12. \A f \in v.first .. w.oldest_dirty_frame - 1 : Host \in data[f].info
    BY <2>7 DEF Ready
  <2>13. Ready(w, all)
    BY <1>1, <2>2, <2>3, <2>4, <2>8, <2>9, <2>10, <2>11, <2>12 DEF Ready
  <2>14. ASSUME NEW f \in v.first + 1 .. v.global_frame
         PROVE  /\ data[f].made = v.data[f].made
                /\ data[f].bundle = IF f \in skipped THEN Absorb(v.data[f].bundle, dummy)
                                    ELSE v.data[f].bundle
    <3>1. f \in Window(v.first)
      BY <1>1 DEF Window
    <3> HIDE DEF skipped, dummy
    <3> QED
      BY <1>1, <3>1 DEF data, SlotFields
  <2>15. Filled(v, w, frame)
    BY <1>1, <2>2, <2>14 DEF Filled
  <2> QED
    BY <2>2, <2>13, <2>15 DEF w
<1> QED
  BY <1>2, <1>3

LEMMA LocalFrameReady ==
  ASSUME NEW v, NEW all, Ready(v, all), NEW frame
  PROVE  LET w == [v EXCEPT !.local_frame = frame]
         IN  /\ Ready(w, all) /\ w.skip_to_frame = v.skip_to_frame
             /\ w.first = v.first /\ w.bootstrap_frames = v.bootstrap_frames
             /\ w.final_requests = v.final_requests
             /\ w.data = v.data /\ w.global_frame = v.global_frame
<1> DEFINE w == [v EXCEPT !.local_frame = frame]
<1>1. DOMAIN v = UpdaterFields
  BY DEF Ready, Shape
<1>2. /\ DOMAIN w = UpdaterFields /\ w.skip_to_frame = v.skip_to_frame
      /\ w.id = v.id /\ w.first = v.first /\ w.data = v.data
      /\ w.global_frame = v.global_frame /\ w.oldest_dirty_frame = v.oldest_dirty_frame
      /\ w.bootstrap_frames = v.bootstrap_frames /\ w.panicked = v.panicked
      /\ w.final_requests = v.final_requests
  BY <1>1 DEF UpdaterFields
<1> HIDE DEF w
<1>3. Shape(w)
  BY <1>2 DEF Ready, Shape
<1>4. Ready(w, all)
  BY <1>2, <1>3 DEF Ready, Placeholder
<1> QED
  BY <1>2, <1>4 DEF w

LEMMA FastRequestsKeepSteady ==
  ASSUME NEW v, NEW all, Steady(v, all), ~fulfillFastRequests(v).panicked
  PROVE  LET w == fulfillFastRequests(v)
         IN  /\ Steady(w, all) /\ w.skip_to_frame = v.skip_to_frame
             /\ w.first = v.first /\ w.bootstrap_frames = v.bootstrap_frames
             /\ w.final_requests = v.final_requests
             /\ w.data = v.data /\ w.global_frame = v.global_frame
<1> DEFINE w == fulfillFastRequests(v)
<1>1. DOMAIN v = UpdaterFields /\ ~v.panicked
  BY DEF Steady, Ready, Shape
<1>2. w # Panic(v)
  BY <1>1 DEF Panic, UpdaterFields
<1>3. w = [v EXCEPT !.fast_requests = Unserved(@, v.local_frame)]
  BY <1>1, <1>2 DEF fulfillFastRequests
<1> HIDE DEF w
<1>4. /\ DOMAIN w = UpdaterFields /\ w.skip_to_frame = v.skip_to_frame
      /\ w.id = v.id /\ w.first = v.first /\ w.data = v.data
      /\ w.global_frame = v.global_frame /\ w.oldest_dirty_frame = v.oldest_dirty_frame
      /\ w.bootstrap_frames = v.bootstrap_frames /\ w.panicked = v.panicked
      /\ w.final_requests = v.final_requests
  BY <1>1, <1>3 DEF UpdaterFields
<1>5. Shape(w)
  BY <1>4 DEF Steady, Ready, Shape
<1>6. Steady(w, all)
  BY <1>4, <1>5 DEF Steady, Ready, Placeholder
<1> QED
  BY <1>4, <1>6 DEF w

(* A local bundle that is not discarded, with all its broadcasts issued.   *)
LEMMA HandleLocalExtends ==
  ASSUME NEW v, NEW all, Steady(v, all), HostRules(all),
         NEW fb, fb.frame \in Nat, fb.frame <= MaxFrame, ~Discards(v, fb.frame),
         \A f \in Skipped(v, fb.frame) \cap Frames : SubBundle(Only(Self, NoEvents), all[f]),
         fb.frame \in Frames => SubBundle(fb.bundle, all[fb.frame]),
         ~HandleLocal(v, fb).panicked
  PROVE  LET w == HandleLocal(v, fb)
         IN  /\ Steady(w, all) /\ Extends(v, w, all) /\ w.skip_to_frame = 0
             /\ v.first < fb.frame
             /\ v.skip_to_frame # 0 => v.first < v.skip_to_frame
             /\ w.final_requests = ServedUpTo(v.final_requests, v.first, w.first)
             /\ v.global_frame <= w.global_frame /\ Waits(w)
             /\ \A got : Holds(v, got) /\ Skipped(v, fb.frame) \subseteq v.first + 1 .. v.global_frame
                  => Holds(w, PlusAll(got, Broadcast(v, fb)))
<1> DEFINE frame == fb.frame
           filled == FillSkipped(v, frame)
           ticked == [filled EXCEPT !.local_frame = frame]
           ready == InitFrames(ticked, frame)
           stored == Store(ready, fb)
           advanced == advance(stored)
           w == HandleLocal(v, fb)
<1>1. /\ v.first \in Nat /\ v.oldest_dirty_frame \in Nat /\ v.skip_to_frame \in Int
      /\ BaseFrame <= v.first
      /\ DOMAIN v = UpdaterFields /\ ~v.panicked /\ Ready(v, all)
  BY DEF Steady, Ready, Shape
<1>2. ~filled.panicked /\ w = fulfillFastRequests(advanced)
  BY DEF HandleLocal
<1>3. ~advanced.panicked
  BY <1>2 DEF fulfillFastRequests
<1>4. ~stored.panicked
  BY <1>3 DEF advance
<1>5. ~ready.panicked
  BY <1>4 DEF Store
<1>6. filled # Panic(v)
  BY <1>1, <1>2 DEF Panic, UpdaterFields
<1>7. /\ DOMAIN filled = UpdaterFields /\ filled.first = v.first
      /\ filled.oldest_dirty_frame =
           IF v.skip_to_frame = 0 THEN v.oldest_dirty_frame
           ELSE Lesser(v.oldest_dirty_frame, v.skip_to_frame)
  BY <1>1, <1>6 DEF FillSkipped, UpdaterFields
<1> HIDE DEF filled
<1>8. /\ DOMAIN ticked = UpdaterFields /\ ticked.first = v.first
      /\ ticked.oldest_dirty_frame = filled.oldest_dirty_frame
  BY <1>7 DEF UpdaterFields
<1> HIDE DEF ticked
<1>9. /\ DOMAIN ready = UpdaterFields /\ ready.first = v.first
      /\ ready.oldest_dirty_frame = filled.oldest_dirty_frame
  BY <1>5, <1>8, InitFramesFields
<1> HIDE DEF ready
<1>10. /\ stored.first = v.first
       /\ stored.oldest_dirty_frame = Lesser(filled.oldest_dirty_frame, frame)
  BY <1>4, <1>9, StoreFields
<1>11. InWindow(stored, stored.oldest_dirty_frame - 1)
  <2> HIDE DEF stored
  <2>1. CASE ~InWindow(stored, stored.oldest_dirty_frame - 1)
    <3>1. advanced = Panic(stored)
      BY <1>4, <2>1 DEF advance
    <3>2. DOMAIN stored = UpdaterFields
      BY <1>4, <1>9 DEF stored, Store, Panic, UpdaterFields
    <3> QED
      BY <1>3, <3>1, <3>2 DEF Panic, UpdaterFields
  <2> QED
    BY <2>1
<1> HIDE DEF stored
<1>12. /\ v.first < filled.oldest_dirty_frame /\ v.first < frame
       /\ v.skip_to_frame # 0 => v.first < v.skip_to_frame
  <2>1. stored.oldest_dirty_frame - 1 >= v.first
    BY <1>1, <1>7, <1>10, <1>11 DEF InWindow, Window, Lesser
  <2> QED
    BY <1>1, <1>7, <1>10, <2>1 DEF Lesser
<1>13. /\ Ready(filled, all) /\ Filled(v, filled, frame) /\ filled.skip_to_frame = 0
       /\ filled.first = v.first /\ filled.bootstrap_frames = v.bootstrap_frames
       /\ filled.final_requests = v.final_requests
  BY <1>1, <1>2, <1>12, FillSkippedReady DEF filled
<1>14. /\ Ready(ticked, all) /\ ticked.skip_to_frame = 0
       /\ ticked.bootstrap_frames = v.bootstrap_frames
       /\ ticked.final_requests = v.final_requests
       /\ ticked.data = filled.data /\ ticked.global_frame = filled.global_frame
  BY <1>13, LocalFrameReady DEF ticked
<1>15. /\ Ready(ready, all) /\ Cleared(ready, frame) /\ ready.skip_to_frame = 0
       /\ ready.bootstrap_frames = v.bootstrap_frames
       /\ Unchanged(ticked, ready) /\ ready.final_requests = v.final_requests
  BY <1>5, <1>14, InitFramesReady DEF ready
<1>16. frame \in Frames
  BY <1>1, <1>12, Constants DEF Frames
<1>17. /\ Ready(stored, all) /\ Stored(ready, stored, fb) /\ stored.skip_to_frame = 0
       /\ stored.bootstrap_frames = v.bootstrap_frames
       /\ stored.final_requests = v.final_requests
  BY <1>4, <1>9, <1>12, <1>15, <1>16, StoreReady DEF stored
<1>18. /\ Steady(advanced, all) /\ Extends(stored, advanced, all) /\ Advanced(stored, advanced)
       /\ advanced.skip_to_frame = 0
  BY <1>17, AdvanceExtends
<1> HIDE DEF advanced
<1>19. /\ Steady(w, all) /\ w.skip_to_frame = 0
       /\ w.first = advanced.first /\ w.bootstrap_frames = advanced.bootstrap_frames
       /\ w.final_requests = advanced.final_requests
       /\ w.data = advanced.data /\ w.global_frame = advanced.global_frame
  BY <1>2, <1>18, FastRequestsKeepSteady
<1>20. Extends(v, w, all)
  BY <1>10, <1>17, <1>18, <1>19 DEF Extends
<1> HIDE DEF w
<1>21. /\ w.final_requests = ServedUpTo(v.final_requests, v.first, w.first)
       /\ Waits(w)
  BY <1>10, <1>17, <1>18, <1>19 DEF Advanced, Waits
<1>22. v.global_frame <= w.global_frame
  <2>1. ready.global_frame = v.global_frame
    BY <1>13, <1>14, <1>15 DEF Filled, Unchanged
  <2>2. w.global_frame = Greater(v.global_frame, frame)
    BY <1>17, <1>18, <1>19, <2>1 DEF Advanced, Stored
  <2>3. v.global_frame \in Nat
    BY <1>1 DEF Ready, Shape
  <2> QED
    BY <2>2, <2>3 DEF Greater
<1>23. ASSUME NEW got, Holds(v, got), Skipped(v, frame) \subseteq v.first + 1 .. v.global_frame
       PROVE  Holds(w, PlusAll(got, Broadcast(v, fb)))
  <2> DEFINE dummy == Only(Self, NoEvents)
             skipped == Skipped(v, frame)
             owed == [f \in DOMAIN got |-> IF f \in skipped THEN Absorb(got[f], dummy) ELSE got[f]]
  <2>1. Holds(filled, owed)
    <3>1. ASSUME NEW f \in v.first + 1 .. v.global_frame
          PROVE  filled.data[f].made /\ filled.data[f].bundle = owed[f]
      <4>1. f \in Frames
        BY <1>1, Constants DEF Ready, Shape, Frames
      <4>2. v.data[f].made /\ v.data[f].bundle = got[f] /\ f \in DOMAIN got
        BY <1>23, <4>1 DEF Holds
      <4>3. /\ filled.data[f].made = v.data[f].made
            /\ filled.data[f].bundle = IF f \in skipped THEN Absorb(v.data[f].bundle, dummy)
                                       ELSE v.data[f].bundle
        BY <1>13 DEF Filled
      <4> HIDE DEF skipped, dummy
      <4> QED
        BY <4>2, <4>3
    <3>2. ASSUME NEW f \in Frames, f > v.global_frame PROVE owed[f] = EmptyBundle
      <4>1. f \notin skipped
        BY <1>1, <1>23, <3>2 DEF Ready, Shape
      <4>2. got[f] = EmptyBundle /\ f \in DOMAIN got
        BY <1>23, <3>2 DEF Holds
      <4> HIDE DEF skipped, dummy
      <4> QED
        BY <4>1, <4>2
    <3>3. DOMAIN owed = Frames /\ filled.first = v.first /\ filled.global_frame = v.global_frame
      BY <1>13, <1>23 DEF Holds, Filled
    <3> HIDE DEF owed
    <3> QED
      BY <3>1, <3>2, <3>3 DEF Holds
  <2> HIDE DEF owed
  <2>2. Holds(ticked, owed)
    BY <1>8, <1>13, <1>14, <2>1 DEF Holds
  <2>3. Holds(ready, owed)
    BY <1>8, <1>9, <1>14, <1>15, <2>2, UnchangedHolds DEF Ready
  <2>4. Holds(stored, Plus(owed, fb))
    BY <1>9, <1>10, <1>12, <1>15, <1>16, <1>17, <2>3, StoreHolds DEF Ready
  <2>5. Plus(owed, fb) = PlusAll(got, Broadcast(v, fb))
    <3> DEFINE sent == Broadcast(v, fb)
    <3>1. /\ DOMAIN sent = skipped \cup {frame} /\ frame \notin skipped
          /\ sent[frame] = fb.bundle /\ \A f \in skipped : sent[f] = dummy
      <4>1. v.id = Self
        BY <1>1 DEF Ready, Shape
      <4>2. frame \notin skipped
        BY <1>1 DEF Skipped
      <4> QED
        BY <4>1, <4>2 DEF Broadcast
    <3>2. DOMAIN owed = DOMAIN got
      BY DEF owed
    <3> HIDE DEF sent, dummy, skipped
    <3> QED
      BY <3>1, <3>2 DEF owed, Plus, PlusAll, sent
  <2>6. Holds(advanced, Plus(owed, fb))
    <3>1. Shape(stored) /\ stored.first <= advanced.first /\ advanced.first \in Nat
      BY <1>17, <1>18 DEF Extends, Steady, Ready, Shape
    <3> QED
      BY <1>18, <2>4, <3>1, AdvancedHolds
  <2> QED
    BY <1>19, <2>5, <2>6 DEF Holds
<1> QED
  BY <1>12, <1>19, <1>20, <1>21, <1>22, <1>23 DEF w

-----------------------------------------------------------------------------
(* The inductive invariant.                                                *)

(* What the session has issued, and what of it is on its way.              *)
SessionInv ==
  /\ DOMAIN issued = BaseFrame .. MaxFrame
  /\ HostRules(issued)
  /\ \A p \in inflight :
       /\ p = <<p[1], p[2]>>
       /\ p[2] \in BaseFrame .. MaxFrame /\ p[1] \in DOMAIN issued[p[2]]

(* The final states sent so far; a panic does not take them back.          *)
SentInv ==
  /\ DOMAIN u = UpdaterFields
  /\ u.first \in Nat /\ BaseFrame <= u.first /\ u.first <= MaxFrame
  /\ DOMAIN u.bootstrap_frames = BaseFrame .. u.first
  /\ u.bootstrap_frames[BaseFrame].info = Founders /\ u.bootstrap_frames[BaseFrame].game = <<>>
  /\ \A f \in BaseFrame + 1 .. u.first : Settled(u.bootstrap_frames, f, issued[f])

RunInv == ~u.panicked => Steady(u, issued)

(* This engine has sent nothing for the frames its clock has not reached,  *)
(* and nothing at all before it knows its join frame.                      *)
OwnInv ==
  /\ clock \in Nat
  /\ \A f \in Frames : f >= clock => Self \notin DOMAIN issued[f]
  /\ ~u.panicked /\ u.skip_to_frame # 0 => \A f \in Frames : Self \notin DOMAIN issued[f]

IInv == SessionInv /\ SentInv /\ RunInv /\ OwnInv

(* The clock of a client that joins runs at most one frame ahead of the    *)
(* session; a host joins nobody.                                           *)
Punctual == Bootstrapped => MaxAhead <= 1 /\ FirstTick <= BaseFrame + 2

Got == [f \in Frames |-> ReceivedBundle(f)]

(* Before the first bundle it sends, an engine owes no frame beyond the    *)
(* newest one it knows.                                                    *)
JoinInv ==
  u.skip_to_frame # 0 =>
    Bootstrapped /\ clock <= u.global_frame + 1 /\ u.skip_to_frame <= u.global_frame

WindowInv == ~u.panicked => Holds(u, Got) /\ Waits(u) /\ JoinInv
KeepsWindow == Punctual /\ WindowInv => WindowInv'

(* The callers that wait for a final state, and what they have asked for.  *)
AwaitsFinal(c) == calls[c].status = "waiting" /\ calls[c].final
Request(c) == [caller |-> c, frame |-> calls[c].asked]

(* A caller waits for a final state exactly while its request is queued.   *)
QueueInv ==
  /\ \A c \in Callers : AwaitsFinal(c) => Asked(u.final_requests, Request(c))
  /\ \A r : Asked(u.final_requests, r) =>
       r.caller \in Callers /\ AwaitsFinal(r.caller) /\ r = Request(r.caller)

CallsInv ==
  /\ DOMAIN calls = Callers
  /\ u.final_requests \in Seq(RequestType)
  /\ ~u.panicked => QueueInv
  /\ FinalAnswersAgree
KeepsCalls == CallsInv => CallsInv'

LEMMA SubBundleTransitive ==
  ASSUME NEW a, NEW b, NEW c, SubBundle(a, b), SubBundle(b, c)
  PROVE  SubBundle(a, c)
BY DEF SubBundle

LEMMA InitInv == Init => IInv /\ (Punctual => WindowInv)
<1> SUFFICES ASSUME Init PROVE IInv /\ (Punctual => WindowInv)
  OBVIOUS
<1>1. /\ BaseFrame \in Nat /\ MaxFrame \in Nat /\ BaseFrame < MaxFrame /\ FirstTick \in Nat
      /\ Host \in Founders /\ Frames = BaseFrame + 1 .. MaxFrame
  BY Constants DEF Frames
<1>2. /\ DOMAIN issued = BaseFrame .. MaxFrame
      /\ \A f \in Frames : issued[f] = EmptyBundle
      /\ Bootstrapped => issued[BaseFrame] = [id \in Founders |-> NoEvents]
  BY <1>1 DEF Init
<1>3. \A f \in Frames : DOMAIN issued[f] = {}
  BY <1>2 DEF EmptyBundle
<1>4. SessionInv
  <2>1. HostRules(issued)
    BY <1>3 DEF HostRules
  <2>2. ASSUME NEW p \in inflight
        PROVE  /\ p = <<p[1], p[2]>>
               /\ p[2] \in BaseFrame .. MaxFrame /\ p[1] \in DOMAIN issued[p[2]]
    <3>1. Bootstrapped /\ p \in {<<id, BaseFrame>> : id \in Founders}
      BY DEF Init
    <3> QED
      BY <1>1, <1>2, <3>1
  <2> QED
    BY <1>2, <2>1, <2>2 DEF SessionInv
<1>5. OwnInv
  BY <1>1, <1>3 DEF OwnInv, Init
<1>6. /\ DOMAIN u = UpdaterFields /\ u.id = Self /\ u.first = BaseFrame /\ ~u.panicked
      /\ DOMAIN u.bootstrap_frames = BaseFrame .. BaseFrame
      /\ DOMAIN u.data = Window(BaseFrame)
      /\ \A f \in Window(BaseFrame) : DOMAIN u.data[f] = SlotFields
      /\ u.skip_to_frame \in Int
      /\ u.data[BaseFrame].info = Founders /\ u.data[BaseFrame].game = <<>>
      /\ u.bootstrap_frames[BaseFrame].info = Founders
      /\ u.bootstrap_frames[BaseFrame].game = u.data[BaseFrame].game
      /\ u.oldest_dirty_frame = u.global_frame + 1
      /\ \/ u.global_frame = BaseFrame
         \/ /\ Bootstrapped /\ u.global_frame = BaseFrame + 1
            /\ u.data[BaseFrame + 1].info = Founders
            /\ u.data[BaseFrame + 1].bundle = EmptyBundle /\ u.data[BaseFrame + 1].made
      /\ u.skip_to_frame = IF Bootstrapped THEN -1 ELSE 0
      /\ Bootstrapped => u.global_frame = BaseFrame + 1
  <2>0. BaseFrame \in Window(BaseFrame) /\ BaseFrame + 1 \in Window(BaseFrame)
    BY <1>1 DEF Window
  <2>1. CASE ~Bootstrapped
    <3> DEFINE base == FrameData(Founders, <<>>, EmptyBundle)
               data == [f \in Window(BaseFrame) |->
                          IF f = BaseFrame THEN base ELSE ZeroFrameData(base.game)]
    <3>1. u = NewUpdater(Self, BaseFrame, data)
      BY <2>1 DEF Init, Start
    <3>2. \A f \in Window(BaseFrame) : DOMAIN data[f] = SlotFields
      BY DEF FrameData, ZeroFrameData, SlotFields
    <3>3. data[BaseFrame].info = Founders /\ data[BaseFrame].game = <<>> /\ DOMAIN data = Window(BaseFrame)
      BY <2>0 DEF FrameData
    <3> HIDE DEF data
    <3> QED
      BY <1>1, <2>1, <3>1, <3>2, <3>3 DEF NewUpdater, UpdaterFields
  <2>2. CASE Bootstrapped
    <3> DEFINE data == [f \in Window(BaseFrame) |->
                 CASE f = BaseFrame -> FrameData(Founders, <<>>, [k \in Founders |-> NoEvents])
                   [] f = BaseFrame + 1 -> FrameData(Founders, <<>>, EmptyBundle)
                   [] OTHER -> ZeroFrameData(<<>>)]
    <3>1. u = [NewUpdater(Self, BaseFrame, data) EXCEPT
                 !.skip_to_frame = -1,
                 !.local_frame = BaseFrame + 1,
                 !.global_frame = BaseFrame + 1,
                 !.oldest_dirty_frame = BaseFrame + 2]
      BY <2>2 DEF Init, Bootstrap, BootFrame
    <3>2. \A f \in Window(BaseFrame) : DOMAIN data[f] = SlotFields
      BY DEF FrameData, ZeroFrameData, SlotFields
    <3>3. data[BaseFrame].info = Founders /\ data[BaseFrame].game = <<>> /\ DOMAIN data = Window(BaseFrame)
      BY <2>0 DEF FrameData
    <3>4. /\ data[BaseFrame + 1].info = Founders /\ data[BaseFrame + 1].bundle = EmptyBundle
          /\ data[BaseFrame + 1].made
      BY <1>1, <2>0 DEF FrameData
    <3> HIDE DEF data
    <3> QED
      BY <1>1, <2>2, <3>1, <3>2, <3>3, <3>4 DEF NewUpdater, UpdaterFields
  <2> QED
    BY <2>1, <2>2
<1>7. SentInv
  BY <1>1, <1>6 DEF SentInv
<1>8. Steady(u, issued)
  <2>1. Shape(u)
    BY <1>1, <1>6 DEF Shape
  <2>2. ASSUME NEW f \in u.first + 1 .. u.global_frame
        PROVE  /\ SubBundle(u.data[f].bundle, issued[f]) /\ Placeholder(u, f)
               /\ Host \in u.data[f].info
    <3>1. f = BaseFrame + 1 /\ Bootstrapped /\ u.global_frame = BaseFrame + 1
      BY <1>1, <1>6
    <3>2. u.data[f].info = Founders /\ u.data[f].bundle = EmptyBundle
      BY <1>1, <1>6, <3>1
    <3> QED
      BY <1>1, <3>1, <3>2, EmptySubBundle DEF Placeholder, EmptyBundle
  <2>3. \A f \in u.first .. u.global_frame : Host \in u.data[f].info
    <3>1. \A f \in u.first .. u.global_frame : f = BaseFrame \/ f \in u.first + 1 .. u.global_frame
      BY <1>1, <1>6
    <3> QED
      BY <1>1, <1>6, <2>2, <3>1
  <2>4. u.global_frame \in Nat /\ u.first <= u.global_frame
        /\ u.oldest_dirty_frame - 1 = u.global_frame
    BY <1>1, <1>6
  <2> QED
    BY <1>1, <1>6, <2>1, <2>2, <2>3, <2>4 DEF Steady, Ready
<1>9. ASSUME Punctual PROVE WindowInv
  <2>1. \A f \in Frames : Got[f] = EmptyBundle
    <3> SUFFICES ASSUME NEW f \in Frames PROVE Got[f] = EmptyBundle
      OBVIOUS
    <3>1. Received(f) = {}
      BY <1>3 DEF Received
    <3> QED
      BY <3>1 DEF Got, ReceivedBundle, EmptyBundle
  <2>2. Holds(u, Got)
    <3>1. ASSUME NEW f \in u.first + 1 .. u.global_frame
          PROVE  u.data[f].made /\ u.data[f].bundle = Got[f]
      <4>1. f = BaseFrame + 1 /\ f \in Frames /\ Bootstrapped /\ u.global_frame = BaseFrame + 1
        BY <1>1, <1>6
      <4> QED
        BY <1>1, <1>6, <2>1, <4>1
    <3> QED
      BY <2>1, <3>1 DEF Holds, Got
  <2>3. Waits(u)
    <3> SUFFICES ASSUME u.first < u.global_frame PROVE ~Complete(u.data[u.first + 1])
      BY DEF Waits
    <3>1. u.data[u.first + 1].info = Founders /\ u.data[u.first + 1].bundle = EmptyBundle
      BY <1>1, <1>6
    <3> QED
      BY <1>1, <3>1 DEF Complete, EmptyBundle
  <2>4. JoinInv
    BY <1>1, <1>6, <1>9 DEF JoinInv, Punctual, Init
  <2> QED
    BY <2>2, <2>3, <2>4 DEF WindowInv
<1> QED
  BY <1>4, <1>5, <1>7, <1>8, <1>9 DEF IInv, RunInv

-----------------------------------------------------------------------------
(* One step.                                                               *)

(* What the session has issued only grows, and what is added to a frame    *)
(* that is final changes no one's membership.                              *)
Grows ==
  /\ \A f \in Frames : SubBundle(issued[f], issued'[f])
  /\ \A f \in BaseFrame + 1 .. u.first : \A id \in DOMAIN issued'[f] \ DOMAIN issued[f] :
       issued'[f][id].engine = <<>>

(* The window never moves back.                                            *)
Onwards == Grows /\ u.first <= u'.first

(* FinalLog's copies of the operators on bundles are the updater's.        *)
LEMMA SameOutcome ==
  ASSUME NEW prev, NEW bundle
  PROVE  Abstract!Outcome(prev, bundle) =
           LET engines == ApplyEngineEvents(prev.info, bundle)
           IN  [info |-> engines, game |-> ApplyAndThink(prev.game, engines, bundle)]
<1>1. \A e : Abstract!Places(bundle, e) = Places(bundle, e)
  BY DEF Abstract!Places, Places
<1>2. \A id : /\ Abstract!EngineJoined(id) = EngineJoined(id)
               /\ Abstract!EngineDropped(id) = EngineDropped(id)
  BY DEF Abstract!EngineJoined, EngineJoined, Abstract!EngineDropped, EngineDropped
<1>3. \A p, q : Abstract!Later(p, q) <=> Later(p, q)
  BY DEF Abstract!Later, Later
<1>4. Abstract!ApplyEngineEvents(prev.info, bundle) = ApplyEngineEvents(prev.info, bundle)
  BY <1>1, <1>2, <1>3 DEF Abstract!ApplyEngineEvents, ApplyEngineEvents
<1>5. \A engines : Abstract!ApplyAndThink(prev.game, engines, bundle)
                     = ApplyAndThink(prev.game, engines, bundle)
  BY DEF Abstract!ApplyAndThink, ApplyAndThink
<1> QED
  BY <1>4, <1>5 DEF Abstract!Outcome

(* Final states stay the outcome of everything issued, and the step is one *)
(* of FinalLog.                                                            *)
LEMMA SentStep ==
  ASSUME SentInv, Grows, Extends(u, u', issued'), DOMAIN u' = UpdaterFields,
         u'.first \in Nat, u'.first <= MaxFrame,
         DOMAIN u'.bootstrap_frames = BaseFrame .. u'.first
  PROVE  SentInv' /\ Abstract!Next
<1> DEFINE log == u.bootstrap_frames
           next == u'.bootstrap_frames
<1>1. /\ u.first \in Nat /\ BaseFrame \in Nat /\ BaseFrame <= u.first /\ u.first <= MaxFrame
      /\ MaxFrame \in Nat /\ u.first <= u'.first /\ DOMAIN log = BaseFrame .. u.first
  BY Constants DEF SentInv, Extends
<1>2. \A f \in BaseFrame .. u.first : next[f] = log[f]
  BY DEF Extends
<1>3. ASSUME NEW f \in BaseFrame + 1 .. u.first
      PROVE  /\ Settled(next, f, issued'[f])
             /\ \A id \in DOMAIN issued'[f] \ DOMAIN issued[f] :
                  id \notin log[f].info /\ issued'[f][id].engine = <<>>
  <2> DEFINE engines == ApplyEngineEvents(log[f - 1].info, issued[f])
  <2>1. /\ f \in Frames /\ f \in BaseFrame .. u.first /\ f - 1 \in BaseFrame .. u.first
    BY <1>1 DEF Frames
  <2>2. next[f] = log[f] /\ next[f - 1] = log[f - 1]
    BY <1>2, <2>1
  <2>3. /\ log[f] = [info |-> engines, game |-> ApplyAndThink(log[f - 1].game, engines, issued[f])]
        /\ engines \subseteq DOMAIN issued[f] /\ Host \in engines
    BY DEF SentInv, Settled
  <2>4. SubBundle(issued[f], issued'[f])
    BY <2>1 DEF Grows
  <2>5. \A id \in DOMAIN issued'[f] \ DOMAIN issued[f] : issued'[f][id].engine = <<>>
    BY DEF Grows
  <2>6. NothingMissing(issued[f], issued'[f], engines)
    BY <2>3, <2>5 DEF NothingMissing
  <2>7. /\ ApplyEngineEvents(log[f - 1].info, issued'[f]) = engines
        /\ ApplyAndThink(log[f - 1].game, engines, issued'[f])
             = ApplyAndThink(log[f - 1].game, engines, issued[f])
    BY <2>4, <2>6, LateBundlesChangeNothing
  <2>8. DOMAIN issued[f] \subseteq DOMAIN issued'[f]
    BY <2>4 DEF SubBundle
  <2>9. Settled(next, f, issued'[f])
    <3> HIDE DEF engines
    <3> QED
      BY <2>2, <2>3, <2>7, <2>8 DEF Settled
  <2>10. \A id \in DOMAIN issued'[f] \ DOMAIN issued[f] : id \notin log[f].info
    BY <2>3
  <2> QED
    BY <2>5, <2>9, <2>10
<1>4. ASSUME NEW f \in BaseFrame + 1 .. u'.first PROVE Settled(next, f, issued'[f])
  <2>1. f \in BaseFrame + 1 .. u.first \/ f \in u.first + 1 .. u'.first
    BY <1>1
  <2> QED
    BY <1>3, <2>1 DEF Extends
<1>5. SentInv'
  <2>1. next[BaseFrame] = log[BaseFrame]
    BY <1>1, <1>2
  <2> QED
    BY <1>1, <1>4, <2>1 DEF SentInv
<1>6. Abstract!Issue
  <2>1. ASSUME NEW f \in Frames, f \in DOMAIN log PROVE f \in BaseFrame + 1 .. u.first
    BY <1>1, <2>1 DEF Frames
  <2>2. \A f \in Frames : SubBundle(issued[f], issued'[f])
    BY DEF Grows
  <2> QED
    BY <1>3, <2>1, <2>2 DEF Abstract!Issue, Abstract!Frames, Frames, SubBundle
<1>7. Abstract!Extend
  <2>1. DOMAIN log \subseteq DOMAIN next /\ \A f \in DOMAIN log : next[f] = log[f]
    BY <1>1, <1>2
  <2>2. ASSUME NEW f \in DOMAIN next \ DOMAIN log
        PROVE  /\ f \in Frames /\ f - 1 \in DOMAIN next
               /\ next[f] = Abstract!Outcome(next[f - 1], issued'[f])
               /\ next[f].info \subseteq DOMAIN issued'[f]
    <3>1. f \in BaseFrame + 1 .. u'.first /\ f \in Frames /\ f - 1 \in DOMAIN next
      BY <1>1 DEF Frames
    <3>2. Settled(next, f, issued'[f])
      BY <1>4, <3>1
    <3>3. next[f] = Abstract!Outcome(next[f - 1], issued'[f])
      BY <3>2, SameOutcome DEF Settled
    <3> QED
      BY <3>1, <3>2, <3>3 DEF Settled
  <2> QED
    BY <2>1, <2>2 DEF Abstract!Extend, Abstract!Frames, Frames
<1> QED
  BY <1>5, <1>6, <1>7 DEF Abstract!Next

(* The record an updater leaves behind when it runs on, or panics.         *)
LEMMA SteadySent ==
  ASSUME NEW v, NEW all, Steady(v, all)
  PROVE  /\ DOMAIN v = UpdaterFields /\ v.first \in Nat /\ v.first <= MaxFrame
         /\ DOMAIN v.bootstrap_frames = BaseFrame .. v.first
BY Constants DEF Steady, Ready, Shape

LEMMA PanicKeeps ==
  ASSUME NEW v, DOMAIN v = UpdaterFields
  PROVE  /\ DOMAIN Panic(v) = UpdaterFields /\ Panic(v).panicked
         /\ Panic(v).first = v.first /\ Panic(v).bootstrap_frames = v.bootstrap_frames
         /\ Panic(v).final_requests = v.final_requests
BY DEF Panic, UpdaterFields

(* What an engine may issue follows the host's rules.                      *)
LEMMA MayIssueRules ==
  ASSUME NEW id, NEW events \in MayIssue(id)
  PROVE  /\ id # Host => events.engine = <<>>
         /\ Spares(events)
<1>1. events.engine \in EngineEvents(id)
  BY DEF MayIssue
<1>2. id # Host => events.engine = <<>>
  BY <1>1 DEF EngineEvents
<1>3. \/ events.engine = <<>>
      \/ \E j : events.engine = <<EngineJoined(j)>>
      \/ \E d \in Droppable : events.engine = <<EngineDropped(d)>>
  BY <1>1 DEF EngineEvents
<1>4. \A j : EngineJoined(j) # EngineDropped(Host) /\ EngineJoined(j) # EngineDropped(Self)
  BY DEF EngineJoined, EngineDropped
<1>5. \A d \in Droppable :
        EngineDropped(d) # EngineDropped(Host) /\ EngineDropped(d) # EngineDropped(Self)
  BY ConfigAssumption DEF EngineDropped
<1> QED
  BY <1>2, <1>3, <1>4, <1>5 DEF Spares

(* Frames to which at most one engine's bundle is added, by the rules.     *)
LEMMA MoreBundles ==
  ASSUME HostRules(issued), NEW more, NEW id,
         \A f \in Frames :
           \/ more[f] = issued[f]
           \/ \E events : /\ id \notin DOMAIN issued[f]
                          /\ more[f] = Absorb(issued[f], Only(id, events))
                          /\ id # Host => events.engine = <<>>
                          /\ Spares(events)
  PROVE  /\ HostRules(more)
         /\ \A f \in Frames : SubBundle(issued[f], more[f])
         /\ \A f \in Frames : DOMAIN more[f] \subseteq DOMAIN issued[f] \cup {id}
<1> SUFFICES ASSUME NEW f \in Frames
             PROVE  /\ \A k \in DOMAIN more[f] :
                         /\ k # Host => more[f][k].engine = <<>>
                         /\ Spares(more[f][k])
                    /\ SubBundle(issued[f], more[f])
                    /\ DOMAIN more[f] \subseteq DOMAIN issued[f] \cup {id}
  BY DEF HostRules
<1>1. CASE more[f] = issued[f]
  BY <1>1 DEF HostRules, SubBundle
<1>2. CASE more[f] # issued[f]
  <2>1. PICK events : /\ id \notin DOMAIN issued[f]
                      /\ more[f] = Absorb(issued[f], Only(id, events))
                      /\ id # Host => events.engine = <<>>
                      /\ Spares(events)
    BY <1>2
  <2>2. /\ SubBundle(issued[f], more[f])
        /\ DOMAIN more[f] = DOMAIN issued[f] \cup {id} /\ more[f][id] = events
    <3>1. more[f] = Absorb(issued[f], Only(id, events)) /\ id \notin DOMAIN issued[f]
      BY <2>1
    <3> QED
      BY <3>1 DEF SubBundle, Absorb, Only
  <2> QED
    BY <2>1, <2>2 DEF HostRules, SubBundle
<1> QED
  BY <1>1, <1>2

-----------------------------------------------------------------------------
(* The callers.                                                            *)

(* Only requests for frames that have become final leave the queue.        *)
Leaves(requests, left, first, start) ==
  /\ left \in Seq(RequestType)
  /\ \A r : Asked(requests, r) /\ r.frame \notin first + 1 .. start => Asked(left, r)
  /\ \A r : Asked(left, r) => Asked(requests, r)

(* The answers to the requests a handler took out of the queues.           *)
LEMMA ResponsesKeep ==
  ASSUME SentInv, SentInv', CallsInv, ~u.panicked, Extends(u, u', issued'),
         Leaves(u.final_requests, u'.final_requests, u.first, u'.first),
         calls' = Responses(u')
  PROVE  CallsInv'
<1> DEFINE requests == u.final_requests
           left == u'.final_requests
<1>0. /\ u.first \in Nat /\ u'.first \in Nat /\ BaseFrame \in Nat /\ u.first <= u'.first
      /\ DOMAIN u.bootstrap_frames = BaseFrame .. u.first
      /\ DOMAIN u'.bootstrap_frames = BaseFrame .. u'.first
      /\ BaseFrame <= u.first
      /\ \A f \in BaseFrame .. u.first : u'.bootstrap_frames[f] = u.bootstrap_frames[f]
  BY ConfigAssumption DEF SentInv, Extends
<1>1. DOMAIN calls' = Callers /\ left \in Seq(RequestType)
  BY DEF Responses, Leaves
<1>2. ASSUME NEW c \in Callers, calls[c].status # "waiting" PROVE calls'[c] = calls[c]
  BY <1>2 DEF Responses
<1>3. ASSUME NEW c \in Callers, AwaitsFinal(c), c \notin Pending(left)
      PROVE  /\ calls[c].asked \in u.first + 1 .. u'.first
             /\ calls'[c] = Answered(TRUE, calls[c].asked,
                              [found |-> TRUE, frame |-> calls[c].asked,
                               game |-> u'.bootstrap_frames[calls[c].asked].game])
  <2>1. Asked(requests, Request(c))
    BY <1>3 DEF CallsInv, QueueInv
  <2>2. ~Asked(left, Request(c))
    BY <1>3 DEF Asked, Pending, Request
  <2>3. Request(c).frame = calls[c].asked
    BY DEF Request
  <2> QED
    BY <1>3, <2>1, <2>2, <2>3 DEF Leaves, Responses, AwaitsFinal
<1>4. ASSUME NEW c \in Callers, AwaitsFinal(c), c \in Pending(left)
      PROVE  calls'[c] = calls[c] /\ Asked(left, Request(c))
  <2>1. calls'[c] = calls[c]
    BY <1>4 DEF Responses, AwaitsFinal
  <2>2. PICK i \in DOMAIN left : left[i].caller = c
    BY <1>4 DEF Pending
  <2>3. Asked(left, left[i])
    BY DEF Asked
  <2>4. left[i] = Request(c)
    BY <2>2, <2>3 DEF Leaves, CallsInv, QueueInv
  <2> QED
    BY <2>1, <2>3, <2>4
<1>5. ASSUME NEW c \in Callers, calls[c].status = "waiting", ~calls[c].final
      PROVE  \/ calls'[c] = calls[c]
             \/ calls'[c] = Answered(FALSE, calls[c].asked, StateAt(u', calls[c].asked))
  BY <1>5 DEF Responses
<1>6. QueueInv'
  <2>1. ASSUME NEW c \in Callers, AwaitsFinal(c)' PROVE Asked(left, Request(c)')
    <3>0. calls'[c].status = "waiting" /\ calls'[c].final
      BY <2>1 DEF AwaitsFinal
    <3>1. calls[c].status = "waiting"
      BY <1>2, <3>0
    <3>2. calls[c].final
      <4>1. ASSUME ~calls[c].final PROVE FALSE
        <5>1. Answered(FALSE, calls[c].asked, StateAt(u', calls[c].asked)).status = "answered"
          BY DEF Answered
        <5>2. calls'[c] = calls[c]
          BY <1>5, <3>0, <3>1, <4>1, <5>1
        <5> QED
          BY <3>0, <4>1, <5>2
      <4> QED
        BY <4>1
    <3>3. AwaitsFinal(c)
      BY <3>1, <3>2 DEF AwaitsFinal
    <3>4. c \in Pending(left)
      <4>1. \A f, g : Answered(TRUE, f, g).status = "answered"
        BY DEF Answered
      <4> QED
        BY <1>3, <3>0, <3>3, <4>1
    <3> QED
      BY <1>4, <3>3, <3>4 DEF Request
  <2>2. ASSUME NEW r, Asked(left, r)
        PROVE  r.caller \in Callers /\ AwaitsFinal(r.caller)' /\ r = Request(r.caller)'
    <3>1. r.caller \in Callers /\ AwaitsFinal(r.caller) /\ r = Request(r.caller)
      BY <2>2 DEF Leaves, CallsInv, QueueInv
    <3>2. r.caller \in Pending(left)
      BY <2>2 DEF Asked, Pending
    <3> QED
      BY <1>4, <3>1, <3>2 DEF AwaitsFinal, Request
  <2> QED
    BY <2>1, <2>2 DEF QueueInv
<1>7. FinalAnswersAgree'
  <2> SUFFICES ASSUME NEW c \in Callers, calls'[c].status = "answered", calls'[c].final,
                      calls'[c].response.found
               PROVE  /\ calls'[c].response.frame \in DOMAIN u'.bootstrap_frames
                      /\ calls'[c].response.game
                           = u'.bootstrap_frames[calls'[c].response.frame].game
                      /\ calls'[c].asked >= 0 => calls'[c].response.frame = calls'[c].asked
    BY DEF FinalAnswersAgree, Final
  <2>1. CASE calls'[c] = calls[c]
    <3>1. /\ calls[c].response.frame \in DOMAIN u.bootstrap_frames
          /\ calls[c].response.game = u.bootstrap_frames[calls[c].response.frame].game
          /\ calls[c].asked >= 0 => calls[c].response.frame = calls[c].asked
      BY <2>1 DEF CallsInv, FinalAnswersAgree, Final
    <3> QED
      BY <1>0, <2>1, <3>1
  <2>2. CASE AwaitsFinal(c) /\ c \notin Pending(left)
    <3> DEFINE f == calls[c].asked
    <3>1. /\ f \in u.first + 1 .. u'.first
          /\ calls'[c] = Answered(TRUE, f, [found |-> TRUE, frame |-> f,
                                            game |-> u'.bootstrap_frames[f].game])
      BY <1>3, <2>2
    <3>2. f \in BaseFrame .. u'.first
      BY <1>0, <3>1
    <3> HIDE DEF f
    <3>3. /\ calls'[c].response.frame = f /\ calls'[c].asked = f
          /\ calls'[c].response.game = u'.bootstrap_frames[f].game
      BY <3>1 DEF Answered
    <3> QED
      BY <1>0, <3>2, <3>3
  <2>3. CASE calls'[c] = Answered(FALSE, calls[c].asked, StateAt(u', calls[c].asked))
    BY <2>3 DEF Answered
  <2> QED
    BY <1>2, <1>4, <1>5, <2>1, <2>2, <2>3 DEF AwaitsFinal
<1> QED
  BY <1>1, <1>6, <1>7 DEF CallsInv

(* What ServedUpTo leaves, and what a step that touches neither queue nor  *)
(* caller leaves.                                                          *)
LEMMA ServedLeaves ==
  ASSUME NEW requests \in Seq(RequestType), NEW first \in Nat, NEW start \in Nat, first <= start
  PROVE  Leaves(requests, ServedUpTo(requests, first, start), first, start)
BY ServedUpToKeeps DEF Leaves

LEMMA CallsUntouched ==
  ASSUME SentInv, UNCHANGED calls, u'.final_requests = u.final_requests,
         u'.bootstrap_frames = u.bootstrap_frames, u.panicked => u'.panicked
  PROVE  KeepsCalls
BY DEF KeepsCalls, CallsInv, QueueInv, AwaitsFinal, Request, FinalAnswersAgree, Final

-----------------------------------------------------------------------------
(* The actions.                                                            *)

(* When the updater runs on, SentStep's conditions follow from Steady.     *)
LEMMA RunningStep ==
  ASSUME IInv, Grows, Steady(u', issued'), Extends(u, u', issued')
  PROVE  SentInv' /\ RunInv' /\ Abstract!Next /\ Onwards
<1>1. SentInv
  BY DEF IInv
<1>2. /\ DOMAIN u' = UpdaterFields /\ u'.first \in Nat /\ u'.first <= MaxFrame
      /\ DOMAIN u'.bootstrap_frames = BaseFrame .. u'.first
  BY SteadySent
<1> QED
  BY <1>1, <1>2, SentStep DEF RunInv, Onwards, Extends

(* A step that leaves issued alone.                                        *)
LEMMA NothingIssued == UNCHANGED issued => Grows
BY DEF Grows, SubBundle

(* A panic ends the process: what was sent stays sent.                     *)
LEMMA PanicStep ==
  ASSUME IInv, u' = Panic(u), UNCHANGED issued
  PROVE  SentInv' /\ RunInv' /\ Abstract!Next /\ Onwards
<1>1. SentInv
  BY DEF IInv
<1>2. /\ DOMAIN u' = UpdaterFields /\ u'.panicked
      /\ u'.first = u.first /\ u'.bootstrap_frames = u.bootstrap_frames
  BY <1>1, PanicKeeps DEF SentInv
<1>3. Extends(u, u', issued')
  BY <1>1, <1>2 DEF Extends, SentInv
<1>4. Grows
  BY NothingIssued
<1> QED
  BY <1>1, <1>2, <1>3, <1>4, SentStep DEF SentInv, RunInv, Onwards, Extends

LEMMA IssueStep ==
  ASSUME IInv, NEW id \in Peers, Issue(id)
  PROVE  IInv' /\ Abstract!Next /\ Onwards /\ KeepsWindow /\ KeepsCalls
<1>1. PICK frame \in Frames, events \in MayIssue(id) :
        /\ NextToIssue(id, frame)
        /\ issued' = [issued EXCEPT ![frame] = Absorb(@, Only(id, events))]
        /\ inflight' = inflight \cup {<<id, frame>>}
        /\ UNCHANGED <<u, clock, calls>>
  BY DEF Issue
<1>2. /\ id # Self /\ id \notin DOMAIN issued[frame]
      /\ BaseFrame \in Nat /\ MaxFrame \in Nat /\ BaseFrame < MaxFrame
      /\ Frames = BaseFrame + 1 .. MaxFrame
  BY <1>1, Constants DEF Peers, NextToIssue, Frames
<1>3. SessionInv /\ SentInv /\ RunInv /\ OwnInv
  BY DEF IInv
<1>4. /\ DOMAIN issued' = BaseFrame .. MaxFrame
      /\ issued'[frame] = Absorb(issued[frame], Only(id, events))
      /\ \A f \in BaseFrame .. MaxFrame : f # frame => issued'[f] = issued[f]
  BY <1>1, <1>2, <1>3 DEF SessionInv
<1>5. /\ id # Host => events.engine = <<>>
      /\ Spares(events)
  BY MayIssueRules
<1>6. /\ HostRules(issued')
      /\ \A f \in Frames : SubBundle(issued[f], issued'[f])
      /\ \A f \in Frames : DOMAIN issued'[f] \subseteq DOMAIN issued[f] \cup {id}
  <2>1. \A f \in Frames :
          \/ issued'[f] = issued[f]
          \/ \E e : /\ id \notin DOMAIN issued[f]
                    /\ issued'[f] = Absorb(issued[f], Only(id, e))
                    /\ id # Host => e.engine = <<>>
                    /\ Spares(e)
    BY <1>2, <1>4, <1>5
  <2>2. HostRules(issued)
    BY <1>3 DEF SessionInv
  <2> QED
    BY <2>1, <2>2, MoreBundles
<1>7. issued'[frame][id] = events /\ DOMAIN issued'[frame] = DOMAIN issued[frame] \cup {id}
  BY <1>4 DEF Absorb, Only
<1>8. SessionInv'
  <2>1. \A f \in BaseFrame .. MaxFrame : DOMAIN issued[f] \subseteq DOMAIN issued'[f]
    BY <1>4, <1>7
  <2>2. \A p \in inflight' :
          /\ p = <<p[1], p[2]>>
          /\ p[2] \in BaseFrame .. MaxFrame /\ p[1] \in DOMAIN issued'[p[2]]
    BY <1>1, <1>2, <1>3, <1>7, <2>1 DEF SessionInv
  <2> QED
    BY <1>4, <1>6, <2>2 DEF SessionInv
\* Where a frame is final the host has been heard from.
<1>9. Grows
  <2>1. ASSUME NEW f \in BaseFrame + 1 .. u.first, NEW k \in DOMAIN issued'[f] \ DOMAIN issued[f]
        PROVE  issued'[f][k].engine = <<>>
    <3>1. f \in Frames
      BY <1>2, <1>3 DEF SentInv
    <3>2. k = id /\ f = frame
      BY <1>2, <1>4, <1>6, <3>1
    <3>3. Host \in DOMAIN issued[f]
      BY <1>3 DEF SentInv, Settled
    <3> QED
      BY <1>2, <1>5, <1>7, <3>2, <3>3
  <2> QED
    BY <1>6, <2>1 DEF Grows
<1>10. OwnInv'
  BY <1>1, <1>2, <1>3, <1>6 DEF OwnInv
<1>11. SentInv' /\ RunInv' /\ Abstract!Next /\ Onwards
  <2>1. Extends(u, u', issued')
    BY <1>1, <1>3 DEF Extends, SentInv
  <2>2. SentInv' /\ Abstract!Next
    BY <1>1, <1>3, <1>9, <2>1, SentStep DEF SentInv
  <2>3. ASSUME ~u.panicked PROVE Steady(u, issued')
    <3>1. Steady(u, issued)
      BY <1>3, <2>3 DEF RunInv
    <3> QED
      BY <1>6, <3>1, ReadyWithMore DEF Steady
  <2> QED
    BY <1>1, <1>9, <2>1, <2>2, <2>3 DEF RunInv, Onwards, Extends
\* What has been issued and not been received is in flight.
<1>12. Got' = Got
  <2>1. ASSUME NEW f \in Frames PROVE ReceivedBundle(f)' = ReceivedBundle(f)
    <3>1. Received(f)' = Received(f)
      BY <1>1, <1>2, <1>4, <1>7 DEF Received
    <3>2. \A k \in Received(f) : issued'[f][k] = issued[f][k]
      BY <1>2, <1>4 DEF Received, Absorb, Only
    <3> QED
      BY <3>1, <3>2 DEF ReceivedBundle
  <2> QED
    BY <2>1 DEF Got
<1>13. KeepsWindow
  BY <1>1, <1>12 DEF KeepsWindow, WindowInv, JoinInv, Holds, Waits
<1>14. KeepsCalls
  BY <1>1, <1>3, CallsUntouched
<1> QED
  BY <1>8, <1>10, <1>11, <1>13, <1>14 DEF IInv

(* What a local bundle that is not discarded adds to the session: itself,  *)
(* and an empty bundle for each frame this engine has skipped.             *)
Sends(sent, more) ==
  /\ DOMAIN more = DOMAIN issued
  /\ \A f \in DOMAIN issued :
       more[f] = IF f \in DOMAIN sent THEN Absorb(issued[f], sent[f]) ELSE issued[f]

SentLocally(events, sent, more) ==
  LET skipped == Skipped(u, clock)
      dummy == Only(Self, NoEvents)
  IN  /\ DOMAIN sent = skipped \cup {clock} /\ clock \notin skipped
      /\ sent[clock] = Only(Self, events) /\ \A f \in skipped : sent[f] = dummy
      /\ \A f \in Frames : f \in DOMAIN sent => Self \notin DOMAIN issued[f]
      /\ HostRules(more) /\ \A f \in Frames : SubBundle(issued[f], more[f])
      /\ \A f \in Frames \cap skipped : SubBundle(dummy, more[f])
      /\ clock \in Frames => SubBundle(Only(Self, events), more[clock])
      /\ Steady(u, more)

LEMMA LocalSends ==
  ASSUME IInv, ~u.panicked, clock <= MaxFrame, ~Discards(u, clock),
         NEW events \in MayIssue(Self),
         NEW sent, sent = Broadcast(u, [frame |-> clock, bundle |-> Only(Self, events)]),
         NEW more, Sends(sent, more)
  PROVE  SentLocally(events, sent, more)
<1> DEFINE skipped == Skipped(u, clock)
           dummy == Only(Self, NoEvents)
<1>0. /\ DOMAIN more = DOMAIN issued
      /\ \A f \in DOMAIN issued :
           more[f] = IF f \in DOMAIN sent THEN Absorb(issued[f], sent[f]) ELSE issued[f]
  BY DEF Sends
<1>1. SessionInv /\ OwnInv /\ Steady(u, issued)
  BY DEF IInv, RunInv
<1>2. /\ clock \in Nat /\ Frames \subseteq DOMAIN issued /\ Frames = BaseFrame + 1 .. MaxFrame
      /\ BaseFrame \in Nat /\ MaxFrame \in Nat /\ u.id = Self /\ u.skip_to_frame \in Int
  BY <1>1, Constants DEF OwnInv, Frames, SessionInv, Steady, Ready, Shape
<1>3. /\ DOMAIN sent = skipped \cup {clock} /\ clock \notin skipped
      /\ sent[clock] = Only(Self, events) /\ \A f \in skipped : sent[f] = dummy
  BY <1>2 DEF Broadcast, Skipped
<1>4. /\ skipped # {} => u.skip_to_frame # 0
      /\ \A f \in skipped : f >= u.skip_to_frame /\ f <= clock
  BY <1>2 DEF Skipped
<1> HIDE DEF skipped
<1>5. \A f \in Frames : f \in DOMAIN sent => Self \notin DOMAIN issued[f]
  BY <1>1, <1>2, <1>3, <1>4 DEF OwnInv
<1>6. /\ Self # Host => events.engine = <<>>
      /\ Spares(events)
  BY MayIssueRules
<1>7. /\ HostRules(more)
      /\ \A f \in Frames : SubBundle(issued[f], more[f])
  <2>1. ASSUME NEW f \in Frames
        PROVE  \/ more[f] = issued[f]
               \/ \E e : /\ Self \notin DOMAIN issued[f]
                         /\ more[f] = Absorb(issued[f], Only(Self, e))
                         /\ Self # Host => e.engine = <<>>
                         /\ Spares(e)
    <3>1. f \in DOMAIN issued
      BY <1>2
    <3>2. CASE f \notin DOMAIN sent
      BY <1>0, <3>1, <3>2
    <3>3. CASE f = clock
      BY <1>0, <1>3, <1>5, <1>6, <3>1, <3>3
    <3>4. CASE f \in skipped
      <4>1. NoEvents.engine = <<>> /\ DOMAIN NoEvents.engine = {}
        BY DEF NoEvents
      <4> QED
        BY <1>0, <1>3, <1>5, <3>1, <3>4, <4>1 DEF Spares
    <3> QED
      BY <1>3, <3>2, <3>3, <3>4
  <2>2. HostRules(issued)
    BY <1>1 DEF SessionInv
  <2> QED
    BY <2>1, <2>2, MoreBundles
<1>8. ASSUME NEW f \in Frames \cap skipped PROVE SubBundle(dummy, more[f])
  <2>1. more[f] = Absorb(issued[f], dummy)
    BY <1>0, <1>2, <1>3
  <2> QED
    BY <2>1 DEF SubBundle, Absorb, Only
<1>9. ASSUME clock \in Frames PROVE SubBundle(Only(Self, events), more[clock])
  <2>1. more[clock] = Absorb(issued[clock], Only(Self, events))
    BY <1>0, <1>2, <1>3, <1>9
  <2> QED
    BY <2>1 DEF SubBundle, Absorb, Only
<1>10. Steady(u, more)
  BY <1>1, <1>7, ReadyWithMore DEF Steady
<1> QED
  BY <1>3, <1>5, <1>7, <1>8, <1>9, <1>10 DEF skipped, SentLocally

LEMMA LocalBundleStep ==
  ASSUME IInv, LocalBundle
  PROVE  IInv' /\ Abstract!Next /\ Onwards /\ KeepsWindow /\ KeepsCalls
<1> DEFINE fb(e) == [frame |-> clock, bundle |-> Only(Self, e)]
<1>1. PICK events \in IF Discards(u, clock) THEN {NoEvents} ELSE MayIssue(Self) :
        LET sent == Broadcast(u, fb(events))
            next == HandleLocal(u, fb(events))
        IN  /\ u' = Result(next)
            /\ clock' = clock + 1
            /\ issued' = IF next.panicked THEN issued
                         ELSE [f \in DOMAIN issued |->
                                 IF f \in DOMAIN sent THEN Absorb(issued[f], sent[f])
                                 ELSE issued[f]]
            /\ calls' = IF next.panicked THEN calls ELSE Responses(next)
  BY DEF LocalBundle
<1> DEFINE sent == Broadcast(u, fb(events))
           next == HandleLocal(u, fb(events))
<1>2. UNCHANGED inflight /\ ~u.panicked /\ clock <= MaxFrame
  BY DEF LocalBundle, MayTick
<1>3. SessionInv /\ SentInv /\ RunInv /\ OwnInv /\ Steady(u, issued)
  BY <1>2 DEF IInv, RunInv
<1>4. /\ clock \in Nat /\ Self \in EngineId
      /\ BaseFrame \in Nat /\ MaxFrame \in Nat /\ Frames = BaseFrame + 1 .. MaxFrame
      /\ u.id = Self /\ u.skip_to_frame \in Int /\ u.first \in Nat /\ BaseFrame <= u.first
      /\ u.first <= MaxFrame
  BY <1>3, Constants DEF OwnInv, Frames, Steady, Ready, Shape, SentInv
<1>5. CASE next.panicked
  <2>1. u' = Panic(u) /\ UNCHANGED <<issued, calls>>
    BY <1>1, <1>5 DEF Result
  <2>2. SentInv' /\ RunInv' /\ Abstract!Next /\ Onwards
    BY <2>1, PanicStep
  <2>3. SessionInv'
    BY <1>2, <1>3, <2>1 DEF SessionInv
  <2>4. u'.panicked
    BY <1>3, <2>1, PanicKeeps DEF SentInv
  <2>5. OwnInv'
    <3>1. clock' = clock + 1
      BY <1>1
    <3>2. \A f \in Frames : f >= clock' => f >= clock
      BY <1>4, <3>1
    <3> QED
      BY <1>3, <1>4, <2>1, <2>4, <3>1, <3>2 DEF OwnInv
  <2>6. KeepsCalls
    BY <1>3, <2>1, PanicKeeps, CallsUntouched DEF SentInv
  <2> QED
    BY <2>2, <2>3, <2>4, <2>5, <2>6 DEF IInv, KeepsWindow, WindowInv
<1>6. CASE ~next.panicked /\ Discards(u, clock)
  <2>1. next = u /\ DOMAIN sent = {}
    BY <1>6 DEF HandleLocal, Broadcast
  <2>2. u' = u
    BY <1>1, <1>6, <2>1 DEF Result
  <2>3. DOMAIN issued' = DOMAIN issued /\ \A f \in DOMAIN issued : issued'[f] = issued[f]
    BY <1>1, <1>6, <2>1
  <2>4. \A f \in Frames : issued'[f] = issued[f]
    BY <1>3, <1>4, <2>3 DEF SessionInv
  <2>5. SessionInv'
    BY <1>2, <1>3, <2>3, <2>4 DEF SessionInv, HostRules
  <2>6. OwnInv'
    <3>1. clock' = clock + 1
      BY <1>1
    <3>2. \A f \in Frames : f >= clock' => f >= clock
      BY <1>4, <3>1
    <3> QED
      BY <1>3, <1>4, <2>2, <2>4, <3>1, <3>2 DEF OwnInv
  <2>7. Grows
    BY <1>3, <1>4, <2>4 DEF Grows, SubBundle, SentInv
  <2>8. Steady(u', issued')
    <3>1. Ready(u, issued')
      BY <1>3, <2>4, ReadyWithMore DEF Steady, SubBundle
    <3> QED
      BY <1>3, <2>2, <3>1 DEF Steady
  <2>9. Extends(u, u', issued')
    BY <1>4, <2>2 DEF Extends
  <2>10. SentInv' /\ RunInv' /\ Abstract!Next /\ Onwards
    BY <2>7, <2>8, <2>9, RunningStep
  <2>11. KeepsWindow
    <3>1. Got' = Got
      <4>1. ASSUME NEW f \in Frames PROVE ReceivedBundle(f)' = ReceivedBundle(f)
        <5>1. Received(f)' = Received(f)
          BY <1>2, <2>4 DEF Received
        <5> QED
          BY <2>4, <5>1 DEF ReceivedBundle
      <4> QED
        BY <4>1 DEF Got
    <3>2. Punctual /\ JoinInv => JoinInv'
      <4>1. u.skip_to_frame # 0 /\ (u.skip_to_frame = -1 \/ clock < u.skip_to_frame)
        BY <1>4, <1>6 DEF Discards
      <4>2. u.skip_to_frame = -1 => clock < u.global_frame + MaxAhead
        BY DEF LocalBundle, MayTick
      <4>3. u.global_frame \in Nat /\ MaxAhead \in Nat /\ clock' = clock + 1
        BY <1>1, <1>3, ConfigAssumption DEF Steady, Ready, Shape
      <4> QED
        BY <1>4, <2>2, <4>1, <4>2, <4>3 DEF Punctual, JoinInv
    <3> QED
      BY <1>2, <2>2, <3>1, <3>2 DEF KeepsWindow, WindowInv, Holds, Waits
  <2>12. KeepsCalls
    <3> SUFFICES ASSUME CallsInv PROVE CallsInv'
      BY DEF KeepsCalls
    <3>1. Leaves(u.final_requests, u'.final_requests, u.first, u'.first)
      BY <2>2 DEF Leaves, CallsInv
    <3>2. calls' = Responses(u')
      <4>1. calls' = Responses(next)
        BY <1>1, <1>6
      <4> HIDE DEF next
      <4> QED
        BY <2>1, <2>2, <4>1
    <3> QED
      BY <1>2, <1>3, <2>9, <2>10, <3>1, <3>2, ResponsesKeep
  <2> QED
    BY <2>5, <2>6, <2>10, <2>11, <2>12 DEF IInv
<1>7. CASE ~next.panicked /\ ~Discards(u, clock)
  <2> DEFINE dummy == Only(Self, NoEvents)
             skipped == Skipped(u, clock)
  <2>0. calls' = Responses(next)
    BY <1>1, <1>7
  <2>1. /\ u' = next /\ events \in MayIssue(Self)
        /\ DOMAIN issued' = DOMAIN issued
        /\ \A f \in DOMAIN issued :
             issued'[f] = IF f \in DOMAIN sent THEN Absorb(issued[f], sent[f]) ELSE issued[f]
    BY <1>1, <1>7 DEF Result
  <2>2. /\ DOMAIN sent = skipped \cup {clock} /\ clock \notin skipped
        /\ sent[clock] = Only(Self, events) /\ \A f \in skipped : sent[f] = dummy
        /\ \A f \in Frames : f \in DOMAIN sent => Self \notin DOMAIN issued[f]
        /\ HostRules(issued') /\ \A f \in Frames : SubBundle(issued[f], issued'[f])
        /\ \A f \in Frames \cap skipped : SubBundle(dummy, issued'[f])
        /\ clock \in Frames => SubBundle(Only(Self, events), issued'[clock])
        /\ Steady(u, issued')
    <3>1. sent = Broadcast(u, [frame |-> clock, bundle |-> Only(Self, events)])
      OBVIOUS
    <3>2. ~Discards(u, clock)
      BY <1>7
    <3> HIDE DEF sent, skipped, dummy, next
    <3>3. Sends(sent, issued') /\ events \in MayIssue(Self)
      BY <2>1 DEF Sends
    <3>4. SentLocally(events, sent, issued')
      BY <1>2, <3>1, <3>2, <3>3, LocalSends
    <3> QED
      BY <3>4 DEF SentLocally, skipped, dummy
  <2>3. /\ skipped # {} => u.skip_to_frame # 0
        /\ \A f \in skipped : f >= u.skip_to_frame /\ f <= clock
    BY <1>4 DEF Skipped
  <2>10. /\ Steady(next, issued') /\ Extends(u, next, issued') /\ next.skip_to_frame = 0
         /\ u.first < clock
         /\ u.skip_to_frame # 0 => u.first < u.skip_to_frame
         /\ Waits(next)
         /\ next.final_requests = ServedUpTo(u.final_requests, u.first, next.first)
         /\ \A got : Holds(u, got) /\ skipped \subseteq u.first + 1 .. u.global_frame
              => Holds(next, PlusAll(got, sent))
    <3> DEFINE bundle == fb(events)
    <3>1. bundle.frame = clock /\ bundle.bundle = Only(Self, events)
      OBVIOUS
    <3>2. next = HandleLocal(u, bundle)
      OBVIOUS
    <3>3. sent = Broadcast(u, bundle) /\ skipped = Skipped(u, bundle.frame)
      OBVIOUS
    <3> HIDE DEF bundle, next, sent, skipped
    <3> QED
      BY <1>2, <1>4, <1>7, <2>2, <3>1, <3>2, <3>3, HandleLocalExtends
  <2> HIDE DEF next
  <2>11. Grows
    <3>1. \A f \in BaseFrame + 1 .. u.first : issued'[f] = issued[f]
      <4>1. ASSUME NEW f \in BaseFrame + 1 .. u.first PROVE f \in DOMAIN issued /\ f \notin DOMAIN sent
        BY <1>3, <1>4, <2>2, <2>3, <2>10 DEF SessionInv
      <4> HIDE DEF sent
      <4> QED
        BY <2>1, <4>1
    <3> QED
      BY <2>2, <3>1 DEF Grows
  <2>12. SentInv' /\ RunInv' /\ Abstract!Next /\ Onwards
    BY <2>1, <2>10, <2>11, RunningStep
  <2>13. SessionInv'
    <3>1. \A f \in DOMAIN issued : DOMAIN issued[f] \subseteq DOMAIN issued'[f]
      BY <2>1 DEF Absorb
    <3> QED
      BY <1>2, <1>3, <2>1, <2>2, <3>1 DEF SessionInv
  <2>14. OwnInv'
    <3>1. clock' \in Nat /\ clock' = clock + 1
      BY <1>1, <1>4
    <3>2. ASSUME NEW f \in Frames, f >= clock' PROVE Self \notin DOMAIN issued'[f]
      <4>1. f \in DOMAIN issued /\ f \notin DOMAIN sent /\ f >= clock
        BY <1>3, <1>4, <2>2, <2>3, <3>1, <3>2 DEF SessionInv
      <4>2. issued'[f] = issued[f]
        BY <2>1, <4>1
      <4> QED
        BY <1>3, <4>1, <4>2 DEF OwnInv
    <3> QED
      BY <2>1, <2>10, <3>1, <3>2 DEF OwnInv
  <2>15. KeepsWindow
    <3> SUFFICES ASSUME WindowInv PROVE WindowInv'
      BY DEF KeepsWindow
    <3>1. skipped \subseteq u.first + 1 .. u.global_frame
      <4>1. u.global_frame \in Nat
        BY <1>3 DEF Steady, Ready, Shape
      <4>2. skipped # {} => clock <= u.global_frame + 1 /\ u.first < u.skip_to_frame
        BY <1>2, <2>3, <2>10 DEF WindowInv, JoinInv
      <4> QED
        BY <1>4, <4>1, <4>2 DEF Skipped
    <3>2. PlusAll(Got, sent) = Got'
      <4>1. ASSUME NEW f \in Frames PROVE PlusAll(Got, sent)[f] = ReceivedBundle(f)'
        <5>1. f \in DOMAIN issued
          BY <1>3, <1>4 DEF SessionInv
        <5>2. CASE f \notin DOMAIN sent
          <6>1. issued'[f] = issued[f] /\ inflight' = inflight
            BY <1>2, <2>1, <5>1, <5>2
          <6>2. PlusAll(Got, sent)[f] = ReceivedBundle(f)
            BY <5>2 DEF PlusAll, Got
          <6>3. Received(f)' = Received(f)
            BY <6>1 DEF Received
          <6> QED
            BY <6>1, <6>2, <6>3 DEF ReceivedBundle
        <5>3. CASE f \in DOMAIN sent
          <6>1. PICK x : sent[f] = Only(Self, x)
            BY <2>2, <5>3
          <6>2. issued'[f] = Absorb(issued[f], Only(Self, x)) /\ inflight' = inflight
            BY <1>2, <2>1, <5>1, <5>3, <6>1
          <6>3. Self \notin DOMAIN issued[f] /\ <<Self, f>> \notin inflight
            BY <1>3, <2>2, <5>3 DEF SessionInv
          <6>4. PlusAll(Got, sent)[f] = Absorb(ReceivedBundle(f), Only(Self, x))
            BY <5>3, <6>1 DEF PlusAll, Got
          <6> HIDE DEF sent
          <6>5. /\ DOMAIN issued'[f] = DOMAIN issued[f] \cup {Self}
                /\ issued'[f][Self] = x
                /\ \A k \in DOMAIN issued[f] : issued'[f][k] = issued[f][k]
            BY <6>2, <6>3 DEF Absorb, Only
          <6>6. Received(f)' = Received(f) \cup {Self} /\ Received(f) \subseteq DOMAIN issued[f]
            BY <6>2, <6>3, <6>5 DEF Received
          <6> QED
            BY <6>3, <6>4, <6>5, <6>6 DEF ReceivedBundle, Absorb, Only
        <5> QED
          BY <5>2, <5>3
      <4>2. DOMAIN PlusAll(Got, sent) = Frames
        BY DEF PlusAll, Got
      <4>3. PlusAll(Got, sent) = [f \in Frames |-> PlusAll(Got, sent)[f]]
        BY <4>2 DEF PlusAll
      <4> HIDE DEF sent
      <4> QED
        BY <4>1, <4>3 DEF Got
    <3>3. Holds(u, Got)
      BY <1>2 DEF WindowInv
    <3>4. Holds(next, Got') /\ Waits(next) /\ next.skip_to_frame = 0
      BY <2>10, <3>1, <3>2, <3>3
    <3> QED
      BY <2>1, <3>4 DEF WindowInv, JoinInv
  <2>16. KeepsCalls
    <3> SUFFICES ASSUME CallsInv PROVE CallsInv'
      BY DEF KeepsCalls
    <3>1. u'.first \in Nat /\ u.first <= u'.first
      BY <2>1, <2>10, <2>12 DEF SentInv, Extends
    <3>2. Leaves(u.final_requests, u'.final_requests, u.first, u'.first)
      BY <1>4, <2>1, <2>10, <3>1, ServedLeaves DEF CallsInv
    <3> QED
      BY <1>2, <1>3, <2>0, <2>1, <2>10, <2>12, <3>2, ResponsesKeep
  <2> QED
    BY <2>12, <2>13, <2>14, <2>15, <2>16 DEF IInv
<1> QED
  BY <1>5, <1>6, <1>7

(* The bundles of a group are different ones, all on their way.            *)
LEMMA GroupGiven ==
  ASSUME SessionInv, NEW group \in Groups,
         NEW bundles, bundles = [i \in DOMAIN group |-> Bundle(group[i])]
  PROVE  \E n \in Nat :
           /\ DOMAIN group = 1 .. n /\ Len(bundles) = n
           /\ \A i \in 1 .. n : /\ group[i] \in inflight /\ bundles[i] = Bundle(group[i])
                               /\ FromSession(bundles[i], issued)
           /\ \A i, k \in 1 .. n : group[i] = group[k] => i = k
<1>1. PICK n \in 1 .. MaxGroup :
        group \in [1 .. n -> inflight] /\ Cardinality({group[i] : i \in 1 .. n}) = n
  BY DEF Groups
<1>2. n \in Nat
  BY ConfigAssumption
<1>3. DOMAIN group = 1 .. n /\ \A i \in 1 .. n : group[i] \in inflight
  BY <1>1
<1>4. Len(bundles) = n /\ \A i \in 1 .. n : bundles[i] = Bundle(group[i])
  <2>1. \A i \in 1 .. n : bundles[i] = Bundle(group[i])
    BY <1>3
  <2>2. bundles \in [1 .. n -> {Bundle(group[i]) : i \in 1 .. n}]
    BY <1>3
  <2> QED
    BY <1>2, <2>1, <2>2
<1>5. ASSUME NEW i \in 1 .. n PROVE FromSession(bundles[i], issued)
  <2> DEFINE p == group[i]
  <2>1. p \in inflight /\ bundles[i] = Bundle(p)
    BY <1>3, <1>4
  <2>2. p[2] \in BaseFrame .. MaxFrame /\ p[1] \in DOMAIN issued[p[2]]
    BY <2>1 DEF SessionInv
  <2>3. SubBundle(Only(p[1], issued[p[2]][p[1]]), issued[p[2]])
    BY <2>2 DEF SubBundle, Only
  <2>4. bundles[i].frame = p[2] /\ bundles[i].bundle = Only(p[1], issued[p[2]][p[1]])
    BY <2>1 DEF Bundle
  <2> QED
    BY <2>2, <2>3, <2>4, Constants DEF FromSession
<1>6. \A i, k \in 1 .. n : group[i] = group[k] => i = k
  <2> DEFINE S == 1 .. n
             T == {group[i] : i \in 1 .. n}
  <2>1. IsFiniteSet(S) /\ Cardinality(S) = n
    <3>1. 1 \in Int /\ n \in Int /\ (IF 1 > n THEN 0 ELSE n - 1 + 1) = n
      BY <1>2
    <3> QED
      BY <3>1, FS_Interval
  <2>2. group \in Surjection(S, T)
    BY <1>1 DEF Surjection
  <2> HIDE DEF S, T
  <2>3. group \in Injection(S, T)
    <3>1. Cardinality(T) = Cardinality(S)
      BY <1>1, <2>1 DEF T
    <3> QED
      BY <2>1, <2>2, <3>1, FS_Surjection
  <2> QED
    BY <2>3 DEF Injection, IsInjective, S
<1> QED
  BY <1>2, <1>3, <1>4, <1>5, <1>6

(* What has been received when i bundles of a group have been absorbed.    *)
Transit(group, i) == inflight \ {group[k] : k \in 1 .. i}
GotAfter(group, i) ==
  [f \in Frames |->
     [id \in {k \in DOMAIN issued[f] : <<k, f>> \notin Transit(group, i)} |-> issued[f][id]]]

LEMMA GroupGathered ==
  ASSUME SessionInv, Holds(u, Got), NEW n \in Nat, NEW group,
         NEW bundles,
         \A i \in 1 .. n : group[i] \in inflight /\ bundles[i] = Bundle(group[i]),
         NEW gots, gots = [i \in 0 .. n |-> GotAfter(group, i)]
  PROVE  Gathered(u, gots, bundles, n)
<1> DEFINE transit(i) == Transit(group, i)
           received(f, i) == {id \in DOMAIN issued[f] : <<id, f>> \notin transit(i)}
<1>1. gots[0] = Got
  BY DEF Got, ReceivedBundle, Received, GotAfter, Transit
<1>2. ASSUME NEW i \in 1 .. n PROVE gots[i] = Plus(gots[i - 1], bundles[i])
  <2> DEFINE p == group[i]
             b == bundles[i]
  <2>1. /\ p = <<p[1], p[2]>> /\ p[1] \in DOMAIN issued[p[2]]
        /\ b.frame = p[2] /\ b.bundle = Only(p[1], issued[p[2]][p[1]])
    <3>1. p \in inflight /\ b = Bundle(p)
      OBVIOUS
    <3> QED
      BY <3>1 DEF SessionInv, Bundle
  <2>2. \A q : q \in transit(i) <=> q \in transit(i - 1) /\ q # p
    <3>1. {group[k] : k \in 1 .. i} = {group[k] : k \in 1 .. i - 1} \cup {p}
      <4>1. 1 .. i = (1 .. i - 1) \cup {i}
        OBVIOUS
      <4> QED
        BY <4>1
    <3> QED
      BY <3>1 DEF Transit
  <2>3. /\ gots[i] = [f \in Frames |-> [id \in received(f, i) |-> issued[f][id]]]
        /\ gots[i - 1] = [f \in Frames |-> [id \in received(f, i - 1) |-> issued[f][id]]]
    BY DEF GotAfter
  <2> HIDE DEF transit, p, b
  <2>4. ASSUME NEW f \in Frames
        PROVE  gots[i][f] = IF f = b.frame THEN Absorb(gots[i - 1][f], b.bundle)
                            ELSE gots[i - 1][f]
    <3>1. CASE f = p[2]
      <4>1. received(f, i) = received(f, i - 1) \cup {p[1]}
        BY <2>1, <2>2, <3>1
      <4>2. gots[i - 1][f] = [id \in received(f, i - 1) |-> issued[f][id]]
        BY <2>3
      <4>3. gots[i][f] = [id \in received(f, i) |-> issued[f][id]]
        BY <2>3
      <4> HIDE DEF received
      <4>4. Absorb(gots[i - 1][f], Only(p[1], issued[f][p[1]]))
              = [id \in received(f, i - 1) \cup {p[1]} |-> issued[f][id]]
        BY <4>2 DEF Absorb, Only
      <4> QED
        BY <2>1, <3>1, <4>1, <4>3, <4>4
    <3>2. CASE f # p[2]
      <4>1. received(f, i) = received(f, i - 1)
        BY <2>1, <2>2, <3>2
      <4>2. /\ gots[i - 1][f] = [id \in received(f, i - 1) |-> issued[f][id]]
            /\ gots[i][f] = [id \in received(f, i) |-> issued[f][id]]
        BY <2>3
      <4> HIDE DEF received
      <4>3. gots[i][f] = gots[i - 1][f]
        BY <4>1, <4>2
      <4> QED
        BY <2>1, <3>2, <4>3
    <3> QED
      BY <3>1, <3>2
  <2>5. DOMAIN gots[i] = Frames /\ DOMAIN gots[i - 1] = Frames
    BY <2>3
  <2>6. gots[i] = [f \in Frames |-> gots[i][f]]
    BY <2>3
  <2> QED
    BY <2>4, <2>5, <2>6 DEF Plus, b
<1> QED
  BY <1>1, <1>2 DEF Gathered

LEMMA RemoteBundlesStep ==
  ASSUME IInv, RemoteBundles
  PROVE  IInv' /\ Abstract!Next /\ Onwards /\ KeepsWindow /\ KeepsCalls
<1> DEFINE given(group) == [i \in DOMAIN group |-> Bundle(group[i])]
<1>1. PICK group \in Groups :
        /\ u' = Result(HandleRemote(u, given(group)))
        /\ inflight' = inflight \ {group[i] : i \in DOMAIN group}
        /\ calls' = IF HandleRemote(u, given(group)).panicked THEN calls
                    ELSE Responses(HandleRemote(u, given(group)))
  BY DEF RemoteBundles
<1> DEFINE bundles == given(group)
           next == HandleRemote(u, bundles)
<1>2. UNCHANGED <<clock, issued>> /\ ~u.panicked
  BY DEF RemoteBundles
<1>3. SessionInv /\ SentInv /\ RunInv /\ OwnInv /\ Steady(u, issued)
  BY <1>2 DEF IInv, RunInv
<1>4. PICK n \in Nat :
        /\ DOMAIN group = 1 .. n /\ Len(bundles) = n
        /\ \A i \in 1 .. n : /\ group[i] \in inflight /\ bundles[i] = Bundle(group[i])
                            /\ FromSession(bundles[i], issued)
  <2> HIDE DEF bundles
  <2> QED
    BY <1>3, GroupGiven DEF bundles
<1>5. Len(bundles) = n /\ \A i \in 1 .. n : group[i] \in inflight /\ bundles[i] = Bundle(group[i])
  BY <1>4
<1>6. ASSUME NEW i \in 1 .. Len(bundles) PROVE FromSession(bundles[i], issued)
  BY <1>4
<1>7. SessionInv'
  BY <1>1, <1>2, <1>3 DEF SessionInv
<1>8. CASE next.panicked
  <2>1. u' = Panic(u) /\ UNCHANGED calls
    BY <1>1, <1>8 DEF Result
  <2>2. SentInv' /\ RunInv' /\ Abstract!Next /\ Onwards
    BY <1>2, <2>1, PanicStep
  <2>3. OwnInv'
    BY <1>2, <1>3, <2>1, PanicKeeps DEF OwnInv, SentInv
  <2>4. u'.panicked
    BY <1>3, <2>1, PanicKeeps DEF SentInv
  <2>5. KeepsCalls
    BY <1>3, <2>1, PanicKeeps, CallsUntouched DEF SentInv
  <2> QED
    BY <1>7, <2>2, <2>3, <2>4, <2>5 DEF IInv, KeepsWindow, WindowInv
<1>9. CASE ~next.panicked
  <2>1. u' = next /\ calls' = Responses(next)
    BY <1>1, <1>9 DEF Result
  <2>2. HostRules(issued) /\ Len(bundles) \in Nat
    BY <1>3, <1>5 DEF SessionInv
  <2>3. /\ Steady(next, issued) /\ Extends(u, next, issued)
        /\ SkipRule(u, next) /\ Waits(next)
        /\ next.final_requests = ServedUpTo(u.final_requests, u.first, next.first)
        /\ \A gots : Gathered(u, gots, bundles, n) => Holds(next, gots[n])
    <3> HIDE DEF bundles
    <3> QED
      BY <1>3, <1>5, <1>6, <1>9, <2>2, HandleRemoteExtends
  <2>4. SentInv' /\ RunInv' /\ Abstract!Next /\ Onwards
    <3>1. Grows
      BY <1>2, NothingIssued
    <3>2. Steady(u', issued') /\ Extends(u, u', issued')
      BY <1>2, <2>1, <2>3
    <3> QED
      BY <3>1, <3>2, RunningStep
  <2>5. OwnInv'
    BY <1>2, <1>3, <2>1, <2>3 DEF OwnInv, SkipRule
  <2>6. KeepsWindow
    <3> SUFFICES ASSUME WindowInv PROVE WindowInv'
      BY DEF KeepsWindow
    <3> DEFINE gots == [i \in 0 .. n |-> GotAfter(group, i)]
    <3>3. gots[n] = Got'
      <4>1. inflight' = Transit(group, n)
        BY <1>1, <1>4 DEF Transit
      <4> QED
        BY <1>2, <4>1 DEF Got, ReceivedBundle, Received, GotAfter
    <3>4. Gathered(u, gots, bundles, n)
      <4> HIDE DEF gots, bundles
      <4> QED
        BY <1>2, <1>3, <1>5, GroupGathered DEF WindowInv, gots
    <3>5. Holds(next, Got')
      <4> HIDE DEF gots, bundles
      <4> QED
        BY <2>3, <3>3, <3>4
    <3>6. JoinInv'
      <4>1. /\ u.global_frame \in Nat /\ next.global_frame \in Nat
            /\ u.skip_to_frame \in Int /\ clock \in Nat /\ JoinInv
        BY <1>2, <1>3, <2>3 DEF Steady, Ready, Shape, OwnInv, WindowInv
      <4> HIDE DEF next
      <4> QED
        BY <1>2, <2>1, <2>3, <4>1 DEF JoinInv, SkipRule
    <3> HIDE DEF next
    <3> QED
      BY <2>1, <2>3, <3>5, <3>6 DEF WindowInv
  <2>7. KeepsCalls
    <3> SUFFICES ASSUME CallsInv PROVE CallsInv'
      BY DEF KeepsCalls
    <3> HIDE DEF next
    <3>1. /\ u'.first \in Nat /\ u.first \in Nat /\ u.first <= u'.first
          /\ Extends(u, u', issued')
      BY <1>2, <1>3, <2>1, <2>3, <2>4 DEF SentInv, Extends
    <3>2. Leaves(u.final_requests, u'.final_requests, u.first, u'.first)
      BY <2>1, <2>3, <3>1, ServedLeaves DEF CallsInv
    <3> QED
      BY <1>2, <1>3, <2>1, <2>4, <3>1, <3>2, ResponsesKeep
  <2> QED
    BY <1>7, <2>4, <2>5, <2>6, <2>7 DEF IInv
<1> QED
  BY <1>8, <1>9

(* A request joins a queue or is answered at once; nothing else changes.   *)
LEMMA RequestsKeepSteady ==
  ASSUME NEW v, NEW all, Steady(v, all), NEW w,
         \/ w = v
         \/ \E requests : w = [v EXCEPT !.final_requests = requests]
         \/ \E requests : w = [v EXCEPT !.fast_requests = requests]
  PROVE  /\ Steady(w, all) /\ w.skip_to_frame = v.skip_to_frame /\ ~w.panicked
         /\ w.first = v.first /\ w.bootstrap_frames = v.bootstrap_frames
         /\ w.data = v.data /\ w.global_frame = v.global_frame
<1>1. DOMAIN v = UpdaterFields /\ ~v.panicked
  BY DEF Steady, Ready, Shape
<1>2. /\ DOMAIN w = UpdaterFields /\ w.skip_to_frame = v.skip_to_frame
      /\ w.id = v.id /\ w.first = v.first /\ w.data = v.data
      /\ w.global_frame = v.global_frame /\ w.oldest_dirty_frame = v.oldest_dirty_frame
      /\ w.bootstrap_frames = v.bootstrap_frames /\ w.panicked = v.panicked
  BY <1>1 DEF UpdaterFields
<1>3. Shape(w)
  BY <1>2 DEF Steady, Ready, Shape
<1> QED
  BY <1>1, <1>2, <1>3 DEF Steady, Ready, Placeholder

LEMMA RequestStep ==
  ASSUME IInv, ~u.panicked, UNCHANGED <<clock, issued, inflight>>,
         \/ u' = Panic(u)
         \/ u' = u
         \/ \E requests : u' = [u EXCEPT !.final_requests = requests]
         \/ \E requests : u' = [u EXCEPT !.fast_requests = requests]
  PROVE  IInv' /\ Abstract!Next /\ Onwards /\ KeepsWindow
<1>1. SessionInv /\ SentInv /\ OwnInv /\ Steady(u, issued)
  BY DEF IInv, RunInv
<1>2. SessionInv'
  BY <1>1 DEF SessionInv
<1>3. CASE u' = Panic(u)
  <2>1. SentInv' /\ RunInv' /\ Abstract!Next /\ Onwards
    BY <1>3, PanicStep
  <2>2. OwnInv'
    BY <1>1, <1>3, PanicKeeps DEF OwnInv, SentInv
  <2>3. u'.panicked
    BY <1>1, <1>3, PanicKeeps DEF SentInv
  <2> QED
    BY <1>2, <2>1, <2>2, <2>3 DEF IInv, KeepsWindow, WindowInv
<1>4. CASE u' # Panic(u)
  <2>1. /\ Steady(u', issued) /\ u'.skip_to_frame = u.skip_to_frame /\ ~u'.panicked
        /\ u'.first = u.first /\ u'.bootstrap_frames = u.bootstrap_frames
        /\ u'.data = u.data /\ u'.global_frame = u.global_frame
    BY <1>1, <1>4, RequestsKeepSteady
  <2>2. Extends(u, u', issued')
    BY <1>1, <2>1 DEF Extends, SentInv
  <2>3. Grows
    BY NothingIssued
  <2>4. SentInv' /\ RunInv' /\ Abstract!Next /\ Onwards
    BY <2>1, <2>2, <2>3, RunningStep
  <2>5. OwnInv'
    BY <1>1, <2>1 DEF OwnInv
  <2>6. Got' = Got
    BY DEF Got, ReceivedBundle, Received
  <2>7. KeepsWindow
    BY <2>1, <2>6 DEF KeepsWindow, WindowInv, Holds, Waits, JoinInv
  <2> QED
    BY <1>2, <2>4, <2>5, <2>7 DEF IInv
<1> QED
  BY <1>3, <1>4

(* A caller that asks is not in the queue; what it is told is the state at *)
(* the start of the window, which has been sent.                           *)
LEMMA FinalRequestKeepsCalls ==
  ASSUME IInv, NEW c \in Callers, RequestFinalGameState(c)
  PROVE  KeepsCalls
<1> SUFFICES ASSUME CallsInv PROVE CallsInv'
  BY DEF KeepsCalls
<1>1. PICK frame \in AskedFrames :
        /\ u' = RequestFinal(u, [caller |-> c, frame |-> frame])
        /\ calls' = [calls EXCEPT ![c] =
                       IF FinalReady(u, frame) THEN Answered(TRUE, frame, FinalResponse(u, frame))
                       ELSE Waiting(TRUE, frame)]
  BY DEF RequestFinalGameState
<1> DEFINE req == [caller |-> c, frame |-> frame]
           requests == u.final_requests
<1>2. /\ ~u.panicked /\ calls[c].status # "waiting" /\ QueueInv /\ Steady(u, issued) /\ SentInv
      /\ DOMAIN u = UpdaterFields /\ DOMAIN calls = Callers
      /\ requests \in Seq(RequestType) /\ FinalAnswersAgree
  BY DEF RequestFinalGameState, CallsInv, IInv, RunInv, SentInv
<1>3. \A r : Asked(requests, r) => r.caller # c
  BY <1>2 DEF QueueInv, AwaitsFinal
<1>4. /\ DOMAIN calls' = Callers
      /\ \A k \in Callers : k # c => calls'[k] = calls[k]
  BY <1>1, <1>2
<1>5. u'.bootstrap_frames = u.bootstrap_frames
  BY <1>1, <1>2 DEF RequestFinal, UpdaterFields
<1>6. CASE FinalReady(u, frame)
  <2>1. u' = u /\ calls'[c] = Answered(TRUE, frame, FinalResponse(u, frame))
    BY <1>1, <1>2, <1>6 DEF RequestFinal
  <2>2. QueueInv'
    <3>1. calls'[c].status = "answered"
      BY <2>1 DEF Answered
    <3> QED
      BY <1>2, <1>3, <1>4, <2>1, <3>1 DEF QueueInv, AwaitsFinal, Request
  <2>3. FinalAnswersAgree'
    <3> DEFINE response == FinalResponse(u, frame)
    <3>1. calls'[c].response = response /\ calls'[c].asked = frame
      BY <2>1 DEF Answered
    <3>2. ASSUME response.found
          PROVE  /\ response.frame \in DOMAIN u.bootstrap_frames
                 /\ response.game = Final(response.frame).game
                 /\ frame >= 0 => response.frame = frame
      <4>1. frame < 0 \/ frame = u.first
        BY <3>2 DEF FinalResponse, NoState
      <4>2. response = StateAt(u, u.first)
        BY <4>1 DEF FinalResponse
      <4>3. response.frame = u.first /\ response.game = u.data[u.first].game
        BY <4>2 DEF StateAt
      <4>4. u.data[u.first].game = Final(u.first).game
        BY <1>2 DEF Steady, Ready, Final
      <4>5. u.first \in DOMAIN u.bootstrap_frames
        BY <1>2, Constants DEF SentInv
      <4>6. frame \in Int
        BY ConfigAssumption
      <4> QED
        BY <4>1, <4>3, <4>4, <4>5, <4>6
    <3> HIDE DEF response
    <3> QED
      BY <1>2, <1>4, <2>1, <3>1, <3>2 DEF FinalAnswersAgree, Final
  <2> QED
    BY <1>2, <1>4, <2>1, <2>2, <2>3 DEF CallsInv
<1>7. CASE ~FinalReady(u, frame)
  <2>1. u' = [u EXCEPT !.final_requests = Append(@, req)] /\ calls'[c] = Waiting(TRUE, frame)
    BY <1>1, <1>2, <1>7 DEF RequestFinal
  <2>2. u'.final_requests = Append(requests, req)
    BY <1>2, <2>1 DEF UpdaterFields
  <2>3. req \in RequestType
    BY ConfigAssumption DEF RequestType
  <2> HIDE DEF req
  <2>4. u'.final_requests \in Seq(RequestType)
    BY <1>2, <2>2, <2>3
  <2>5. \A r : Asked(u'.final_requests, r) <=> Asked(requests, r) \/ r = req
    <3> DEFINE n == Len(requests)
    <3>1. /\ n \in Nat /\ DOMAIN requests = 1 .. n /\ DOMAIN Append(requests, req) = 1 .. n + 1
          /\ \A i \in 1 .. n : Append(requests, req)[i] = requests[i]
          /\ Append(requests, req)[n + 1] = req
      BY <1>2, <2>3
    <3> HIDE DEF n
    <3>2. 1 .. n + 1 = (1 .. n) \cup {n + 1}
      BY <3>1
    <3> QED
      BY <2>2, <3>1, <3>2 DEF Asked
  <2>6. AwaitsFinal(c)' /\ Request(c)' = req
    BY <2>1 DEF AwaitsFinal, Request, Waiting, req
  <2>7. QueueInv'
    <3>1. ASSUME NEW k \in Callers, AwaitsFinal(k)'
          PROVE  Asked(u'.final_requests, Request(k)')
      <4>1. CASE k = c
        BY <2>5, <2>6, <4>1
      <4>2. CASE k # c
        <5>1. AwaitsFinal(k) /\ Request(k)' = Request(k)
          BY <1>4, <3>1, <4>2 DEF AwaitsFinal, Request
        <5> QED
          BY <1>2, <2>5, <5>1 DEF QueueInv
      <4> QED
        BY <4>1, <4>2
    <3>2. ASSUME NEW r, Asked(u'.final_requests, r)
          PROVE  r.caller \in Callers /\ AwaitsFinal(r.caller)' /\ r = Request(r.caller)'
      <4>1. CASE r = req
        BY <2>6, <4>1 DEF req
      <4>2. CASE Asked(requests, r)
        <5>1. /\ r.caller \in Callers /\ r.caller # c
              /\ AwaitsFinal(r.caller) /\ r = Request(r.caller)
          BY <1>2, <1>3, <4>2 DEF QueueInv
        <5> QED
          BY <1>4, <5>1 DEF AwaitsFinal, Request
      <4> QED
        BY <2>5, <3>2, <4>1, <4>2
    <3> QED
      BY <3>1, <3>2 DEF QueueInv
  <2>8. FinalAnswersAgree'
    <3>1. calls'[c].status = "waiting"
      BY <2>1 DEF Waiting
    <3> QED
      BY <1>2, <1>4, <1>5, <3>1 DEF FinalAnswersAgree, Final
  <2> QED
    BY <1>4, <2>4, <2>7, <2>8 DEF CallsInv
<1> QED
  BY <1>6, <1>7

LEMMA FastRequestKeepsCalls ==
  ASSUME IInv, NEW c \in Callers, RequestFastGameState(c)
  PROVE  KeepsCalls
<1> SUFFICES ASSUME CallsInv PROVE CallsInv'
  BY DEF KeepsCalls
<1>1. PICK frame \in AskedFrames :
        /\ u' = RequestFast(u, [caller |-> c, frame |-> frame])
        /\ calls' = [calls EXCEPT ![c] =
                       IF FastReady(u, frame) /\ ~u'.panicked
                         THEN Answered(FALSE, frame, FastResponse(u, frame))
                         ELSE Waiting(FALSE, frame)]
  BY DEF RequestFastGameState
<1>2. /\ ~u.panicked /\ calls[c].status # "waiting" /\ QueueInv
      /\ DOMAIN u = UpdaterFields /\ DOMAIN calls = Callers
      /\ u.final_requests \in Seq(RequestType) /\ FinalAnswersAgree
  BY DEF RequestFastGameState, CallsInv, IInv, SentInv
<1>3. u'.bootstrap_frames = u.bootstrap_frames /\ u'.final_requests = u.final_requests
  BY <1>1, <1>2, PanicKeeps DEF RequestFast, UpdaterFields
<1>4. /\ DOMAIN calls' = Callers
      /\ \A k \in Callers : k # c => calls'[k] = calls[k]
  BY <1>1, <1>2
<1>5. ~calls'[c].final
  <2>1. \A x : ~Answered(FALSE, frame, x).final /\ ~Waiting(FALSE, frame).final
    BY DEF Answered, Waiting
  <2>2. \/ calls'[c] = Answered(FALSE, frame, FastResponse(u, frame))
        \/ calls'[c] = Waiting(FALSE, frame)
    BY <1>1, <1>2
  <2> QED
    BY <2>1, <2>2
<1>6. \A r : Asked(u.final_requests, r) => r.caller # c
  BY <1>2 DEF QueueInv, AwaitsFinal
<1>7. QueueInv'
  BY <1>2, <1>3, <1>4, <1>5, <1>6 DEF QueueInv, AwaitsFinal, Request
<1>8. FinalAnswersAgree'
  BY <1>2, <1>3, <1>4, <1>5 DEF FinalAnswersAgree, Final
<1> QED
  BY <1>2, <1>3, <1>4, <1>7, <1>8 DEF CallsInv

LEMMA NextStep ==
  ASSUME IInv, [Next]_vars
  PROVE  IInv' /\ (Abstract!Next \/ UNCHANGED Abstract!vars) /\ Onwards /\ KeepsWindow /\ KeepsCalls
<1>1. CASE UNCHANGED vars
  <2>1. IInv' /\ UNCHANGED Abstract!vars
    BY <1>1 DEF vars, IInv, SessionInv, SentInv, RunInv, OwnInv, Abstract!vars
  <2>2. KeepsWindow
    <3>1. Got' = Got
      BY <1>1 DEF vars, Got, ReceivedBundle, Received
    <3> QED
      BY <1>1, <3>1 DEF vars, KeepsWindow, WindowInv, Holds, Waits, JoinInv
  <2>3. KeepsCalls
    BY <1>1 DEF vars, KeepsCalls, CallsInv, QueueInv, AwaitsFinal, Request, FinalAnswersAgree, Final
  <2>4. Onwards
    <3>1. UNCHANGED issued /\ u'.first = u.first /\ u.first \in Nat
      BY <1>1 DEF vars, IInv, SentInv
    <3> QED
      BY <3>1, NothingIssued DEF Onwards
  <2> QED
    BY <2>1, <2>2, <2>3, <2>4
<1>2. ASSUME NEW id \in Peers, Issue(id)
      PROVE  IInv' /\ Abstract!Next /\ Onwards /\ KeepsWindow /\ KeepsCalls
  BY <1>2, IssueStep
<1>3. CASE LocalBundle
  BY <1>3, LocalBundleStep
<1>4. CASE RemoteBundles
  BY <1>4, RemoteBundlesStep
<1>5. ASSUME NEW c \in Callers, RequestFinalGameState(c)
      PROVE  IInv' /\ Abstract!Next /\ Onwards /\ KeepsWindow /\ KeepsCalls
  <2>1. PICK frame \in AskedFrames : u' = RequestFinal(u, [caller |-> c, frame |-> frame])
    BY <1>5 DEF RequestFinalGameState
  <2>2. u' = u \/ \E requests : u' = [u EXCEPT !.final_requests = requests]
    BY <2>1 DEF RequestFinal
  <2> QED
    BY <1>5, <2>2, RequestStep, FinalRequestKeepsCalls DEF RequestFinalGameState
<1>6. ASSUME NEW c \in Callers, RequestFastGameState(c)
      PROVE  IInv' /\ Abstract!Next /\ Onwards /\ KeepsWindow /\ KeepsCalls
  <2>1. PICK frame \in AskedFrames : u' = RequestFast(u, [caller |-> c, frame |-> frame])
    BY <1>6 DEF RequestFastGameState
  <2>2. \/ u' = Panic(u)
        \/ u' = u \/ \E requests : u' = [u EXCEPT !.fast_requests = requests]
    BY <2>1 DEF RequestFast
  <2> QED
    BY <1>6, <2>2, RequestStep, FastRequestKeepsCalls DEF RequestFastGameState
<1>7. CASE Finished
  BY <1>1, <1>7 DEF Finished
<1> QED
  BY <1>1, <1>2, <1>3, <1>4, <1>5, <1>6, <1>7 DEF Next

-----------------------------------------------------------------------------
(* The invariant holds in every run: in particular the window data linked  *)
(* frame by frame below the oldest dirty frame, which is why advance() may *)
(* start there.                                                            *)
THEOREM Invariance == Spec => []IInv
<1>1. Init => IInv
  BY InitInv
<1>2. IInv /\ [Next]_vars => IInv'
  BY NextStep
<1> QED
  BY <1>1, <1>2, PTL DEF Spec

(* A final state is the outcome of all the bundles issued for its frame,   *)
(* whatever the order in which routine() got them, and no bundle still on  *)
(* its way, or issued later, could change it.                              *)
THEOREM FinalStatesFollow == Spec => []FinalFollowsIssued
<1>1. IInv => FinalFollowsIssued
  <2> SUFFICES ASSUME IInv, NEW f \in BaseFrame + 1 .. u.first
               PROVE  LET engines == ApplyEngineEvents(Final(f - 1).info, issued[f])
                      IN  /\ Final(f).info = engines
                          /\ Final(f).game
                               = ApplyAndThink(Final(f - 1).game, engines, issued[f])
    BY DEF FinalFollowsIssued
  <2>1. Settled(u.bootstrap_frames, f, issued[f])
    BY DEF IInv, SentInv
  <2> QED
    BY <2>1 DEF Settled, Final
<1> QED
  BY <1>1, Invariance, PTL

(* The updater is an implementation of the log of final states, for every  *)
(* number of engines, window size, delivery order and grouping.            *)
THEOREM UpdaterImplementsFinalLog == Spec => ImplementsFinalLog
<1>1. Init => Abstract!Init
  <2> SUFFICES ASSUME Init PROVE Abstract!Init
    OBVIOUS
  <2>1. \A f \in Frames : issued[f] = EmptyBundle
    BY Constants DEF Init, Frames
  <2>2. u.bootstrap_frames = [f \in {BaseFrame} |-> [info |-> Founders, game |-> <<>>]]
    <3>1. BaseFrame \in Window(BaseFrame)
      BY Constants DEF Window
    <3> QED
      BY <3>1 DEF Init, Start, Bootstrap, BootFrame, NewUpdater, FrameData
  <2> QED
    BY <2>1, <2>2 DEF Abstract!Init, Abstract!Frames, Frames, EmptyBundle, Abstract!EmptyBundle,
                      NoEvents, Abstract!NoEvents
<1>2. IInv /\ [Next]_vars => [Abstract!Next]_Abstract!vars
  BY NextStep
<1> QED
  BY <1>1, <1>2, Invariance, PTL DEF Spec, ImplementsFinalLog, Abstract!Spec

(* Between two handlers no frame of the window is dirty: each is the one   *)
(* before it with the bundles received for it applied, back to the final   *)
(* state that was sent, whatever the order in which the bundles came and   *)
(* however far back the last one of them reached.                          *)
THEOREM SpeculationFollows == Spec => []SpeculationUpToDate
<1>1. IInv => SpeculationUpToDate
  <2> SUFFICES ASSUME IInv, ~u.panicked PROVE SpeculationUpToDate
    BY DEF SpeculationUpToDate
  <2>1. Steady(u, issued) /\ u.oldest_dirty_frame - 1 = u.global_frame
    BY DEF IInv, RunInv, Steady, Ready, Shape
  <2>2. \A f \in u.first + 1 .. u.global_frame : Placeholder(u, f) \/ Linked(u.data, f)
    BY <2>1 DEF Steady, Ready
  <2> QED
    BY <2>1, <2>2 DEF SpeculationUpToDate, Steady, Ready, Linked, Final
<1> QED
  BY <1>1, Invariance, PTL

LEMMA WindowInvariance ==
  ASSUME Punctual
  PROVE  Spec => [](IInv /\ WindowInv)
<1>1. Init => IInv /\ WindowInv
  BY InitInv
<1>2. (IInv /\ WindowInv) /\ [Next]_vars => (IInv /\ WindowInv)'
  BY NextStep DEF KeepsWindow
<1> QED
  BY <1>1, <1>2, PTL DEF Spec

(* Every bundle that was handed over or broadcast by routine() for a frame *)
(* after the start of the window is in the slot of its frame, and nothing  *)
(* else is: none is lost when bundles come out of order, in groups, with   *)
(* gaps, or when the slot is a recycled one.                               *)
THEOREM NothingLost ==
  ASSUME Punctual
  PROVE  Spec => []WindowHoldsReceived
<1>1. IInv /\ WindowInv => WindowHoldsReceived
  <2> SUFFICES ASSUME IInv, WindowInv, ~u.panicked PROVE WindowHoldsReceived
    BY DEF WindowHoldsReceived
  <2>1. Holds(u, Got) /\ Shape(u)
    BY DEF IInv, RunInv, Steady, Ready, WindowInv
  <2>2. \A f \in u.first + 1 .. u.global_frame : f \in Frames
    BY <2>1, Constants DEF Shape, Frames
  <2>3. \A f \in Frames : f > u.global_frame => Received(f) = {}
    <3> SUFFICES ASSUME NEW f \in Frames, f > u.global_frame PROVE Received(f) = {}
      OBVIOUS
    <3>1. ReceivedBundle(f) = EmptyBundle
      BY <2>1 DEF Holds, Got
    <3> QED
      BY <3>1 DEF ReceivedBundle, EmptyBundle
  <2> QED
    BY <2>1, <2>2, <2>3 DEF WindowHoldsReceived, Holds, Got
<1> QED
  BY <1>1, WindowInvariance, PTL

(* The window moves as soon as it may: between two handlers its second     *)
(* frame always lacks a bundle of some engine known on it.                 *)
THEOREM NeverStalled ==
  ASSUME Punctual
  PROVE  Spec => []NotStalled
<1>1. IInv /\ WindowInv => NotStalled
  <2> SUFFICES ASSUME IInv, WindowInv, ~u.panicked, u.first < MaxFrame,
                      ApplyEngineEvents(Final(u.first).info, ReceivedBundle(u.first + 1))
                        \subseteq Received(u.first + 1)
               PROVE  FALSE
    BY DEF NotStalled
  <2> DEFINE f == u.first + 1
             engines == ApplyEngineEvents(Final(u.first).info, ReceivedBundle(f))
  <2>1. Holds(u, Got) /\ Waits(u) /\ Steady(u, issued) /\ Shape(u)
    BY DEF IInv, RunInv, WindowInv, Steady, Ready
  <2>2. /\ u.first \in Nat /\ u.global_frame \in Nat /\ u.first <= u.global_frame
        /\ u.global_frame <= u.first + Max_frames /\ f \in Frames
    BY <2>1, Constants DEF Shape, Frames
  <2>3. u.data[u.first].info = Final(u.first).info /\ Host \in Final(u.first).info
    BY <2>1, <2>2 DEF Steady, Ready, Final
  <2>4. DOMAIN ReceivedBundle(f) = Received(f)
    BY DEF ReceivedBundle
  <2>5. Received(f) # {}
    <3> SUFFICES ASSUME Received(f) = {} PROVE FALSE
      OBVIOUS
    <3>1. Places(ReceivedBundle(f), EngineDropped(Host)) = {}
      BY <2>4 DEF Places
    <3> HIDE DEF f
    <3>2. Host \in engines
      BY <2>3, <3>1, StaysKnown, Constants
    <3> QED
      BY <3>2 DEF f
  <2>6. u.first < u.global_frame /\ u.data[f].bundle = ReceivedBundle(f)
    <3>1. f > u.global_frame => DOMAIN ReceivedBundle(f) = {}
      BY <2>1, <2>2 DEF Holds, Got, EmptyBundle
    <3>2. f \in u.first + 1 .. u.global_frame
      BY <2>2, <2>4, <2>5, <3>1
    <3>3. u.data[f].bundle = Got[f] /\ u.first < u.global_frame
      BY <2>1, <2>2, <3>2 DEF Holds
    <3>4. Got[f] = ReceivedBundle(f)
      BY <2>2 DEF Got
    <3> QED
      BY <3>3, <3>4
  <2>7. f \in u.first + 1 .. u.oldest_dirty_frame - 1 /\ f \in Window(u.first)
    BY <2>1, <2>2, <2>6 DEF Steady, Window
  <2>8. ~Placeholder(u, f)
    BY <2>4, <2>5, <2>6 DEF Placeholder
  <2>9. Linked(u.data, f) /\ DOMAIN u.data[f] = SlotFields
    BY <2>1, <2>7, <2>8 DEF Steady, Ready, Shape
  <2>10. u.data[f].info = ApplyEngineEvents(u.data[f - 1].info, u.data[f].bundle)
    BY <2>9, LinkedState
  <2>11. u.data[f].info = engines
    <3>1. f - 1 = u.first
      BY <2>2
    <3> QED
      BY <2>3, <2>6, <2>10, <3>1
  <2>12. ~Complete(u.data[f])
    BY <2>1, <2>6 DEF Waits
  <2> QED
    BY <2>4, <2>6, <2>11, <2>12 DEF Complete
<1> QED
  BY <1>1, WindowInvariance, PTL

LEMMA CallsInvariance == Spec => []CallsInv
<1>1. Init => IInv /\ CallsInv
  <2> SUFFICES ASSUME Init PROVE CallsInv
    BY InitInv
  <2>1. \A c \in Callers : calls[c].status = "idle"
    BY DEF Init, Idle
  <2>2. u.final_requests = <<>>
    BY DEF Init, Bootstrap, Start, NewUpdater
  <2>3. QueueInv /\ FinalAnswersAgree
    BY <2>1, <2>2 DEF QueueInv, FinalAnswersAgree, AwaitsFinal, Asked
  <2>4. DOMAIN calls = Callers
    BY DEF Init
  <2>5. u.final_requests \in Seq(RequestType)
    BY <2>2
  <2> QED
    BY <2>3, <2>4, <2>5 DEF CallsInv
<1>2. (IInv /\ CallsInv) /\ [Next]_vars => (IInv /\ CallsInv)'
  BY NextStep DEF KeepsCalls
<1> QED
  BY <1>1, <1>2, PTL DEF Spec

(* Whoever asked for a final state is told the one the session agreed on   *)
(* for the frame it asked for, whenever that becomes final and however     *)
(* many requests are served in between: no request is taken off the queue  *)
(* before its frame is final, and none is answered with another's.         *)
THEOREM FinalAnswers == Spec => []FinalAnswersAgree
<1>1. CallsInv => FinalAnswersAgree
  BY DEF CallsInv
<1> QED
  BY <1>1, CallsInvariance, PTL

-----------------------------------------------------------------------------
(* No handler panics.                                                      *)

(* What no handler but HandleLocal changes.                                *)
LEMMA InitFramesKeeps ==
  ASSUME NEW v, NEW frame, DOMAIN v = UpdaterFields
  PROVE  LET w == InitFrames(v, frame)
         IN  /\ DOMAIN w = UpdaterFields /\ w.local_frame = v.local_frame
             /\ w.skip_to_frame = v.skip_to_frame /\ w.id = v.id
             /\ w.fast_requests = v.fast_requests
             /\ ~(frame > v.global_frame) \/ InWindow(v, frame) => w.panicked = v.panicked
<1> DEFINE w == InitFrames(v, frame)
<1>1. CASE frame > v.global_frame /\ ~InWindow(v, frame)
  <2>1. w = Panic(v)
    BY <1>1 DEF InitFrames
  <2> QED
    BY <1>1, <2>1 DEF Panic, UpdaterFields
<1>2. CASE ~(frame > v.global_frame /\ ~InWindow(v, frame))
  <2>1. \E data : w = [v EXCEPT !.data = data]
    BY <1>2 DEF InitFrames
  <2> QED
    BY <2>1 DEF UpdaterFields
<1> QED
  BY <1>1, <1>2

LEMMA StoreKeeps ==
  ASSUME NEW v, NEW fb, DOMAIN v = UpdaterFields
  PROVE  LET w == Store(v, fb)
         IN  /\ DOMAIN w = UpdaterFields /\ w.local_frame = v.local_frame
             /\ w.skip_to_frame = v.skip_to_frame /\ w.fast_requests = v.fast_requests
BY DEF Store, Panic, UpdaterFields

LEMMA advanceKeeps ==
  ASSUME NEW v, DOMAIN v = UpdaterFields
  PROVE  LET w == advance(v)
         IN  /\ DOMAIN w = UpdaterFields /\ w.local_frame = v.local_frame
             /\ w.skip_to_frame = v.skip_to_frame /\ w.fast_requests = v.fast_requests
BY DEF advance, Panic, UpdaterFields

(* A frame of the window in reach of which no bundle is missing has a slot *)
(* for a bundle that was not received yet.                                 *)
LEMMA InitFramesRuns ==
  ASSUME NEW v, NEW all, Ready(v, all), NEW frame \in Nat,
         v.first < frame, frame <= v.first + Max_frames
  PROVE  ~InitFrames(v, frame).panicked
<1>1. InWindow(v, frame) /\ DOMAIN v = UpdaterFields /\ ~v.panicked
  BY DEF InWindow, Window, Ready, Shape
<1> QED
  BY <1>1, InitFramesKeeps

LEMMA StoreRuns ==
  ASSUME NEW v, NEW all, Ready(v, all), NEW fb, Cleared(v, fb.frame), fb.frame \in Frames,
         v.first < fb.frame, fb.frame <= v.first + Max_frames,
         NEW got, Holds(v, got), ~MapCollision(got[fb.frame], fb.bundle)
  PROVE  ~Store(v, fb).panicked
<1> DEFINE frame == fb.frame
<1>1. /\ v.first \in Nat /\ v.global_frame \in Nat /\ frame \in Nat /\ MaxFrame \in Nat
      /\ BaseFrame \in Nat /\ DOMAIN v = UpdaterFields /\ ~v.panicked
  BY Constants DEF Ready, Shape, Frames
<1>2. InWindow(v, frame)
  BY <1>1 DEF InWindow, Window
<1>3. v.data[frame].made /\ v.data[frame].bundle = got[frame]
  <2>1. CASE frame <= v.global_frame
    <3>1. frame \in v.first + 1 .. v.global_frame
      BY <1>1, <2>1
    <3> QED
      BY <3>1 DEF Holds
  <2>2. CASE frame > v.global_frame
    <3>1. frame \in v.global_frame + 1 .. frame
      BY <1>1, <2>2
    <3>2. got[frame] = EmptyBundle
      BY <2>2 DEF Holds
    <3> QED
      BY <3>1, <3>2 DEF Cleared
  <2> QED
    BY <1>1, <2>1, <2>2
<1>4. ~CannotAbsorb(v.data[frame], fb.bundle)
  BY <1>3 DEF CannotAbsorb
<1> QED
  BY <1>1, <1>2, <1>4 DEF Store, UpdaterFields

(* A bundle in reach that was not received before is absorbed.             *)
LEMMA AbsorbRemoteRuns ==
  ASSUME NEW v, NEW all, Ready(v, all), NEW fb, FromSession(fb, all),
         fb.frame > v.first => fb.frame <= v.first + Max_frames,
         NEW got, Holds(v, got), fb.frame \in Frames => ~MapCollision(got[fb.frame], fb.bundle)
  PROVE  ~AbsorbRemote(v, fb).panicked
<1>0. /\ v.first \in Nat /\ BaseFrame <= v.first /\ BaseFrame \in Nat /\ MaxFrame \in Nat
      /\ fb.frame \in Nat /\ fb.frame <= MaxFrame /\ ~v.panicked
  BY Constants DEF Ready, Shape, FromSession
<1>1. CASE fb.frame <= v.first
  BY <1>0, <1>1 DEF AbsorbRemote
<1>2. CASE fb.frame > v.first
  <2> DEFINE ready == InitFrames(v, fb.frame)
             noticed == NoticeJoin(ready, fb)
  <2>1. AbsorbRemote(v, fb) = Store(noticed, fb)
    BY <1>0, <1>2 DEF AbsorbRemote
  <2>2. ~ready.panicked
    BY <1>0, <1>2, InitFramesRuns
  <2>3. /\ Ready(ready, all) /\ Cleared(ready, fb.frame) /\ Unchanged(v, ready)
        /\ ready.first = v.first
    BY <1>0, <2>2, InitFramesReady
  <2> HIDE DEF ready
  <2>4. /\ Ready(noticed, all) /\ Cleared(noticed, fb.frame) /\ Unchanged(ready, noticed)
        /\ noticed.first = v.first
    BY <1>0, <2>3, NoticeJoinReady
  <2> HIDE DEF noticed
  <2>5. Holds(noticed, got)
    <3>1. Holds(ready, got)
      BY <2>3, UnchangedHolds DEF Ready
    <3> QED
      BY <2>3, <2>4, <3>1, UnchangedHolds DEF Ready
  <2>6. fb.frame \in Frames
    BY <1>0, <1>2 DEF Frames
  <2> QED
    BY <1>2, <2>1, <2>4, <2>5, <2>6, StoreRuns
<1> QED
  BY <1>0, <1>1, <1>2

(* A group of bundles none of which was received before is absorbed.       *)
LEMMA HandleRemoteRuns ==
  ASSUME NEW v, NEW all, Steady(v, all), HostRules(all), NEW group, Len(group) \in Nat,
         NEW gots, Gathered(v, gots, group, Len(group)),
         \A i \in 1 .. Len(group) :
           /\ FromSession(group[i], all)
           /\ group[i].frame > v.first => group[i].frame <= v.first + Max_frames
           /\ group[i].frame \in Frames =>
                ~MapCollision(gots[i - 1][group[i].frame], group[i].bundle)
  PROVE  ~HandleRemote(v, group).panicked
<1> DEFINE after == AbsorbGroup(v, group)
           Good(w, n) == Ready(w, all) /\ w.first = v.first /\ Holds(w, gots[n])
           S == {n \in Nat : n <= Len(group) => Good(after[n], n)}
<1>1. after = [i \in 0 .. Len(group) |->
                 IF i = 0 THEN v ELSE AbsorbRemote(after[i - 1], group[i])]
  BY AbsorbGroupDef
<1> HIDE DEF after
<1>2. 0 \in S
  BY <1>1 DEF Gathered, Steady
<1>3. ASSUME NEW n \in Nat, n \in S PROVE n + 1 \in S
  <2> SUFFICES ASSUME n + 1 <= Len(group) PROVE Good(after[n + 1], n + 1)
    OBVIOUS
  <2>1. after[n + 1] = AbsorbRemote(after[n], group[n + 1])
    <3>1. n + 1 \in 0 .. Len(group) /\ n + 1 # 0 /\ (n + 1) - 1 = n
      OBVIOUS
    <3> HIDE DEF S
    <3> QED
      BY <1>1, <3>1
  <2>2. Good(after[n], n)
    BY <1>3
  <2>3. /\ FromSession(group[n + 1], all)
        /\ group[n + 1].frame > v.first => group[n + 1].frame <= v.first + Max_frames
        /\ group[n + 1].frame \in Frames =>
             ~MapCollision(gots[n][group[n + 1].frame], group[n + 1].bundle)
    <3>1. n + 1 \in 1 .. Len(group) /\ (n + 1) - 1 = n
      OBVIOUS
    <3> QED
      BY <3>1
  <2>4. ~AbsorbRemote(after[n], group[n + 1]).panicked
    BY <2>2, <2>3, AbsorbRemoteRuns
  <2>5. gots[n + 1] = Plus(gots[n], group[n + 1])
    <3>1. n + 1 \in 1 .. Len(group) /\ (n + 1) - 1 = n
      OBVIOUS
    <3> QED
      BY <3>1 DEF Gathered
  <2> QED
    BY <2>1, <2>2, <2>3, <2>4, <2>5, AbsorbRemoteReady
<1>4. Nat \subseteq S
  <2> HIDE DEF S
  <2> QED
    BY <1>2, <1>3, SetInduction
<1>5. Ready(after[Len(group)], all)
  BY <1>4
<1>6. HandleRemote(v, group) = advance(after[Len(group)])
  BY DEF HandleRemote, after
<1> QED
  BY <1>5, <1>6, AdvanceExtends DEF Steady, Ready

(* A handler of remote bundles leaves local_frame alone, and the join frame*)
(* it notices is that of a bundle with the engine's own EngineJoined event.*)
Noticed(v, w, group) ==
  \/ w.skip_to_frame = v.skip_to_frame
  \/ \E i \in 1 .. Len(group) :
       /\ v.first < group[i].frame /\ w.skip_to_frame = group[i].frame
       /\ Places(group[i].bundle, EngineJoined(v.id)) # {}

LEMMA AbsorbRemoteNotices ==
  ASSUME NEW v, DOMAIN v = UpdaterFields, NEW fb, v.first \in Nat, fb.frame \in Nat,
         ~AbsorbRemote(v, fb).panicked
  PROVE  LET w == AbsorbRemote(v, fb)
         IN  /\ DOMAIN w = UpdaterFields /\ w.local_frame = v.local_frame
             /\ w.fast_requests = v.fast_requests
             /\ \/ w.skip_to_frame = v.skip_to_frame
                \/ /\ v.first < fb.frame /\ w.skip_to_frame = fb.frame
                   /\ Places(fb.bundle, EngineJoined(v.id)) # {}
<1>1. CASE AbsorbRemote(v, fb) = v
  BY <1>1
<1>2. CASE AbsorbRemote(v, fb) # v
  <2> DEFINE ready == InitFrames(v, fb.frame)
             noticed == NoticeJoin(ready, fb)
  <2>1. AbsorbRemote(v, fb) = Store(noticed, fb) /\ v.first < fb.frame
    BY <1>2 DEF AbsorbRemote
  <2>2. /\ DOMAIN ready = UpdaterFields /\ ready.local_frame = v.local_frame
        /\ ready.skip_to_frame = v.skip_to_frame /\ ready.id = v.id
        /\ ready.fast_requests = v.fast_requests
    BY InitFramesKeeps
  <2> HIDE DEF ready
  <2>3. /\ DOMAIN noticed = UpdaterFields /\ noticed.local_frame = v.local_frame
        /\ noticed.fast_requests = v.fast_requests
        /\ \/ noticed.skip_to_frame = v.skip_to_frame
           \/ noticed.skip_to_frame = fb.frame /\ Places(fb.bundle, EngineJoined(v.id)) # {}
    BY <2>2 DEF NoticeJoin, UpdaterFields
  <2> HIDE DEF noticed
  <2> QED
    BY <2>1, <2>3, StoreKeeps
<1> QED
  BY <1>1, <1>2

LEMMA HandleRemoteNotices ==
  ASSUME NEW v, NEW all, Steady(v, all), HostRules(all), NEW group, Len(group) \in Nat,
         \A i \in 1 .. Len(group) : FromSession(group[i], all),
         ~HandleRemote(v, group).panicked
  PROVE  LET w == HandleRemote(v, group)
         IN  /\ w.local_frame = v.local_frame /\ w.fast_requests = v.fast_requests
             /\ Noticed(v, w, group)
<1> DEFINE after == AbsorbGroup(v, group)
           Good(w, n) ==
             /\ Ready(w, all) /\ w.first = v.first /\ w.local_frame = v.local_frame
             /\ w.fast_requests = v.fast_requests /\ Noticed(v, w, group)
           S == {n \in Nat : n <= Len(group) => after[n].panicked \/ Good(after[n], n)}
<1>1. after = [i \in 0 .. Len(group) |->
                 IF i = 0 THEN v ELSE AbsorbRemote(after[i - 1], group[i])]
  BY AbsorbGroupDef
<1> HIDE DEF after
<1>2. 0 \in S
  BY <1>1 DEF Noticed, Steady
<1>3. ASSUME NEW n \in Nat, n \in S PROVE n + 1 \in S
  <2> SUFFICES ASSUME n + 1 <= Len(group), ~after[n + 1].panicked PROVE Good(after[n + 1], n + 1)
    OBVIOUS
  <2>1. after[n + 1] = AbsorbRemote(after[n], group[n + 1]) /\ n + 1 \in 1 .. Len(group)
    BY <1>1
  <2>2. ~after[n].panicked
    BY <2>1 DEF AbsorbRemote
  <2>3. Good(after[n], n)
    BY <1>3, <2>2
  <2>4. FromSession(group[n + 1], all) /\ group[n + 1].frame \in Nat
    BY <2>1 DEF FromSession
  <2>5. ~AbsorbRemote(after[n], group[n + 1]).panicked
    BY <2>1
  <2>6. Ready(after[n + 1], all) /\ after[n + 1].first = v.first
    BY <2>1, <2>3, <2>4, <2>5, AbsorbRemoteReady
  <2>7. /\ DOMAIN after[n] = UpdaterFields /\ after[n].first \in Nat
        /\ after[n].id = v.id
    BY <2>3 DEF Ready, Shape, Steady
  <2>8. /\ after[n + 1].local_frame = v.local_frame
        /\ after[n + 1].fast_requests = v.fast_requests
        /\ \/ after[n + 1].skip_to_frame = after[n].skip_to_frame
           \/ /\ v.first < group[n + 1].frame /\ after[n + 1].skip_to_frame = group[n + 1].frame
              /\ Places(group[n + 1].bundle, EngineJoined(v.id)) # {}
    <3> DEFINE w == AbsorbRemote(after[n], group[n + 1])
    <3>1. /\ w.local_frame = after[n].local_frame /\ w.fast_requests = after[n].fast_requests
          /\ \/ w.skip_to_frame = after[n].skip_to_frame
             \/ /\ after[n].first < group[n + 1].frame /\ w.skip_to_frame = group[n + 1].frame
                /\ Places(group[n + 1].bundle, EngineJoined(after[n].id)) # {}
      BY <2>4, <2>5, <2>7, AbsorbRemoteNotices
    <3> QED
      BY <2>1, <2>3, <2>7, <3>1
  <2>9. Noticed(v, after[n + 1], group)
    BY <2>1, <2>3, <2>8 DEF Noticed
  <2> QED
    BY <2>6, <2>8, <2>9
<1>4. Nat \subseteq S
  <2> HIDE DEF S
  <2> QED
    BY <1>2, <1>3, SetInduction
<1> DEFINE x == after[Len(group)]
<1>5. HandleRemote(v, group) = advance(x)
  BY DEF HandleRemote, after
<1>6. ~x.panicked
  BY <1>5 DEF advance
<1>7. Good(x, Len(group))
  BY <1>4, <1>6
<1> HIDE DEF x
<1>8. DOMAIN x = UpdaterFields
  BY <1>7 DEF Ready, Shape
<1> QED
  BY <1>5, <1>7, <1>8, advanceKeeps DEF Noticed

LEMMA HandleLocalTicks ==
  ASSUME NEW v, NEW all, Steady(v, all), NEW fb, ~Discards(v, fb.frame),
         ~HandleLocal(v, fb).panicked
  PROVE  LET w == HandleLocal(v, fb)
         IN  /\ w.local_frame = fb.frame /\ w.skip_to_frame = 0
             /\ w.fast_requests = Unserved(v.fast_requests, fb.frame)
<1> DEFINE filled == FillSkipped(v, fb.frame)
           ticked == [filled EXCEPT !.local_frame = fb.frame]
           ready == InitFrames(ticked, fb.frame)
           stored == Store(ready, fb)
           advanced == advance(stored)
<1>1. /\ ~filled.panicked /\ HandleLocal(v, fb) = fulfillFastRequests(advanced)
      /\ DOMAIN v = UpdaterFields
  BY DEF HandleLocal, Steady, Ready, Shape
<1>2. /\ DOMAIN filled = UpdaterFields /\ filled.fast_requests = v.fast_requests
      /\ filled.skip_to_frame = 0
  BY <1>1 DEF FillSkipped, Panic, UpdaterFields
<1> HIDE DEF filled
<1>3. /\ DOMAIN ticked = UpdaterFields /\ ticked.local_frame = fb.frame
      /\ ticked.fast_requests = v.fast_requests /\ ticked.skip_to_frame = 0
  BY <1>2 DEF UpdaterFields
<1> HIDE DEF ticked
<1>4. /\ DOMAIN ready = UpdaterFields /\ ready.local_frame = fb.frame
      /\ ready.fast_requests = v.fast_requests /\ ready.skip_to_frame = 0
  BY <1>3, InitFramesKeeps
<1> HIDE DEF ready
<1>5. /\ DOMAIN stored = UpdaterFields /\ stored.local_frame = fb.frame
      /\ stored.fast_requests = v.fast_requests /\ stored.skip_to_frame = 0
  BY <1>4, StoreKeeps
<1> HIDE DEF stored
<1>6. /\ DOMAIN advanced = UpdaterFields /\ advanced.local_frame = fb.frame
      /\ advanced.fast_requests = v.fast_requests /\ advanced.skip_to_frame = 0
  BY <1>5, advanceKeeps
<1> HIDE DEF advanced
<1>7. /\ fulfillFastRequests(advanced)
            = [advanced EXCEPT !.fast_requests = Unserved(@, advanced.local_frame)]
      /\ ~advanced.panicked
  BY <1>1, <1>6 DEF fulfillFastRequests, Panic, UpdaterFields
<1> QED
  BY <1>1, <1>6, <1>7 DEF UpdaterFields

(* A local bundle of a frame in reach that this engine has not sent yet,   *)
(* with the frames it has skipped, finds a slot for each.                  *)
LEMMA HandleLocalRuns ==
  ASSUME NEW v, NEW all, Steady(v, all), HostRules(all),
         NEW fb, fb.frame \in Nat, fb.frame <= MaxFrame,
         \A f \in Skipped(v, fb.frame) \cap Frames : SubBundle(Only(Self, NoEvents), all[f]),
         fb.frame \in Frames => SubBundle(fb.bundle, all[fb.frame]),
         v.first < fb.frame, fb.frame <= v.first + Max_frames,
         v.skip_to_frame # 0 => v.first < v.skip_to_frame,
         NEW got, Holds(v, got),
         Skipped(v, fb.frame) \subseteq v.first + 1 .. v.global_frame,
         \A f \in Skipped(v, fb.frame) : Self \notin DOMAIN got[f],
         ~MapCollision(got[fb.frame], fb.bundle),
         \A w : Steady(w, all) /\ Extends(v, w, all) => w.first <= fb.frame
  PROVE  ~HandleLocal(v, fb).panicked
<1> DEFINE frame == fb.frame
           dummy == Only(v.id, NoEvents)
           skipped == Skipped(v, frame)
           filled == FillSkipped(v, frame)
           ticked == [filled EXCEPT !.local_frame = frame]
           ready == InitFrames(ticked, frame)
           stored == Store(ready, fb)
           advanced == advance(stored)
<1>1. /\ v.first \in Nat /\ v.oldest_dirty_frame \in Nat /\ v.skip_to_frame \in Int
      /\ v.global_frame \in Nat /\ v.global_frame <= v.first + Max_frames
      /\ v.first < v.oldest_dirty_frame /\ BaseFrame <= v.first /\ v.id = Self
      /\ DOMAIN v = UpdaterFields /\ ~v.panicked /\ Ready(v, all)
      /\ frame \in Frames /\ DOMAIN got = Frames
  BY Constants DEF Steady, Ready, Shape, Frames, Holds
<1>2. \A f \in skipped : InWindow(v, f) /\ ~CannotAbsorb(v.data[f], dummy)
  <2> SUFFICES ASSUME NEW f \in skipped PROVE InWindow(v, f) /\ ~CannotAbsorb(v.data[f], dummy)
    OBVIOUS
  <2>1. f \in v.first + 1 .. v.global_frame
    OBVIOUS
  <2>2. InWindow(v, f)
    <3>1. f \in Int /\ v.first <= f /\ f <= v.first + Max_frames
      BY <1>1, <2>1, MaxFramesAssumption
    <3> QED
      BY <3>1 DEF InWindow, Window
  <2>3. v.data[f].made /\ v.data[f].bundle = got[f]
    BY <2>1 DEF Holds
  <2> QED
    BY <1>1, <2>2, <2>3 DEF CannotAbsorb, MapCollision, Only
<1>3. /\ ~filled.panicked /\ v.first < filled.oldest_dirty_frame
  <2>1. CASE v.skip_to_frame = 0
    BY <1>1, <2>1 DEF FillSkipped
  <2>2. CASE v.skip_to_frame # 0
    <3>1. \E data : filled = [v EXCEPT !.oldest_dirty_frame = Lesser(@, v.skip_to_frame),
                                       !.data = data, !.skip_to_frame = 0]
      BY <1>2, <2>2 DEF FillSkipped
    <3> QED
      BY <1>1, <2>2, <3>1 DEF UpdaterFields, Lesser
  <2> QED
    BY <2>1, <2>2
<1>4. /\ Ready(filled, all) /\ Filled(v, filled, frame)
      /\ filled.first = v.first /\ filled.bootstrap_frames = v.bootstrap_frames
  BY <1>1, <1>3, FillSkippedReady
<1> HIDE DEF filled
<1>5. /\ Ready(ticked, all) /\ ticked.first = v.first
      /\ ticked.bootstrap_frames = v.bootstrap_frames
      /\ ticked.data = filled.data /\ ticked.global_frame = filled.global_frame
  BY <1>4, LocalFrameReady
<1>6. ticked.local_frame = frame
  BY <1>4 DEF Ready, Shape, UpdaterFields
<1> HIDE DEF ticked
<1>7. ~ready.panicked
  BY <1>5, InitFramesRuns
<1>8. /\ Ready(ready, all) /\ Cleared(ready, frame) /\ Unchanged(ticked, ready)
      /\ ready.first = v.first /\ ready.bootstrap_frames = v.bootstrap_frames
      /\ ready.local_frame = frame
  <2>1. /\ Ready(ready, all) /\ Cleared(ready, frame) /\ Unchanged(ticked, ready)
        /\ ready.first = ticked.first /\ ready.bootstrap_frames = ticked.bootstrap_frames
    BY <1>5, <1>7, InitFramesReady
  <2>2. DOMAIN ticked = UpdaterFields
    BY <1>5 DEF Ready, Shape
  <2>3. ready.local_frame = frame
    BY <1>6, <2>2, InitFramesKeeps
  <2> QED
    BY <1>5, <2>1, <2>3
<1> HIDE DEF ready
<1> DEFINE owed == [f \in DOMAIN got |-> IF f \in skipped THEN Absorb(got[f], dummy) ELSE got[f]]
<1>9. Holds(ready, owed)
  <2>1. ASSUME NEW f \in v.first + 1 .. v.global_frame
        PROVE  filled.data[f].made /\ filled.data[f].bundle = owed[f]
    <3>1. f \in Frames
      BY <1>1, Constants DEF Ready, Shape, Frames
    <3>2. v.data[f].made /\ v.data[f].bundle = got[f] /\ f \in DOMAIN got
      BY <1>1, <3>1 DEF Holds
    <3>3. /\ filled.data[f].made = v.data[f].made
          /\ filled.data[f].bundle = IF f \in skipped THEN Absorb(v.data[f].bundle, dummy)
                                     ELSE v.data[f].bundle
      BY <1>1, <1>4 DEF Filled
    <3> HIDE DEF skipped, dummy
    <3> QED
      BY <3>2, <3>3
  <2>2. ASSUME NEW f \in Frames, f > v.global_frame PROVE owed[f] = EmptyBundle
    <3>1. f \notin skipped
      BY <1>1, <2>2
    <3>2. got[f] = EmptyBundle /\ f \in DOMAIN got
      BY <1>1, <2>2 DEF Holds
    <3> HIDE DEF skipped, dummy
    <3> QED
      BY <3>1, <3>2
  <2>3. DOMAIN owed = Frames /\ filled.global_frame = v.global_frame
    BY <1>1, <1>4 DEF Filled
  <2> HIDE DEF owed
  <2>4. Holds(ticked, owed)
    BY <1>5, <2>1, <2>2, <2>3 DEF Holds
  <2> QED
    BY <1>5, <1>8, <2>4, UnchangedHolds DEF Ready
<1>10. ~MapCollision(owed[frame], fb.bundle)
  <2>1. frame \notin skipped
    BY DEF Skipped
  <2> HIDE DEF skipped
  <2>2. owed[frame] = got[frame]
    BY <1>1, <2>1
  <2> QED
    BY <2>2
<1> HIDE DEF owed
<1>11. ~stored.panicked
  BY <1>1, <1>8, <1>9, <1>10, StoreRuns
<1>12. /\ Ready(stored, all) /\ stored.first = v.first
       /\ stored.bootstrap_frames = v.bootstrap_frames
  BY <1>1, <1>8, <1>11, StoreReady
<1>13. stored.local_frame = frame /\ DOMAIN stored = UpdaterFields
  BY <1>8, StoreKeeps DEF Ready, Shape
<1> HIDE DEF stored
<1>14. Steady(advanced, all) /\ Extends(stored, advanced, all)
  BY <1>12, AdvanceExtends
<1>15. advanced.local_frame = frame
  BY <1>13, advanceKeeps
<1> HIDE DEF advanced
<1>16. advanced.first <= frame /\ v.first <= advanced.first /\ advanced.first \in Nat
  <2>1. Extends(v, advanced, all)
    BY <1>12, <1>14 DEF Extends
  <2> QED
    BY <1>14, <2>1 DEF Extends, Steady, Ready, Shape
<1>17. InWindow(advanced, advanced.local_frame) /\ ~advanced.panicked
  BY <1>1, <1>14, <1>15, <1>16, MaxFramesAssumption DEF InWindow, Window, Steady, Ready
<1>18. ~fulfillFastRequests(advanced).panicked
  BY <1>14, <1>17 DEF fulfillFastRequests, Steady, Ready, Shape, UpdaterFields
<1>19. CASE Discards(v, frame)
  BY <1>1, <1>19 DEF HandleLocal
<1>20. CASE ~Discards(v, frame)
  <2>1. HandleLocal(v, fb) = fulfillFastRequests(advanced)
    BY <1>3, <1>20 DEF HandleLocal, filled, ticked, ready, stored, advanced
  <2> QED
    BY <1>18, <2>1
<1> QED
  BY <1>19, <1>20

(* Once an engine has joined, no frame is final without its bundle.        *)
LEMMA SelfAwaited ==
  ASSUME NEW log, NEW first \in Nat, BaseFrame <= first, first <= MaxFrame,
         NEW all, HostRules(all), log[BaseFrame].info = Founders,
         \A f \in BaseFrame + 1 .. first : Settled(log, f, all[f]),
         NEW joined \in Nat,
         Self \in Founders \/ (joined \in Frames /\ Places(all[joined], EngineJoined(Self)) # {})
  PROVE  \A f \in Frames : joined <= f /\ f <= first => Self \in DOMAIN all[f]
<1> DEFINE Known(f) == Self \in Founders \/ joined <= f
           S == {n \in Nat : BaseFrame + n <= first /\ Known(BaseFrame + n)
                                => Self \in log[BaseFrame + n].info}
<1>0. /\ BaseFrame \in Nat /\ MaxFrame \in Nat /\ Frames = BaseFrame + 1 .. MaxFrame
      /\ Self \in EngineId
  BY Constants DEF Frames
<1>1. ASSUME NEW f \in BaseFrame + 1 .. first,
             Self \in log[f - 1].info \/ Places(all[f], EngineJoined(Self)) # {}
      PROVE  Self \in log[f].info /\ Self \in DOMAIN all[f]
  <2> DEFINE engines == ApplyEngineEvents(log[f - 1].info, all[f])
  <2>1. f \in Frames
    BY <1>0
  <2>2. Places(all[f], EngineDropped(Self)) = {}
    BY <2>1, HostNotDropped DEF SubBundle
  <2>3. Self \in engines
    BY <1>0, <1>1, <2>2 DEF ApplyEngineEvents
  <2>4. log[f].info = engines /\ engines \subseteq DOMAIN all[f]
    <3>1. /\ log[f] = [info |-> engines, game |-> ApplyAndThink(log[f - 1].game, engines, all[f])]
          /\ engines \subseteq DOMAIN all[f]
      BY DEF Settled
    <3> HIDE DEF engines
    <3> QED
      BY <3>1
  <2> HIDE DEF engines
  <2> QED
    BY <2>3, <2>4
<1>2. 0 \in S
  <2> SUFFICES ASSUME Known(BaseFrame) PROVE Self \in log[BaseFrame].info
    BY <1>0
  <2>1. Self \in Founders
    BY <1>0
  <2> QED
    BY <2>1
<1>3. ASSUME NEW n \in Nat, n \in S PROVE n + 1 \in S
  <2> DEFINE f == BaseFrame + (n + 1)
  <2> SUFFICES ASSUME f <= first, Known(f) PROVE Self \in log[f].info
    OBVIOUS
  <2>1. f \in BaseFrame + 1 .. first /\ f - 1 = BaseFrame + n
    BY <1>0
  <2>2. CASE Known(BaseFrame + n)
    <3>1. Self \in log[f - 1].info
      BY <1>0, <1>3, <2>1, <2>2
    <3> HIDE DEF f
    <3> QED
      BY <1>1, <2>1, <3>1
  <2>3. CASE ~Known(BaseFrame + n)
    <3>1. joined = f /\ Places(all[joined], EngineJoined(Self)) # {}
      BY <1>0, <2>3
    <3> HIDE DEF f
    <3> QED
      BY <1>1, <2>1, <3>1
  <2> QED
    BY <2>2, <2>3
<1>4. Nat \subseteq S
  <2> HIDE DEF S
  <2> QED
    BY <1>2, <1>3, SetInduction
<1>5. ASSUME NEW f \in Frames, joined <= f, f <= first PROVE Self \in DOMAIN all[f]
  <2>1. f \in BaseFrame + 1 .. first
    BY <1>0, <1>5
  <2>2. CASE Known(f - 1)
    <3>1. f - 1 - BaseFrame \in S /\ BaseFrame + (f - 1 - BaseFrame) = f - 1
      <4>1. f - 1 - BaseFrame \in Nat /\ BaseFrame + (f - 1 - BaseFrame) = f - 1
        BY <1>0, <2>1
      <4> HIDE DEF S
      <4> QED
        BY <1>4, <4>1
    <3>2. Self \in log[f - 1].info
      BY <2>1, <2>2, <3>1
    <3> QED
      BY <1>1, <2>1, <3>2
  <2>3. CASE ~Known(f - 1)
    <3>1. joined = f /\ Places(all[joined], EngineJoined(Self)) # {}
      BY <1>0, <1>5, <2>3
    <3> QED
      BY <1>1, <2>1, <3>1
  <2> QED
    BY <2>2, <2>3
<1> QED
  BY <1>5

(* A session that keeps pace: nobody is further ahead than the window is   *)
(* long, a host's clock starts after its first frame, and nobody asks a    *)
(* client that has not joined for its newest state.                        *)
InPace ==
  /\ Punctual /\ MaxLead <= Max_frames
  /\ ~Bootstrapped => FirstTick > BaseFrame
  /\ Bootstrapped => AskedFrames \subseteq Nat

(* The last frame this engine has sent, which holds back the window.       *)
LocalInv ==
  /\ MemberAt(Self, u.local_frame)
  /\ u.local_frame < clock /\ u.first <= u.local_frame /\ u.local_frame <= u.first + MaxLead
  /\ \A f \in Frames : f > u.local_frame => Self \notin DOMAIN issued[f]

PaceInv ==
  /\ ~u.panicked
  /\ \A f \in Frames : DOMAIN issued[f] # {} => f <= u.first + MaxLead
  /\ u.local_frame \in Nat
  /\ u.skip_to_frame = 0 => LocalInv
  /\ u.skip_to_frame \notin {0, -1} =>
       u.skip_to_frame \in Carry(EngineJoined(Self)) /\ u.first < u.skip_to_frame

LEMMA MorePlaces ==
  ASSUME NEW fb, NEW all, SubBundle(fb, all), NEW e, Places(fb, e) # {}
  PROVE  Places(all, e) # {}
<1>1. PICK p \in Places(fb, e) : TRUE
  OBVIOUS
<1>2. PICK id \in DOMAIN fb : p \in {id} \X DOMAIN fb[id].engine
  BY <1>1 DEF Places
<1>3. p[1] = id /\ fb[p[1]].engine[p[2]] = e
  BY <1>1, <1>2 DEF Places
<1>4. id \in DOMAIN all /\ all[id] = fb[id]
  BY DEF SubBundle
<1>5. p \in Places(all, e)
  BY <1>2, <1>3, <1>4 DEF Places
<1> QED
  BY <1>5

(* Whoever is a member stays one.                                          *)
LEMMA StaysMember ==
  ASSUME Grows
  PROVE  /\ \A f \in Carry(EngineJoined(Self)) : f \in Carry(EngineJoined(Self))'
         /\ \A f, g \in Nat : MemberAt(Self, f) /\ f <= g => MemberAt(Self, g)'
<1>1. ASSUME NEW f \in Carry(EngineJoined(Self)) PROVE f \in Carry(EngineJoined(Self))'
  <2>1. f \in Frames /\ Places(issued[f], EngineJoined(Self)) # {}
    BY DEF Carry
  <2>2. SubBundle(issued[f], issued'[f])
    BY <2>1 DEF Grows
  <2>3. Places(issued'[f], EngineJoined(Self)) # {}
    BY <2>1, <2>2, MorePlaces
  <2> QED
    BY <2>1, <2>3 DEF Carry
<1>2. ASSUME NEW f \in Nat, NEW g \in Nat, MemberAt(Self, f), f <= g PROVE MemberAt(Self, g)'
  <2>1. CASE Self \in Founders
    BY <2>1 DEF MemberAt
  <2>2. CASE Self \notin Founders
    <3>1. PICK k \in Carry(EngineJoined(Self)) : k <= f
      BY <1>2, <2>2 DEF MemberAt
    <3>2. k \in Nat
      BY Constants DEF Carry, Frames
    <3> QED
      BY <1>1, <1>2, <3>1, <3>2 DEF MemberAt
  <2> QED
    BY <2>1, <2>2
<1> QED
  BY <1>1, <1>2

(* The window does not pass a frame that lacks this engine's bundle.       *)
LEMMA WindowHeldBack ==
  ASSUME NEW log, NEW first \in Nat, BaseFrame <= first, first <= MaxFrame,
         NEW all, HostRules(all), log[BaseFrame].info = Founders,
         \A f \in BaseFrame + 1 .. first : Settled(log, f, all[f]),
         NEW frame \in Nat,
         \/ Self \in Founders
         \/ \E joined \in Frames : joined <= frame /\ Places(all[joined], EngineJoined(Self)) # {},
         \A f \in Frames : f > frame => Self \notin DOMAIN all[f]
  PROVE  /\ BaseFrame <= frame => first <= frame
         /\ frame \in Frames /\ Self \notin DOMAIN all[frame] => first < frame
<1>0. BaseFrame \in Nat /\ MaxFrame \in Nat /\ Frames = BaseFrame + 1 .. MaxFrame
  BY Constants DEF Frames
<1>1. PICK joined \in Nat :
        /\ joined <= frame
        /\ \/ Self \in Founders
           \/ joined \in Frames /\ Places(all[joined], EngineJoined(Self)) # {}
  <2>1. CASE Self \in Founders
    BY <2>1, frame <= frame
  <2>2. CASE Self \notin Founders
    BY <1>0, <2>2
  <2> QED
    BY <2>1, <2>2
<1>2. \A f \in Frames : joined <= f /\ f <= first => Self \in DOMAIN all[f]
  BY <1>1, SelfAwaited
<1>3. ASSUME BaseFrame <= frame, ~(first <= frame) PROVE FALSE
  <2>1. frame + 1 \in Frames /\ joined <= frame + 1 /\ frame + 1 <= first /\ frame + 1 > frame
    BY <1>0, <1>1, <1>3
  <2> QED
    BY <1>2, <2>1
<1>4. ASSUME frame \in Frames, Self \notin DOMAIN all[frame], ~(first < frame) PROVE FALSE
  <2>1. frame <= first
    BY <1>4
  <2> QED
    BY <1>1, <1>2, <1>4, <2>1
<1> QED
  BY <1>3, <1>4

LEMMA PaceIssue ==
  ASSUME IInv, Onwards, PaceInv, NEW id \in Peers, Issue(id)
  PROVE  PaceInv'
<1>1. PICK frame \in Frames, events \in MayIssue(id) :
        /\ NextToIssue(id, frame)
        /\ issued' = [issued EXCEPT ![frame] = Absorb(@, Only(id, events))]
        /\ UNCHANGED <<u, clock>>
  BY DEF Issue
<1>2. id # Self /\ frame <= u.first + MaxLead /\ DOMAIN issued = BaseFrame .. MaxFrame
      /\ Frames \subseteq BaseFrame .. MaxFrame
  BY <1>1, Constants DEF Peers, NextToIssue, IInv, SessionInv, Frames
<1>3. \A f \in Frames : /\ f # frame => issued'[f] = issued[f]
                        /\ DOMAIN issued'[f] \subseteq DOMAIN issued[f] \cup {id}
  BY <1>1, <1>2 DEF Absorb, Only
<1>4. \A f \in Frames : DOMAIN issued'[f] # {} => f <= u'.first + MaxLead
  BY <1>1, <1>2, <1>3 DEF PaceInv
<1>5. \A f \in Frames : Self \notin DOMAIN issued[f] => Self \notin DOMAIN issued'[f]
  BY <1>2, <1>3
<1>6. u.skip_to_frame = 0 => LocalInv'
  BY <1>1, <1>5, StaysMember DEF PaceInv, LocalInv, Onwards
<1> QED
  BY <1>1, <1>4, <1>6, StaysMember DEF PaceInv, Onwards

LEMMA PaceRequest ==
  ASSUME InPace, IInv, WindowInv, PaceInv, NEW c \in Callers,
         RequestFinalGameState(c) \/ RequestFastGameState(c)
  PROVE  PaceInv'
<1>1. PICK frame \in AskedFrames :
        \/ u' = RequestFinal(u, [caller |-> c, frame |-> frame])
        \/ u' = RequestFast(u, [caller |-> c, frame |-> frame])
  BY DEF RequestFinalGameState, RequestFastGameState
<1>2. UNCHANGED <<clock, issued>> /\ ~u.panicked /\ DOMAIN u = UpdaterFields
  BY DEF RequestFinalGameState, RequestFastGameState, IInv, SentInv
<1>3. ASSUME frame < 0 PROVE InWindow(u, u.local_frame)
  <2>1. frame \notin Nat
    BY <1>3
  <2>2. ~Bootstrapped
    BY <2>1 DEF InPace
  <2>3. u.skip_to_frame = 0
    BY <1>2, <2>2 DEF WindowInv, JoinInv
  <2>4. u.local_frame \in Nat /\ u.first <= u.local_frame /\ u.local_frame <= u.first + MaxLead
    BY <2>3 DEF PaceInv, LocalInv
  <2>5. u.first \in Nat /\ MaxLead \in Nat /\ MaxLead <= Max_frames /\ Max_frames \in Nat
    BY ConfigAssumption, MaxFramesAssumption DEF InPace, IInv, SentInv
  <2> QED
    BY <2>4, <2>5 DEF InWindow, Window
<1>4. \/ u' = u
      \/ \E requests : u' = [u EXCEPT !.final_requests = requests]
      \/ \E requests : u' = [u EXCEPT !.fast_requests = requests]
  BY <1>1, <1>3 DEF RequestFinal, RequestFast
<1>5. /\ u'.first = u.first /\ u'.local_frame = u.local_frame /\ u'.panicked = u.panicked
      /\ u'.skip_to_frame = u.skip_to_frame
  BY <1>2, <1>4 DEF UpdaterFields
<1> QED
  BY <1>2, <1>5 DEF PaceInv, LocalInv, MemberAt, Carry

(* A local bundle is for a frame this engine is a member at, and after the *)
(* start of the window.                                                    *)
LEMMA TicksAsMember ==
  ASSUME IInv, PaceInv, ~Discards(u, clock)
  PROVE  MemberAt(Self, clock) /\ u.first < clock /\ (u.skip_to_frame # 0 => u.first < u.skip_to_frame)
<1>1. /\ clock \in Nat /\ u.first \in Nat /\ u.local_frame \in Nat /\ u.skip_to_frame \in Int
  BY DEF IInv, OwnInv, SentInv, RunInv, PaceInv, Steady, Ready, Shape
<1>2. CASE u.skip_to_frame = 0
  <2>1. MemberAt(Self, u.local_frame) /\ u.local_frame < clock /\ u.first <= u.local_frame
    BY <1>2 DEF PaceInv, LocalInv
  <2>2. \A f \in Frames : f \in Nat
    BY Constants DEF Frames
  <2>3. MemberAt(Self, clock)
    BY <1>1, <2>1, <2>2 DEF MemberAt, Carry
  <2> QED
    BY <1>1, <1>2, <2>1, <2>3
<1>3. CASE u.skip_to_frame # 0
  <2>1. u.skip_to_frame # -1 /\ u.skip_to_frame <= clock
    BY <1>1 DEF Discards
  <2>2. u.skip_to_frame \in Carry(EngineJoined(Self)) /\ u.first < u.skip_to_frame
    BY <1>3, <2>1 DEF PaceInv
  <2> QED
    BY <1>1, <2>1, <2>2 DEF MemberAt
<1> QED
  BY <1>2, <1>3

(* The window does not pass the frame of the bundle that is being handled. *)
LEMMA NoFurther ==
  ASSUME IInv, PaceInv, ~Discards(u, clock), NEW events, NEW sent, NEW more,
         Sends(sent, more), SentLocally(events, sent, more),
         NEW w, Steady(w, more), Extends(u, w, more)
  PROVE  w.first <= clock
<1>0. /\ clock \in Nat /\ u.first \in Nat /\ u.skip_to_frame \in Int
      /\ BaseFrame <= u.first /\ w.first \in Nat /\ w.first <= MaxFrame /\ u.first <= w.first
      /\ BaseFrame \in Nat /\ MaxFrame \in Nat /\ Frames = BaseFrame + 1 .. MaxFrame
      /\ DOMAIN issued = BaseFrame .. MaxFrame
  BY Constants DEF IInv, OwnInv, SentInv, RunInv, PaceInv, SessionInv, Steady, Ready, Shape, Extends,
                   Frames
<1>1. MemberAt(Self, clock) /\ u.first < clock /\ (u.skip_to_frame # 0 => u.first < u.skip_to_frame)
  BY TicksAsMember
<1>2. \A f \in Frames : SubBundle(issued[f], more[f])
  BY DEF SentLocally
<1>3. \A f \in Frames : f \in DOMAIN sent => u.first < f /\ f <= clock
  <2>1. \A f \in Skipped(u, clock) : f <= clock /\ u.skip_to_frame # 0 /\ f >= u.skip_to_frame
    BY <1>0 DEF Skipped
  <2> QED
    BY <1>0, <1>1, <2>1 DEF SentLocally
<1>4. \A f \in Frames : f \notin DOMAIN sent => more[f] = issued[f]
  BY <1>0 DEF Sends
<1>5. \A f \in BaseFrame + 1 .. w.first : Settled(w.bootstrap_frames, f, more[f])
  <2> SUFFICES ASSUME NEW f \in BaseFrame + 1 .. w.first
               PROVE  Settled(w.bootstrap_frames, f, more[f])
    OBVIOUS
  <2>1. CASE f > u.first
    BY <1>0, <2>1 DEF Extends
  <2>2. CASE f <= u.first
    <3>1. f \in BaseFrame + 1 .. u.first /\ f \in BaseFrame .. u.first /\ f - 1 \in BaseFrame .. u.first
      BY <1>0, <2>2
    <3>2. w.bootstrap_frames[f] = u.bootstrap_frames[f]
          /\ w.bootstrap_frames[f - 1] = u.bootstrap_frames[f - 1]
      BY <3>1 DEF Extends
    <3>3. Settled(u.bootstrap_frames, f, issued[f])
      BY <3>1 DEF IInv, SentInv
    <3>4. more[f] = issued[f]
      BY <1>0, <1>3, <1>4, <2>2
    <3> QED
      BY <3>2, <3>3, <3>4 DEF Settled
  <2> QED
    BY <1>0, <2>1, <2>2
<1>6. w.bootstrap_frames[BaseFrame].info = Founders
  BY <1>0 DEF Extends, IInv, SentInv
<1>7. \/ Self \in Founders
      \/ \E joined \in Frames : joined <= clock /\ Places(more[joined], EngineJoined(Self)) # {}
  <2> SUFFICES ASSUME Self \notin Founders
               PROVE  \E joined \in Frames :
                        joined <= clock /\ Places(more[joined], EngineJoined(Self)) # {}
    OBVIOUS
  <2>1. PICK k \in Carry(EngineJoined(Self)) : k <= clock
    BY <1>1 DEF MemberAt
  <2>2. k \in Frames /\ Places(issued[k], EngineJoined(Self)) # {}
    BY DEF Carry
  <2>3. Places(more[k], EngineJoined(Self)) # {}
    BY <1>2, <2>2, MorePlaces
  <2> QED
    BY <2>1, <2>2, <2>3
<1>8. \A f \in Frames : f > clock => Self \notin DOMAIN more[f]
  <2> SUFFICES ASSUME NEW f \in Frames, f > clock PROVE Self \notin DOMAIN more[f]
    OBVIOUS
  <2>1. more[f] = issued[f] /\ f >= clock
    BY <1>0, <1>3, <1>4
  <2> QED
    BY <2>1 DEF IInv, OwnInv
<1>9. HostRules(more) /\ BaseFrame <= w.first /\ BaseFrame <= clock
  BY <1>0, <1>1 DEF SentLocally
<1> QED
  BY <1>0, <1>5, <1>6, <1>7, <1>8, <1>9, WindowHeldBack

LEMMA PaceLocal ==
  ASSUME InPace, IInv, WindowInv, IInv', Onwards, PaceInv, LocalBundle
  PROVE  PaceInv'
<1> DEFINE fb(e) == [frame |-> clock, bundle |-> Only(Self, e)]
<1>1. PICK events \in IF Discards(u, clock) THEN {NoEvents} ELSE MayIssue(Self) :
        LET sent == Broadcast(u, fb(events))
            next == HandleLocal(u, fb(events))
        IN  /\ u' = Result(next)
            /\ clock' = clock + 1
            /\ issued' = IF next.panicked THEN issued
                         ELSE [f \in DOMAIN issued |->
                                 IF f \in DOMAIN sent THEN Absorb(issued[f], sent[f])
                                 ELSE issued[f]]
  BY DEF LocalBundle
<1> DEFINE bundle == fb(events)
           sent == Broadcast(u, bundle)
           next == HandleLocal(u, bundle)
           more == [f \in DOMAIN issued |->
                      IF f \in DOMAIN sent THEN Absorb(issued[f], sent[f]) ELSE issued[f]]
<1>2. /\ ~u.panicked /\ clock <= MaxFrame /\ clock <= u.first + MaxLead /\ Steady(u, issued)
      /\ OwnInv /\ clock \in Nat /\ u.first \in Nat /\ u.skip_to_frame \in Int
      /\ MaxLead \in Nat /\ MaxLead <= Max_frames /\ u'.first \in Nat /\ u.first <= u'.first
      /\ DOMAIN issued = BaseFrame .. MaxFrame /\ Frames = BaseFrame + 1 .. MaxFrame
      /\ BaseFrame \in Nat /\ MaxFrame \in Nat
  BY Constants, ConfigAssumption
     DEF LocalBundle, MayTick, IInv, RunInv, OwnInv, SentInv, SessionInv, Steady, Ready, Shape,
         InPace, Onwards, Frames
<1>3. bundle.frame = clock /\ bundle.bundle = Only(Self, events)
  OBVIOUS
<1>4. CASE Discards(u, clock)
  <2>1. next = u /\ DOMAIN sent = {}
    BY <1>4 DEF HandleLocal, Broadcast
  <2>2. u' = u /\ \A f \in Frames : issued'[f] = issued[f]
    BY <1>1, <1>2, <2>1 DEF Result
  <2>3. u.skip_to_frame # 0
    BY <1>2, <1>4 DEF Discards
  <2> HIDE DEF bundle, sent, next
  <2> QED
    BY <2>2, <2>3, StaysMember DEF PaceInv, Onwards
<1>5. CASE ~Discards(u, clock)
  <2>1. events \in MayIssue(Self)
    BY <1>5
  <2>2. Sends(sent, more)
    BY DEF Sends
  <2>3. sent = Broadcast(u, [frame |-> clock, bundle |-> Only(Self, events)])
    OBVIOUS
  <2> HIDE DEF bundle, sent, next, more
  <2>4. SentLocally(events, sent, more)
    BY <1>2, <1>5, <2>1, <2>2, <2>3, LocalSends
  <2>5. /\ MemberAt(Self, clock) /\ u.first < clock
        /\ u.skip_to_frame # 0 => u.first < u.skip_to_frame
    BY <1>5, TicksAsMember
  <2>6. \A w : Steady(w, more) /\ Extends(u, w, more) => w.first <= clock
    BY <1>5, <2>2, <2>4, NoFurther
  <2>7. Skipped(u, clock) \subseteq u.first + 1 .. u.global_frame
    <3>1. u.global_frame \in Nat
      BY <1>2 DEF Steady, Ready, Shape
    <3>2. u.skip_to_frame # 0 => clock <= u.global_frame + 1
      BY <1>2 DEF WindowInv, JoinInv
    <3> QED
      BY <1>2, <2>5, <3>1, <3>2 DEF Skipped
  <2>8. \A f \in Frames : Got[f] = ReceivedBundle(f) /\ DOMAIN Got[f] \subseteq DOMAIN issued[f]
    BY DEF Got, ReceivedBundle, Received
  <2>9. \A f \in Skipped(u, clock) : Self \notin DOMAIN Got[f]
    <3> SUFFICES ASSUME NEW f \in Skipped(u, clock) PROVE Self \notin DOMAIN Got[f]
      OBVIOUS
    <3>1. u.skip_to_frame # 0
      BY <1>2 DEF Skipped
    <3>2. f \in Frames
      <4>1. u.global_frame \in Nat /\ u.global_frame <= MaxFrame /\ BaseFrame <= u.first
        BY <1>2 DEF Steady, Ready, Shape
      <4> QED
        BY <1>2, <2>7, <4>1
    <3> QED
      BY <1>2, <2>8, <3>1, <3>2 DEF OwnInv
  <2>10. clock \in Frames /\ ~MapCollision(Got[clock], bundle.bundle)
    <3>1. clock \in Frames
      BY <1>2, <2>5 DEF Steady, Ready, Shape
    <3>2. Self \notin DOMAIN Got[clock]
      BY <1>2, <2>8, <3>1 DEF OwnInv
    <3> QED
      BY <1>3, <3>1, <3>2 DEF MapCollision, Only
  <2>11. ~next.panicked
    <3>1. Steady(u, more) /\ HostRules(more)
      BY <2>4 DEF SentLocally
    <3>2. \A f \in Skipped(u, clock) \cap Frames : SubBundle(Only(Self, NoEvents), more[f])
      BY <2>4 DEF SentLocally
    <3>3. bundle.frame \in Frames => SubBundle(bundle.bundle, more[bundle.frame])
      BY <1>3, <2>4 DEF SentLocally
    <3>4. Holds(u, Got)
      BY <1>2 DEF WindowInv
    <3>5. bundle.frame <= u.first + Max_frames
      BY <1>2, <1>3, MaxFramesAssumption
    <3> QED
      BY <1>2, <1>3, <2>5, <2>6, <2>7, <2>9, <2>10, <3>1, <3>2, <3>3, <3>4, <3>5, HandleLocalRuns
         DEF next
  <2>12. u' = next /\ issued' = more /\ clock' = clock + 1
    BY <1>1, <2>11 DEF Result, next, more, sent, bundle
  <2>13. /\ Steady(next, more) /\ Extends(u, next, more) /\ next.skip_to_frame = 0
    <3>1. Steady(u, more) /\ HostRules(more)
      BY <2>4 DEF SentLocally
    <3>2. \A f \in Skipped(u, clock) \cap Frames : SubBundle(Only(Self, NoEvents), more[f])
      BY <2>4 DEF SentLocally
    <3>3. bundle.frame \in Frames => SubBundle(bundle.bundle, more[bundle.frame])
      BY <1>3, <2>4 DEF SentLocally
    <3> QED
      BY <1>2, <1>3, <1>5, <2>11, <3>1, <3>2, <3>3, HandleLocalExtends DEF next
  <2>14. next.local_frame = clock
    BY <1>2, <1>3, <1>5, <2>11, HandleLocalTicks DEF next
  <2>15. next.first <= clock
    BY <2>6, <2>13
  <2>16. Self \in Founders \/ \E f \in Carry(EngineJoined(Self))' : f <= clock
    BY <2>5, StaysMember DEF Onwards, MemberAt
  <2>17. \A f \in Frames : DOMAIN more[f] # {} => f <= u.first + MaxLead
    <3> SUFFICES ASSUME NEW f \in Frames, DOMAIN more[f] # {} PROVE f <= u.first + MaxLead
      OBVIOUS
    <3>1. CASE f \in DOMAIN sent
      <4>1. f <= clock
        BY <1>2, <2>4, <3>1 DEF SentLocally, Skipped
      <4> QED
        BY <1>2, <4>1
    <3>2. CASE f \notin DOMAIN sent
      <4>1. more[f] = issued[f]
        BY <1>2, <2>2, <3>2 DEF Sends
      <4> QED
        BY <4>1 DEF PaceInv
    <3> QED
      BY <3>1, <3>2
  <2>18. LocalInv'
    <3>1. u'.local_frame = clock /\ u'.first <= clock /\ clock < clock' /\ clock <= u'.first + MaxLead
      BY <1>2, <2>12, <2>14, <2>15
    <3>2. MemberAt(Self, u.local_frame)'
      BY <2>16, <3>1 DEF MemberAt
    <3>3. \A f \in Frames : f > clock => Self \notin DOMAIN issued'[f]
      BY <1>2, <2>12 DEF IInv, OwnInv
    <3> QED
      BY <3>1, <3>2, <3>3 DEF LocalInv
  <2> QED
    BY <1>2, <2>11, <2>12, <2>13, <2>14, <2>17, <2>18 DEF PaceInv
<1> QED
  BY <1>4, <1>5

LEMMA PaceRemote ==
  ASSUME InPace, IInv, WindowInv, IInv', Onwards, PaceInv, RemoteBundles
  PROVE  PaceInv'
<1> DEFINE given(group) == [i \in DOMAIN group |-> Bundle(group[i])]
<1>1. PICK group \in Groups : u' = Result(HandleRemote(u, given(group)))
  BY DEF RemoteBundles
<1> DEFINE bundles == given(group)
           next == HandleRemote(u, bundles)
<1>2. /\ UNCHANGED <<clock, issued>> /\ ~u.panicked /\ SessionInv /\ Steady(u, issued)
      /\ HostRules(issued) /\ Holds(u, Got) /\ u.first \in Nat /\ u'.first \in Nat
      /\ u.first <= u'.first /\ BaseFrame <= u.first /\ u.id = Self
      /\ MaxLead \in Nat /\ MaxLead <= Max_frames /\ BaseFrame \in Nat /\ MaxFrame \in Nat
      /\ Frames = BaseFrame + 1 .. MaxFrame
  BY Constants, ConfigAssumption
     DEF RemoteBundles, IInv, RunInv, SessionInv, SentInv, WindowInv, Steady, Ready, Shape,
         InPace, Onwards, Frames
<1>3. bundles = [i \in DOMAIN group |-> Bundle(group[i])]
  OBVIOUS
<1> HIDE DEF bundles
<1>4. PICK n \in Nat :
        /\ DOMAIN group = 1 .. n /\ Len(bundles) = n
        /\ \A i \in 1 .. n : /\ group[i] \in inflight /\ bundles[i] = Bundle(group[i])
                            /\ FromSession(bundles[i], issued)
        /\ \A i, k \in 1 .. n : group[i] = group[k] => i = k
  BY <1>2, <1>3, GroupGiven
<1> DEFINE gots == [i \in 0 .. n |-> GotAfter(group, i)]
<1>5. Gathered(u, gots, bundles, n)
  <2> HIDE DEF gots
  <2> QED
    BY <1>2, <1>4, GroupGathered DEF gots
<1>6. ASSUME NEW i \in 1 .. n
      PROVE  /\ bundles[i].frame > u.first => bundles[i].frame <= u.first + Max_frames
             /\ bundles[i].frame \in Frames =>
                  ~MapCollision(gots[i - 1][bundles[i].frame], bundles[i].bundle)
  <2> DEFINE p == group[i]
  <2>1. /\ p = <<p[1], p[2]>> /\ p \in inflight /\ bundles[i].frame = p[2]
        /\ DOMAIN bundles[i].bundle = {p[1]}
        /\ p[2] \in BaseFrame .. MaxFrame /\ p[1] \in DOMAIN issued[p[2]]
    <3>1. p \in inflight /\ bundles[i] = Bundle(p)
      BY <1>4
    <3>2. /\ Bundle(p).frame = p[2] /\ Bundle(p).bundle = Only(p[1], issued[p[2]][p[1]])
          /\ DOMAIN Only(p[1], issued[p[2]][p[1]]) = {p[1]}
      BY DEF Bundle, Only
    <3> HIDE DEF p
    <3> QED
      BY <1>2, <3>1, <3>2 DEF SessionInv
  <2>2. ASSUME bundles[i].frame > u.first PROVE bundles[i].frame <= u.first + Max_frames
    <3>1. p[2] \in Frames
      BY <1>2, <2>1, <2>2
    <3>2. p[2] <= u.first + MaxLead
      BY <2>1, <3>1 DEF PaceInv
    <3>3. p[2] \in Nat /\ Max_frames \in Nat
      BY <1>2, <3>1, MaxFramesAssumption
    <3> HIDE DEF p
    <3> QED
      BY <1>2, <2>1, <3>2, <3>3
  <2>3. ASSUME bundles[i].frame \in Frames
        PROVE  ~MapCollision(gots[i - 1][bundles[i].frame], bundles[i].bundle)
    <3>1. p \in Transit(group, i - 1)
      BY <1>4, <2>1 DEF Transit
    <3>2. gots[i - 1] = GotAfter(group, i - 1)
      OBVIOUS
    <3> HIDE DEF p, gots
    <3>3. p[1] \notin DOMAIN gots[i - 1][p[2]]
      <4>1. <<p[1], p[2]>> \in Transit(group, i - 1)
        BY <2>1, <3>1
      <4> QED
        BY <2>1, <2>3, <3>2, <4>1 DEF GotAfter
    <3> QED
      BY <2>1, <3>3 DEF MapCollision
  <2> QED
    BY <2>2, <2>3
<1>7. ~next.panicked
  <2> HIDE DEF gots
  <2> QED
    BY <1>2, <1>4, <1>5, <1>6, HandleRemoteRuns
<1>8. u' = next
  BY <1>1, <1>7 DEF Result, bundles
<1>9. next.local_frame = u.local_frame /\ Noticed(u, next, bundles) /\ SkipRule(u, next)
  BY <1>2, <1>4, <1>7, HandleRemoteNotices, HandleRemoteExtends
<1> HIDE DEF next, gots
<1>10. \A f \in Frames : DOMAIN issued'[f] # {} => f <= u'.first + MaxLead
  BY <1>2 DEF PaceInv
<1>11. /\ HostRules(issued) /\ u'.bootstrap_frames[BaseFrame].info = Founders
       /\ \A f \in BaseFrame + 1 .. u'.first : Settled(u'.bootstrap_frames, f, issued[f])
       /\ BaseFrame <= u'.first /\ u'.first <= MaxFrame
  BY <1>2 DEF IInv, SentInv
<1>12. ASSUME u'.skip_to_frame = 0 PROVE LocalInv'
  <2>1. u.skip_to_frame = 0
    BY <1>2, <1>4, <1>8, <1>9, <1>12 DEF Noticed, FromSession
  <2>2. LocalInv /\ u.local_frame \in Nat
    BY <2>1 DEF PaceInv
  <2>3. u'.local_frame = u.local_frame
    BY <1>8, <1>9
  <2>4. u'.first <= u.local_frame
    <3>1. \/ Self \in Founders
          \/ \E joined \in Frames :
               joined <= u.local_frame /\ Places(issued[joined], EngineJoined(Self)) # {}
      BY <2>2 DEF LocalInv, MemberAt, Carry
    <3>2. BaseFrame <= u.local_frame
      BY <1>2, <2>2 DEF LocalInv
    <3> QED
      BY <1>2, <1>11, <2>2, <3>1, <3>2, WindowHeldBack DEF LocalInv
  <2>5. u.local_frame <= u'.first + MaxLead
    BY <1>2, <2>2 DEF LocalInv
  <2> QED
    BY <1>2, <2>2, <2>3, <2>4, <2>5 DEF LocalInv, MemberAt, Carry
<1>13. ASSUME u'.skip_to_frame \notin {0, -1}
       PROVE  u'.skip_to_frame \in Carry(EngineJoined(Self)) /\ u'.first < u'.skip_to_frame
  <2> DEFINE skip == u'.skip_to_frame
  <2>1. skip \in Carry(EngineJoined(Self))
    <3>1. CASE skip = u.skip_to_frame
      BY <1>13, <3>1 DEF PaceInv
    <3>2. CASE skip # u.skip_to_frame
      <4>1. PICK i \in 1 .. n : /\ u.first < bundles[i].frame /\ skip = bundles[i].frame
                                /\ Places(bundles[i].bundle, EngineJoined(Self)) # {}
        BY <1>2, <1>4, <1>8, <1>9, <3>2 DEF Noticed
      <4>2. skip \in Frames /\ SubBundle(bundles[i].bundle, issued[skip])
        BY <1>2, <1>4, <4>1 DEF FromSession
      <4> HIDE DEF skip
      <4>3. Places(issued[skip], EngineJoined(Self)) # {}
        BY <4>1, <4>2, MorePlaces
      <4> QED
        BY <4>2, <4>3 DEF Carry
    <3> QED
      BY <3>1, <3>2
  <2>2. \A f \in Frames : Self \notin DOMAIN issued[f]
    BY <1>2, <1>7, <1>8, <1>13 DEF IInv, OwnInv
  <2> HIDE DEF skip
  <2>3. skip \in Frames /\ skip \in Nat /\ Places(issued[skip], EngineJoined(Self)) # {} /\ skip <= skip
    BY <1>2, <2>1 DEF Carry
  <2>4. u'.first < skip
    BY <1>2, <1>11, <2>2, <2>3, WindowHeldBack
  <2> QED
    BY <2>1, <2>4 DEF skip
<1>14. \A e : Carry(e)' = Carry(e)
  BY <1>2 DEF Carry
<1> QED
  BY <1>7, <1>8, <1>9, <1>10, <1>12, <1>13, <1>14 DEF PaceInv

LEMMA PaceInit ==
  ASSUME InPace, Init
  PROVE  PaceInv
<1>1. /\ BaseFrame \in Nat /\ MaxLead \in Nat /\ FirstTick \in Nat /\ MaxFrame \in Nat
      /\ BaseFrame \in Window(BaseFrame) /\ Frames = BaseFrame + 1 .. MaxFrame
  BY ConfigAssumption, MaxFramesAssumption DEF Window, Frames
<1>2. \A f \in Frames : DOMAIN issued[f] = {}
  BY <1>1 DEF Init, EmptyBundle
<1>3. CASE Bootstrapped
  <2>1. u.skip_to_frame = -1 /\ u.local_frame = BaseFrame + 1 /\ ~u.panicked
    BY <1>3 DEF Init, Bootstrap, NewUpdater, BootFrame
  <2> QED
    BY <1>1, <1>2, <2>1 DEF PaceInv
<1>4. CASE ~Bootstrapped
  <2>1. /\ u.skip_to_frame = 0 /\ u.local_frame = BaseFrame /\ u.first = BaseFrame /\ ~u.panicked
        /\ clock = FirstTick
    BY <1>4 DEF Init, Start, NewUpdater
  <2>2. Self \in Founders /\ FirstTick > BaseFrame
    BY <1>4, ConfigAssumption DEF InPace
  <2> QED
    BY <1>1, <1>2, <2>1, <2>2 DEF PaceInv, LocalInv, MemberAt
<1> QED
  BY <1>3, <1>4

LEMMA PaceStep ==
  ASSUME InPace, IInv, WindowInv, PaceInv, [Next]_vars
  PROVE  PaceInv'
<1>1. IInv' /\ Onwards
  BY NextStep
<1>2. CASE UNCHANGED vars
  BY <1>2 DEF vars, PaceInv, LocalInv, MemberAt, Carry
<1>3. CASE Next
  <2>1. ASSUME NEW id \in Peers, Issue(id) PROVE PaceInv'
    BY <1>1, <2>1, PaceIssue
  <2>2. CASE LocalBundle
    BY <1>1, <2>2, PaceLocal
  <2>3. CASE RemoteBundles
    BY <1>1, <2>3, PaceRemote
  <2>4. ASSUME NEW c \in Callers, RequestFinalGameState(c) \/ RequestFastGameState(c) PROVE PaceInv'
    BY <2>4, PaceRequest
  <2>5. CASE Finished
    BY <1>2, <2>5 DEF Finished
  <2> QED
    BY <1>3, <2>1, <2>2, <2>3, <2>4, <2>5 DEF Next
<1> QED
  BY <1>2, <1>3

(* In a session that keeps pace no handler panics: every bundle and every  *)
(* skipped frame finds an initialised slot of the window that has no entry *)
(* of the sender yet, and the window never passes the last frame this      *)
(* engine has sent, nor the frame it joins on.                             *)
THEOREM NeverPanics ==
  ASSUME InPace
  PROVE  Spec => []NoPanic
<1>1. Punctual
  BY DEF InPace
<1>2. Init => IInv /\ WindowInv /\ PaceInv
  BY <1>1, InitInv, PaceInit
<1>3. (IInv /\ WindowInv /\ PaceInv) /\ [Next]_vars => (IInv /\ WindowInv /\ PaceInv)'
  BY <1>1, NextStep, PaceStep DEF KeepsWindow
<1>4. PaceInv => NoPanic
  BY DEF PaceInv, NoPanic
<1> QED
  BY <1>2, <1>3, <1>4, PTL DEF Spec

-----------------------------------------------------------------------------
(* The fast states of a host.                                              *)

(* What the two handlers do to the fields that belong to the callers.      *)
LEMMA LocalTaken ==
  ASSUME IInv, ~u'.panicked, LocalBundle, ~Discards(u, clock)
  PROVE  /\ u'.local_frame = clock /\ u'.skip_to_frame = 0 /\ clock' = clock + 1
         /\ u'.fast_requests = Unserved(u.fast_requests, clock)
         /\ calls' = Responses(u') /\ clock <= MaxFrame /\ UNCHANGED inflight
         /\ clock \in Frames => Self \in DOMAIN issued'[clock]
<1> DEFINE fb(e) == [frame |-> clock, bundle |-> Only(Self, e)]
<1>1. PICK events \in MayIssue(Self) :
        LET sent == Broadcast(u, fb(events))
            next == HandleLocal(u, fb(events))
        IN  /\ u' = Result(next)
            /\ clock' = clock + 1
            /\ issued' = IF next.panicked THEN issued
                         ELSE [f \in DOMAIN issued |->
                                 IF f \in DOMAIN sent THEN Absorb(issued[f], sent[f])
                                 ELSE issued[f]]
            /\ calls' = IF next.panicked THEN calls ELSE Responses(next)
  BY DEF LocalBundle
<1> DEFINE bundle == fb(events)
           sent == Broadcast(u, bundle)
           next == HandleLocal(u, bundle)
<1>2. /\ ~u.panicked /\ clock <= MaxFrame /\ UNCHANGED inflight /\ Steady(u, issued)
      /\ DOMAIN u = UpdaterFields /\ DOMAIN issued = BaseFrame .. MaxFrame
      /\ Frames \subseteq BaseFrame .. MaxFrame
  BY Constants DEF LocalBundle, MayTick, IInv, RunInv, SentInv, SessionInv, Frames
<1>3. ~next.panicked
  <2>1. u' = Result(next)
    BY <1>1
  <2> HIDE DEF next
  <2> QED
    BY <1>2, <2>1, PanicKeeps DEF Result
<1>4. /\ u' = next /\ calls' = Responses(next) /\ clock' = clock + 1
      /\ issued' = [f \in DOMAIN issued |->
                      IF f \in DOMAIN sent THEN Absorb(issued[f], sent[f]) ELSE issued[f]]
  BY <1>1, <1>3 DEF Result
<1>5. bundle.frame = clock /\ bundle.bundle = Only(Self, events)
  OBVIOUS
<1>6. clock \in DOMAIN sent /\ sent[clock] = Only(Self, events)
  BY DEF Broadcast
<1> HIDE DEF bundle, sent, next
<1>7. /\ next.local_frame = clock /\ next.skip_to_frame = 0
      /\ next.fast_requests = Unserved(u.fast_requests, clock)
  BY <1>2, <1>3, <1>5, HandleLocalTicks DEF next
<1>8. ASSUME clock \in Frames PROVE Self \in DOMAIN issued'[clock]
  BY <1>2, <1>4, <1>6, <1>8 DEF Absorb, Only
<1> QED
  BY <1>2, <1>4, <1>7, <1>8

LEMMA RemoteTaken ==
  ASSUME IInv, ~u'.panicked, RemoteBundles
  PROVE  /\ u'.local_frame = u.local_frame /\ u'.fast_requests = u.fast_requests
         /\ u.skip_to_frame = 0 => u'.skip_to_frame = 0
         /\ u'.skip_to_frame = u.skip_to_frame \/ u'.skip_to_frame > 0
         /\ calls' = Responses(u') /\ UNCHANGED <<clock, issued>> /\ inflight' \subseteq inflight
<1> DEFINE given(group) == [i \in DOMAIN group |-> Bundle(group[i])]
<1>1. PICK group \in Groups :
        /\ u' = Result(HandleRemote(u, given(group)))
        /\ inflight' = inflight \ {group[i] : i \in DOMAIN group}
        /\ calls' = IF HandleRemote(u, given(group)).panicked THEN calls
                    ELSE Responses(HandleRemote(u, given(group)))
  BY DEF RemoteBundles
<1> DEFINE bundles == given(group)
           next == HandleRemote(u, bundles)
<1>2. /\ ~u.panicked /\ SessionInv /\ Steady(u, issued) /\ HostRules(issued)
      /\ DOMAIN u = UpdaterFields /\ UNCHANGED <<clock, issued>>
  BY DEF RemoteBundles, IInv, RunInv, SentInv, SessionInv
<1>3. bundles = [i \in DOMAIN group |-> Bundle(group[i])]
  OBVIOUS
<1>4. ~next.panicked
  <2>1. u' = Result(next)
    BY <1>1
  <2> HIDE DEF next
  <2> QED
    BY <1>2, <2>1, PanicKeeps DEF Result
<1>5. u' = next /\ calls' = Responses(next)
  BY <1>1, <1>4 DEF Result
<1> HIDE DEF bundles
<1>6. PICK n \in Nat :
        Len(bundles) = n /\ \A i \in 1 .. n : FromSession(bundles[i], issued)
  BY <1>2, <1>3, GroupGiven
<1>7. /\ next.local_frame = u.local_frame /\ next.fast_requests = u.fast_requests
      /\ SkipRule(u, next) /\ Noticed(u, next, bundles)
  BY <1>2, <1>4, <1>6, HandleRemoteNotices, HandleRemoteExtends
<1>8. next.skip_to_frame = u.skip_to_frame \/ next.skip_to_frame > 0
  <2>1. u.first \in Nat
    BY <1>2 DEF Steady, Ready, Shape
  <2> QED
    BY <1>6, <1>7, <2>1 DEF Noticed, FromSession
<1> HIDE DEF next
<1> QED
  BY <1>1, <1>2, <1>5, <1>7, <1>8 DEF SkipRule

(* A host that supplies every frame of the session from the first on.      *)
FromTheStart == InPace /\ ~Bootstrapped /\ FirstTick = BaseFrame + 1

(* A host has sent a bundle for every frame up to its local one, and has   *)
(* them all.                                                               *)
SupplyInv ==
  /\ u.skip_to_frame = 0 /\ clock = u.local_frame + 1 /\ u.local_frame <= MaxFrame
  /\ \A f \in Frames : f <= u.local_frame => Self \in DOMAIN issued[f]
  /\ \A f \in Frames : <<Self, f>> \notin inflight

(* The Game of a frame has had this engine's events of every frame so far. *)
HasLocal(all, game, frame) ==
  /\ game \in Seq({game[i] : i \in DOMAIN game}) /\ Len(game) = frame - BaseFrame
  /\ \A i \in 1 .. Len(game) :
       /\ Self \in DOMAIN game[i]
       /\ game[i][Self] = all[BaseFrame + i][Self].game

GamesHaveLocal ==
  \A f \in u.first .. u.local_frame : HasLocal(issued, u.data[f].game, f)

(* A caller waits for a fast state exactly while its request is queued,    *)
(* and what it is told then has this engine's events.                      *)
AwaitsFast(c) == calls[c].status = "waiting" /\ ~calls[c].final
HadLocal(response) ==
  /\ response.frame \in BaseFrame .. u.local_frame
  /\ HasLocal(issued, response.game, response.frame)
FastQueueInv ==
  /\ \A c \in Callers : AwaitsFast(c) => Asked(u.fast_requests, Request(c))
  /\ \A r : Asked(u.fast_requests, r) =>
       r.caller \in Callers /\ AwaitsFast(r.caller) /\ r = Request(r.caller)
FastTold(c) == calls[c].status = "answered" /\ ~calls[c].final /\ calls[c].response.found
FastInv ==
  /\ DOMAIN calls = Callers /\ u.fast_requests \in Seq(RequestType)
  /\ FastQueueInv
  /\ \A c \in Callers : FastTold(c) => HadLocal(calls[c].response)

LEMMA OwnRange ==
  ASSUME NEW S, NEW s \in Seq(S)
  PROVE  s \in Seq({s[i] : i \in DOMAIN s})
<1>1. Len(s) \in Nat /\ s \in [1 .. Len(s) -> S] /\ DOMAIN s = 1 .. Len(s)
  OBVIOUS
<1>2. s \in [1 .. Len(s) -> {s[i] : i \in DOMAIN s}]
  BY <1>1
<1> QED
  BY <1>1, <1>2

LEMMA AppendsLocal ==
  ASSUME NEW all, NEW game, NEW frame \in Nat, BaseFrame < frame, HasLocal(all, game, frame - 1),
         NEW engines, NEW fb, Self \in engines, Self \in DOMAIN fb, fb[Self] = all[frame][Self]
  PROVE  HasLocal(all, ApplyAndThink(game, engines, fb), frame)
<1> DEFINE think == [id \in DOMAIN fb \cap engines |-> fb[id].game]
           S == {game[i] : i \in DOMAIN game} \cup {think}
           T == {Append(game, think)[i] : i \in DOMAIN Append(game, think)}
<1>1. BaseFrame \in Nat /\ game \in Seq(S) /\ Len(game) = frame - 1 - BaseFrame
  BY Constants DEF HasLocal
<1>2. Self \in DOMAIN think /\ think[Self] = all[frame][Self].game
  OBVIOUS
<1>3. think \in S
  OBVIOUS
<1> HIDE DEF think, S
<1>4. /\ Append(game, think) \in Seq(S) /\ Len(Append(game, think)) = frame - BaseFrame
      /\ DOMAIN Append(game, think) = 1 .. frame - BaseFrame
      /\ \A i \in 1 .. frame - 1 - BaseFrame : Append(game, think)[i] = game[i]
      /\ Append(game, think)[frame - BaseFrame] = think
  BY <1>1, <1>3
<1> DEFINE next == Append(game, think)
<1>5. next \in Seq({next[i] : i \in DOMAIN next})
  <2> HIDE DEF next
  <2> QED
    BY <1>4, OwnRange DEF next
<1>6. ASSUME NEW i \in 1 .. frame - BaseFrame
      PROVE  Self \in DOMAIN next[i] /\ next[i][Self] = all[BaseFrame + i][Self].game
  <2>1. CASE i = frame - BaseFrame
    <3>1. BaseFrame + i = frame
      BY <1>1, <2>1
    <3> QED
      BY <1>2, <1>4, <2>1, <3>1
  <2>2. CASE i # frame - BaseFrame
    <3>1. i \in 1 .. frame - 1 - BaseFrame
      BY <1>1, <2>2
    <3> QED
      BY <1>1, <1>4, <3>1 DEF HasLocal
  <2> QED
    BY <2>1, <2>2
<1>7. ApplyAndThink(game, engines, fb) = next
  BY DEF ApplyAndThink, think
<1>8. Len(next) = frame - BaseFrame
  BY <1>4
<1> HIDE DEF next
<1>9. HasLocal(all, next, frame)
  BY <1>5, <1>6, <1>8 DEF HasLocal
<1> QED
  BY <1>7, <1>9

(* Up to the local frame the window's games have had this engine's events. *)
LEMMA LocalApplied ==
  ASSUME FromTheStart, IInv, WindowInv, PaceInv, SupplyInv
  PROVE  GamesHaveLocal
<1> DEFINE log == u.bootstrap_frames
           data == u.data
           first == u.first
           local == u.local_frame
<1>1. /\ ~u.panicked /\ Steady(u, issued) /\ Holds(u, Got) /\ SessionInv /\ HostRules(issued)
      /\ SentInv /\ u.skip_to_frame = 0 /\ first <= local /\ local <= MaxFrame
  BY DEF PaceInv, IInv, RunInv, WindowInv, SessionInv, SupplyInv, LocalInv
<1>2. /\ BaseFrame \in Nat /\ MaxFrame \in Nat /\ first \in Nat /\ local \in Nat
      /\ u.global_frame \in Nat /\ BaseFrame <= first /\ first <= u.global_frame
      /\ Frames = BaseFrame + 1 .. MaxFrame
      /\ Self \in EngineId /\ Self \in Founders /\ ~Bootstrapped
  BY <1>1, Constants, ConfigAssumption DEF Steady, Ready, Shape, PaceInv, Frames, FromTheStart
<1>3. ASSUME NEW f \in Frames, f <= local
      PROVE  Self \in DOMAIN Got[f] /\ Got[f][Self] = issued[f][Self]
  BY <1>3 DEF SupplyInv, Got, ReceivedBundle, Received
<1>4. local <= u.global_frame
  <2> SUFFICES ASSUME u.global_frame < local PROVE FALSE
    BY <1>2
  <2>1. local \in Frames
    BY <1>1, <1>2
  <2>2. Got[local] = EmptyBundle
    BY <1>1, <2>1 DEF Holds
  <2> QED
    BY <1>2, <1>3, <2>1, <2>2 DEF EmptyBundle
<1>5. ASSUME NEW f \in Frames, f <= local, NEW fb, SubBundle(fb, issued[f]),
             Self \in DOMAIN fb, NEW info, NEW game, Self \in info, HasLocal(issued, game, f - 1)
      PROVE  /\ Self \in ApplyEngineEvents(info, fb)
             /\ HasLocal(issued, ApplyAndThink(game, ApplyEngineEvents(info, fb), fb), f)
  <2>1. Places(fb, EngineDropped(Self)) = {}
    BY <1>1, <1>5, HostNotDropped
  <2>2. Self \in ApplyEngineEvents(info, fb)
    BY <1>2, <1>5, <2>1, StaysKnown
  <2>3. fb[Self] = issued[f][Self]
    BY <1>5 DEF SubBundle
  <2>4. f \in Nat /\ BaseFrame < f
    BY <1>2
  <2> QED
    BY <1>5, <2>2, <2>3, <2>4, AppendsLocal
<1> DEFINE Has(state, f) == Self \in state.info /\ HasLocal(issued, state.game, f)
           Sent == {n \in Nat : BaseFrame + n <= first => Has(log[BaseFrame + n], BaseFrame + n)}
           Held == {n \in Nat : first + n <= local => Has(data[first + n], first + n)}
<1>6. Nat \subseteq Sent
  <2>1. 0 \in Sent
    <3>1. log[BaseFrame].info = Founders /\ log[BaseFrame].game = <<>>
      BY <1>1 DEF SentInv
    <3>2. HasLocal(issued, <<>>, BaseFrame)
      BY <1>2 DEF HasLocal
    <3>3. Has(log[BaseFrame], BaseFrame)
      BY <1>2, <3>1, <3>2
    <3> QED
      BY <1>2, <3>3
  <2>2. ASSUME NEW n \in Nat, n \in Sent PROVE n + 1 \in Sent
    <3> DEFINE f == BaseFrame + (n + 1)
    <3> SUFFICES ASSUME f <= first PROVE Has(log[f], f)
      OBVIOUS
    <3>1. f \in BaseFrame + 1 .. first /\ f - 1 = BaseFrame + n /\ f \in Frames /\ f <= local
      BY <1>1, <1>2
    <3>2. Has(log[f - 1], f - 1)
      BY <1>2, <2>2, <3>1
    <3> HIDE DEF f, Sent
    <3> DEFINE engines == ApplyEngineEvents(log[f - 1].info, issued[f])
    <3>3. Settled(log, f, issued[f])
      BY <1>1, <3>1 DEF SentInv
    <3>4. log[f].info = engines /\ log[f].game = ApplyAndThink(log[f - 1].game, engines, issued[f])
      <4>1. log[f] = [info |-> engines, game |-> ApplyAndThink(log[f - 1].game, engines, issued[f])]
        BY <3>3 DEF Settled
      <4> HIDE DEF engines
      <4> QED
        BY <4>1
    <3>5. Self \in DOMAIN issued[f] /\ SubBundle(issued[f], issued[f])
      BY <3>1 DEF SupplyInv, SubBundle
    <3>6. Self \in engines /\ HasLocal(issued, ApplyAndThink(log[f - 1].game, engines, issued[f]), f)
      BY <1>5, <3>1, <3>2, <3>5
    <3> HIDE DEF engines
    <3> QED
      BY <3>4, <3>6
  <2> HIDE DEF Sent
  <2> QED
    BY <2>1, <2>2, SetInduction
<1>7. Nat \subseteq Held
  <2>1. 0 \in Held
    <3>1. first - BaseFrame \in Nat /\ BaseFrame + (first - BaseFrame) = first
      BY <1>2
    <3>2. Has(log[first], first)
      <4>1. first - BaseFrame \in Sent
        <5> HIDE DEF Sent
        <5> QED
          BY <1>6, <3>1
      <4> DEFINE n == first - BaseFrame
      <4>2. n \in Nat /\ BaseFrame + n = first /\ BaseFrame + n <= first
        BY <1>2, <3>1
      <4> HIDE DEF n, Has
      <4>3. Has(log[BaseFrame + n], BaseFrame + n)
        BY <4>1, <4>2 DEF n
      <4> QED
        BY <4>2, <4>3
    <3>3. data[first].info = log[first].info /\ data[first].game = log[first].game
      BY <1>1 DEF Steady, Ready
    <3>4. Has(data[first], first)
      BY <3>2, <3>3
    <3> QED
      BY <1>2, <3>4
  <2>2. ASSUME NEW n \in Nat, n \in Held PROVE n + 1 \in Held
    <3> DEFINE f == first + (n + 1)
    <3> SUFFICES ASSUME f <= local PROVE Has(data[f], f)
      OBVIOUS
    <3>1. /\ f \in first + 1 .. u.global_frame /\ f - 1 = first + n /\ f \in Frames /\ f <= local
          /\ f \in Window(first)
      <4>1. f <= u.global_frame /\ u.global_frame <= first + Max_frames /\ Max_frames \in Nat
        BY <1>1, <1>2, <1>4, MaxFramesAssumption DEF Steady, Ready, Shape
      <4>2. /\ f \in first + 1 .. u.global_frame /\ f - 1 = first + n /\ f \in Frames
            /\ f <= local
        BY <1>1, <1>2, <1>4
      <4>3. f \in first .. first + Max_frames
        BY <1>2, <4>1, <4>2
      <4> QED
        BY <4>2, <4>3 DEF Window
    <3>2. Has(data[f - 1], f - 1)
      BY <1>1, <1>2, <2>2, <3>1
    <3> HIDE DEF f, Held, Sent
    <3> DEFINE engines == ApplyEngineEvents(data[f - 1].info, data[f].bundle)
    <3>3. Linked(data, f)
      <4>1. f \in first + 1 .. u.oldest_dirty_frame - 1
        BY <1>1, <1>2, <3>1 DEF Steady
      <4> QED
        BY <1>1, <1>2, <4>1 DEF Steady, Ready, Placeholder
    <3>4. data[f].info = engines /\ data[f].game = ApplyAndThink(data[f - 1].game, engines, data[f].bundle)
      <4>1. DOMAIN data[f] = SlotFields
        BY <1>1, <3>1 DEF Steady, Ready, Shape
      <4> QED
        BY <3>3, <4>1, LinkedState
    <3>5. Self \in DOMAIN data[f].bundle /\ SubBundle(data[f].bundle, issued[f])
      <4>1. data[f].bundle = Got[f]
        BY <1>1, <3>1 DEF Holds
      <4>2. SubBundle(data[f].bundle, issued[f])
        BY <1>1, <3>1 DEF Steady, Ready
      <4> QED
        BY <1>3, <3>1, <4>1, <4>2
    <3>6. Self \in engines /\ HasLocal(issued, ApplyAndThink(data[f - 1].game, engines, data[f].bundle), f)
      BY <1>5, <3>1, <3>2, <3>5
    <3> HIDE DEF engines
    <3> QED
      BY <3>4, <3>6
  <2> HIDE DEF Held
  <2> QED
    BY <2>1, <2>2, SetInduction
<1>8. ASSUME NEW f \in first .. local PROVE HasLocal(issued, data[f].game, f)
  <2>1. f - first \in Nat /\ first + (f - first) = f /\ f <= local
    BY <1>2
  <2> HIDE DEF Sent
  <2>2. f - first \in Held
    BY <1>7, <2>1
  <2> QED
    BY <2>1, <2>2
<1> QED
  BY <1>8 DEF GamesHaveLocal

LEMMA SupplyInit ==
  ASSUME FromTheStart, Init
  PROVE  SupplyInv
<1>1. /\ u.skip_to_frame = 0 /\ u.local_frame = BaseFrame /\ clock = BaseFrame + 1 /\ inflight = {}
  BY DEF FromTheStart, Init, Start, NewUpdater
<1> QED
  BY <1>1, Constants DEF SupplyInv, Frames

LEMMA SupplyStep ==
  ASSUME FromTheStart, IInv, Onwards, PaceInv, PaceInv', SupplyInv, [Next]_vars
  PROVE  SupplyInv' /\ u.local_frame <= u'.local_frame
<1>1. /\ ~u.panicked /\ ~u'.panicked /\ u.local_frame \in Nat /\ clock \in Nat
      /\ DOMAIN u = UpdaterFields /\ DOMAIN issued = BaseFrame .. MaxFrame
  BY DEF PaceInv, IInv, OwnInv, SentInv, SessionInv
<1>2. \A f \in Frames : DOMAIN issued[f] \subseteq DOMAIN issued'[f]
  BY DEF Onwards, Grows, SubBundle
<1>3. ASSUME UNCHANGED clock, u'.local_frame = u.local_frame, u'.skip_to_frame = 0,
             \A f \in Frames : <<Self, f>> \notin inflight'
      PROVE  SupplyInv' /\ u.local_frame <= u'.local_frame
  BY <1>1, <1>2, <1>3 DEF SupplyInv
<1>4. CASE UNCHANGED vars
  BY <1>3, <1>4 DEF vars, SupplyInv
<1>5. CASE Next
  <2>1. ASSUME NEW id \in Peers, Issue(id) PROVE SupplyInv' /\ u.local_frame <= u'.local_frame
    <3>1. PICK frame \in Frames : inflight' = inflight \cup {<<id, frame>>} /\ UNCHANGED <<u, clock>>
      BY <2>1 DEF Issue
    <3> QED
      BY <1>3, <3>1 DEF SupplyInv, Peers
  <2>2. CASE LocalBundle
    <3>1. ~Discards(u, clock)
      BY <1>1 DEF Discards, SupplyInv
    <3>2. /\ u'.local_frame = clock /\ u'.skip_to_frame = 0 /\ clock' = clock + 1
          /\ clock <= MaxFrame /\ UNCHANGED inflight
          /\ clock \in Frames => Self \in DOMAIN issued'[clock]
      BY <1>1, <2>2, <3>1, LocalTaken
    <3>3. clock = u.local_frame + 1
      BY DEF SupplyInv
    <3>4. \A f \in Frames : f <= u'.local_frame => f <= u.local_frame \/ f = clock
      BY <1>1, <3>2, <3>3, Constants DEF Frames
    <3>5. \A f \in Frames : f <= u'.local_frame => Self \in DOMAIN issued'[f]
      BY <1>2, <3>2, <3>4 DEF SupplyInv
    <3> QED
      BY <1>1, <3>2, <3>3, <3>5 DEF SupplyInv
  <2>3. CASE RemoteBundles
    BY <1>1, <1>3, <2>3, RemoteTaken DEF SupplyInv
  <2>4. ASSUME NEW c \in Callers, RequestFinalGameState(c) \/ RequestFastGameState(c)
        PROVE  SupplyInv' /\ u.local_frame <= u'.local_frame
    <3>1. PICK frame :
            \/ u' = RequestFinal(u, [caller |-> c, frame |-> frame])
            \/ u' = RequestFast(u, [caller |-> c, frame |-> frame])
      BY <2>4 DEF RequestFinalGameState, RequestFastGameState
    <3>2. u'.local_frame = u.local_frame /\ u'.skip_to_frame = u.skip_to_frame
      BY <1>1, <3>1 DEF RequestFinal, RequestFast, Panic, UpdaterFields
    <3>3. UNCHANGED <<clock, inflight>>
      BY <2>4 DEF RequestFinalGameState, RequestFastGameState
    <3> QED
      BY <1>3, <3>2, <3>3 DEF SupplyInv
  <2>5. CASE Finished
    BY <1>4, <2>5 DEF Finished
  <2> QED
    BY <1>5, <2>1, <2>2, <2>3, <2>4, <2>5 DEF Next
<1> QED
  BY <1>4, <1>5

(* A Game keeps this engine's events while the session grows.              *)
LEMMA LocalPersists ==
  ASSUME PaceInv, SupplyInv, Grows, NEW game, NEW frame \in BaseFrame .. u.local_frame,
         HasLocal(issued, game, frame)
  PROVE  HasLocal(issued', game, frame)
<1>1. BaseFrame \in Nat /\ Len(game) = frame - BaseFrame /\ Frames = BaseFrame + 1 .. MaxFrame
      /\ u.local_frame <= MaxFrame /\ MaxFrame \in Nat /\ u.local_frame \in Int
  BY Constants DEF HasLocal, Frames, SupplyInv, PaceInv
<1>2. ASSUME NEW i \in 1 .. Len(game)
      PROVE  issued'[BaseFrame + i][Self] = issued[BaseFrame + i][Self]
  <2>1. BaseFrame + i \in Frames /\ BaseFrame + i <= u.local_frame
    BY <1>1
  <2> QED
    BY <2>1 DEF SupplyInv, Grows, SubBundle
<1> QED
  BY <1>2 DEF HasLocal

(* What a handler that has been through the queue makes of the callers.    *)
LEMMA QueueKept ==
  ASSUME DOMAIN calls = Callers, FastQueueInv, calls' = Responses(u'),
         \A r : Asked(u'.fast_requests, r) => Asked(u.fast_requests, r)
  PROVE  /\ DOMAIN calls' = Callers /\ FastQueueInv'
         /\ \A c \in Callers :
              /\ calls[c].status # "waiting" => calls'[c] = calls[c]
              /\ calls[c].status = "waiting" /\ calls[c].final =>
                   calls'[c] = calls[c] \/ (calls'[c].status = "answered" /\ calls'[c].final)
              /\ AwaitsFast(c) /\ Asked(u'.fast_requests, Request(c)) => calls'[c] = calls[c]
              /\ AwaitsFast(c) /\ ~Asked(u'.fast_requests, Request(c)) =>
                   calls'[c] = Answered(FALSE, calls[c].asked, StateAt(u', calls[c].asked))
              /\ AwaitsFast(c)' => AwaitsFast(c) /\ calls'[c] = calls[c]
<1> DEFINE requests == u.fast_requests
           left == u'.fast_requests
<1>1. DOMAIN calls' = Callers
  BY DEF Responses
<1>2. ASSUME NEW c \in Callers, calls[c].status # "waiting" PROVE calls'[c] = calls[c]
  BY <1>2 DEF Responses
<1>3. ASSUME NEW c \in Callers, AwaitsFast(c)
      PROVE  Asked(left, Request(c)) <=> c \in Pending(left)
  <2>1. ASSUME c \in Pending(left) PROVE Asked(left, Request(c))
    <3>1. PICK i \in DOMAIN left : left[i].caller = c
      BY <2>1 DEF Pending
    <3>2. Asked(left, left[i])
      BY DEF Asked
    <3>3. left[i] = Request(c)
      BY <3>1, <3>2 DEF FastQueueInv
    <3> QED
      BY <3>2, <3>3
  <2>2. ASSUME Asked(left, Request(c)) PROVE c \in Pending(left)
    BY <2>2 DEF Asked, Pending, Request
  <2> QED
    BY <2>1, <2>2
<1>4. ASSUME NEW c \in Callers, AwaitsFast(c), ~Asked(left, Request(c))
      PROVE  calls'[c] = Answered(FALSE, calls[c].asked, StateAt(u', calls[c].asked))
  BY <1>3, <1>4 DEF Responses, AwaitsFast
<1>5. ASSUME NEW c \in Callers, AwaitsFast(c), Asked(left, Request(c)) PROVE calls'[c] = calls[c]
  BY <1>3, <1>5 DEF Responses, AwaitsFast
<1>6. ASSUME NEW c \in Callers, calls[c].status = "waiting", calls[c].final
      PROVE  calls'[c] = calls[c] \/ (calls'[c].status = "answered" /\ calls'[c].final)
  <2>1. \A f, x : Answered(TRUE, f, x).status = "answered" /\ Answered(TRUE, f, x).final
    BY DEF Answered
  <2> QED
    BY <1>6, <2>1 DEF Responses
<1>7. ASSUME NEW c \in Callers, AwaitsFast(c)'
      PROVE  AwaitsFast(c) /\ calls'[c] = calls[c] /\ Asked(left, Request(c))
  <2>0. calls'[c].status = "waiting" /\ ~calls'[c].final
    BY <1>7 DEF AwaitsFast
  <2>1. calls[c].status = "waiting"
    BY <1>2, <2>0
  <2>2. ~calls[c].final
    <3>1. CASE calls[c].final
      BY <1>6, <2>0, <2>1, <3>1
    <3> QED
      BY <3>1
  <2>3. AwaitsFast(c)
    BY <2>1, <2>2 DEF AwaitsFast
  <2>4. Asked(left, Request(c))
    <3>1. \A f, x : Answered(FALSE, f, x).status = "answered"
      BY DEF Answered
    <3> QED
      BY <1>4, <2>0, <2>3, <3>1
  <2> QED
    BY <1>5, <2>3, <2>4
<1>8. FastQueueInv'
  <2>1. ASSUME NEW c \in Callers, AwaitsFast(c)' PROVE Asked(left, Request(c)')
    BY <1>7, <2>1 DEF Request
  <2>2. ASSUME NEW r, Asked(left, r)
        PROVE  r.caller \in Callers /\ AwaitsFast(r.caller)' /\ r = Request(r.caller)'
    <3>1. r.caller \in Callers /\ AwaitsFast(r.caller) /\ r = Request(r.caller)
      BY <2>2 DEF FastQueueInv
    <3> QED
      BY <1>5, <2>2, <3>1 DEF AwaitsFast, Request
  <2> QED
    BY <2>1, <2>2 DEF FastQueueInv
<1> HIDE DEF left
<1> QED
  BY <1>1, <1>2, <1>4, <1>5, <1>6, <1>7, <1>8 DEF left

(* The answers to the fast requests a handler took out of the queue: it    *)
(* took only requests for the frame it made the local one.                 *)
LEMMA FastResponsesKeep ==
  ASSUME PaceInv, PaceInv', SupplyInv, SupplyInv', Grows, GamesHaveLocal', FastInv,
         u.local_frame <= u'.local_frame, u'.first \in Nat, BaseFrame <= u'.first,
         calls' = Responses(u'), u'.fast_requests \in Seq(RequestType),
         \A r : Asked(u.fast_requests, r) /\ r.frame # u'.local_frame => Asked(u'.fast_requests, r),
         \A r : Asked(u'.fast_requests, r) => Asked(u.fast_requests, r)
  PROVE  FastInv'
<1> DEFINE requests == u.fast_requests
           left == u'.fast_requests
<1>0. /\ BaseFrame \in Nat /\ u.local_frame \in Nat /\ u'.local_frame \in Nat
      /\ u'.first <= u'.local_frame
  BY Constants DEF PaceInv, SupplyInv, LocalInv
<1>1. /\ DOMAIN calls' = Callers /\ FastQueueInv' /\ left \in Seq(RequestType)
      /\ \A c \in Callers :
           /\ calls[c].status # "waiting" => calls'[c] = calls[c]
           /\ calls[c].status = "waiting" /\ calls[c].final =>
                calls'[c] = calls[c] \/ (calls'[c].status = "answered" /\ calls'[c].final)
           /\ AwaitsFast(c) /\ Asked(left, Request(c)) => calls'[c] = calls[c]
           /\ AwaitsFast(c) /\ ~Asked(left, Request(c)) =>
                calls'[c] = Answered(FALSE, calls[c].asked, StateAt(u', calls[c].asked))
  BY QueueKept DEF FastInv
<1>3. ASSUME NEW c \in Callers, AwaitsFast(c), ~Asked(left, Request(c))
      PROVE  calls[c].asked = u'.local_frame
  <2>1. Asked(requests, Request(c))
    BY <1>3 DEF FastInv, FastQueueInv
  <2>2. Request(c).frame = calls[c].asked
    BY DEF Request
  <2> QED
    BY <1>3, <2>1, <2>2
<1>7. ASSUME NEW c \in Callers, calls'[c].status = "answered", ~calls'[c].final,
             calls'[c].response.found
      PROVE  /\ calls'[c].response.frame \in BaseFrame .. u'.local_frame
             /\ HasLocal(issued', calls'[c].response.game, calls'[c].response.frame)
  <2>1. CASE calls'[c] = calls[c]
    <3>1. HadLocal(calls[c].response)
      BY <1>7, <2>1 DEF FastInv, FastTold
    <3>2. HasLocal(issued', calls[c].response.game, calls[c].response.frame)
      BY <3>1, LocalPersists DEF HadLocal
    <3> QED
      BY <1>0, <2>1, <3>1, <3>2 DEF HadLocal
  <2>2. CASE AwaitsFast(c) /\ ~Asked(left, Request(c))
    <3> DEFINE f == u'.local_frame
    <3>1. calls'[c] = Answered(FALSE, f, StateAt(u', f))
      BY <1>1, <1>3, <2>2
    <3>2. calls'[c].response.frame = f /\ calls'[c].response.game = u'.data[f].game
      BY <3>1 DEF Answered, StateAt
    <3>3. HasLocal(issued', u'.data[f].game, f)
      BY <1>0 DEF GamesHaveLocal
    <3>4. f \in BaseFrame .. u'.local_frame
      BY <1>0
    <3> HIDE DEF f
    <3> QED
      BY <3>2, <3>3, <3>4
  <2>3. CASE calls'[c].status = "answered" /\ calls'[c].final
    BY <1>7, <2>3
  <2> QED
    BY <1>1, <2>1, <2>2, <2>3 DEF AwaitsFast
<1> QED
  BY <1>1, <1>7 DEF FastInv, FastTold, HadLocal

LEMMA AskFinal ==
  ASSUME FastInv, NEW c \in Callers, RequestFinalGameState(c), DOMAIN u = UpdaterFields
  PROVE  FastInv'
<1>1. PICK frame \in AskedFrames :
        /\ u' = RequestFinal(u, [caller |-> c, frame |-> frame])
        /\ calls' = [calls EXCEPT ![c] =
                       IF FinalReady(u, frame) THEN Answered(TRUE, frame, FinalResponse(u, frame))
                       ELSE Waiting(TRUE, frame)]
  BY DEF RequestFinalGameState
<1>2. /\ calls[c].status # "waiting" /\ DOMAIN calls = Callers /\ UNCHANGED issued
      /\ u.fast_requests \in Seq(RequestType) /\ FastQueueInv
  BY DEF RequestFinalGameState, FastInv
<1>3. /\ u'.fast_requests = u.fast_requests /\ u'.local_frame = u.local_frame
  BY <1>1 DEF RequestFinal, UpdaterFields
<1>4. DOMAIN calls' = Callers /\ \A k \in Callers : k # c => calls'[k] = calls[k]
  BY <1>1, <1>2
<1>5. calls'[c].final
  <2>1. \A x : Answered(TRUE, frame, x).final /\ Waiting(TRUE, frame).final
    BY DEF Answered, Waiting
  <2> QED
    BY <1>1, <1>2, <2>1
<1>6. \A r : Asked(u.fast_requests, r) => r.caller # c
  BY <1>2 DEF FastQueueInv, AwaitsFast
<1>7. FastQueueInv'
  BY <1>2, <1>3, <1>4, <1>5, <1>6 DEF FastQueueInv, AwaitsFast, Request
<1>8. ASSUME NEW k \in Callers, FastTold(k)' PROVE HadLocal(calls[k].response)'
  <2>1. k # c
    BY <1>5, <1>8 DEF FastTold
  <2>2. calls'[k] = calls[k] /\ FastTold(k)
    BY <1>4, <1>8, <2>1 DEF FastTold
  <2> QED
    BY <1>2, <1>3, <2>2 DEF FastInv, HadLocal
<1> QED
  BY <1>2, <1>3, <1>4, <1>7, <1>8 DEF FastInv

LEMMA AskFast ==
  ASSUME FastInv, NEW c \in Callers, RequestFastGameState(c), DOMAIN u = UpdaterFields,
         PaceInv, PaceInv', SupplyInv, GamesHaveLocal, u.first \in Nat, BaseFrame <= u.first
  PROVE  FastInv'
<1>1. PICK frame \in AskedFrames :
        /\ u' = RequestFast(u, [caller |-> c, frame |-> frame])
        /\ calls' = [calls EXCEPT ![c] =
                       IF FastReady(u, frame) /\ ~u'.panicked
                         THEN Answered(FALSE, frame, FastResponse(u, frame))
                         ELSE Waiting(FALSE, frame)]
  BY DEF RequestFastGameState
<1> DEFINE req == [caller |-> c, frame |-> frame]
           requests == u.fast_requests
<1>2. /\ calls[c].status # "waiting" /\ DOMAIN calls = Callers /\ UNCHANGED issued
      /\ requests \in Seq(RequestType) /\ FastQueueInv /\ ~u'.panicked
      /\ frame \in Int /\ BaseFrame \in Nat /\ u.local_frame \in Nat /\ u.first <= u.local_frame
  BY Constants, ConfigAssumption
  DEF RequestFastGameState, FastInv, PaceInv, SupplyInv, LocalInv
<1>3. DOMAIN calls' = Callers /\ \A k \in Callers : k # c => calls'[k] = calls[k]
  BY <1>1, <1>2
<1>4. \A r : Asked(requests, r) => r.caller # c
  BY <1>2 DEF FastQueueInv, AwaitsFast
<1>5. ASSUME u'.local_frame = u.local_frame, NEW k \in Callers, k # c, FastTold(k)'
      PROVE  HadLocal(calls[k].response)'
  <2>1. calls'[k] = calls[k] /\ FastTold(k)
    BY <1>3, <1>5 DEF FastTold
  <2> QED
    BY <1>2, <1>5, <2>1 DEF FastInv, HadLocal
<1>6. ~(req.frame < 0 /\ ~InWindow(u, u.local_frame))
  <2> SUFFICES ASSUME req.frame < 0 /\ ~InWindow(u, u.local_frame) PROVE FALSE
    OBVIOUS
  <2>1. u' = Panic(u)
    BY <1>1 DEF RequestFast
  <2> QED
    BY <1>2, <2>1, PanicKeeps
<1>7. CASE FastReady(u, frame)
  <2>1. u' = u /\ calls'[c] = Answered(FALSE, frame, FastResponse(u, frame))
    BY <1>1, <1>2, <1>6, <1>7 DEF RequestFast
  <2> DEFINE response == FastResponse(u, frame)
  <2>2. calls'[c].status = "answered" /\ calls'[c].response = response
    BY <2>1 DEF Answered
  <2>3. FastQueueInv'
    BY <1>2, <1>3, <1>4, <2>1, <2>2 DEF FastQueueInv, AwaitsFast, Request
  <2>4. ASSUME response.found PROVE HadLocal(response)
    <3>1. PICK f \in u.first .. u.local_frame : response = StateAt(u, f)
      <4>1. CASE frame < 0
        BY <1>2, <4>1 DEF FastResponse
      <4>2. CASE frame >= 0 /\ frame < u.first
        BY <2>4, <4>2 DEF FastResponse, NoState
      <4>3. CASE frame >= u.first
        <5>1. frame \in u.first .. u.local_frame
          BY <1>2, <1>7, <4>3 DEF FastReady
        <5>2. response = StateAt(u, frame)
          BY <1>2, <4>3 DEF FastResponse
        <5> QED
          BY <5>1, <5>2
      <4> QED
        BY <1>2, <4>1, <4>2, <4>3
    <3>2. response.frame = f /\ response.game = u.data[f].game
      BY <3>1 DEF StateAt
    <3>3. HasLocal(issued, u.data[f].game, f)
      BY DEF GamesHaveLocal
    <3>4. f \in BaseFrame .. u.local_frame
      BY <1>2
    <3> HIDE DEF response
    <3> QED
      BY <3>2, <3>3, <3>4 DEF HadLocal
  <2> HIDE DEF response
  <2>5. FastTold(c)' => HadLocal(calls[c].response)'
    BY <1>2, <2>1, <2>2, <2>4 DEF FastTold, HadLocal
  <2> QED
    BY <1>2, <1>3, <1>5, <2>1, <2>3, <2>5 DEF FastInv
<1>8. CASE ~FastReady(u, frame)
  <2>1. u' = [u EXCEPT !.fast_requests = Append(@, req)] /\ calls'[c] = Waiting(FALSE, frame)
    BY <1>1, <1>2, <1>6, <1>8 DEF RequestFast
  <2>2. u'.fast_requests = Append(requests, req) /\ u'.local_frame = u.local_frame
    BY <2>1 DEF UpdaterFields
  <2>3. req \in RequestType
    BY <1>2 DEF RequestType
  <2> HIDE DEF req
  <2>4. u'.fast_requests \in Seq(RequestType)
    BY <1>2, <2>2, <2>3
  <2>5. \A r : Asked(u'.fast_requests, r) <=> Asked(requests, r) \/ r = req
    <3> DEFINE n == Len(requests)
    <3>1. /\ n \in Nat /\ DOMAIN requests = 1 .. n /\ DOMAIN Append(requests, req) = 1 .. n + 1
          /\ \A i \in 1 .. n : Append(requests, req)[i] = requests[i]
          /\ Append(requests, req)[n + 1] = req
      BY <1>2, <2>3
    <3> HIDE DEF n
    <3>2. 1 .. n + 1 = (1 .. n) \cup {n + 1}
      BY <3>1
    <3> QED
      BY <2>2, <3>1, <3>2 DEF Asked
  <2>6. AwaitsFast(c)' /\ Request(c)' = req
    BY <2>1 DEF AwaitsFast, Request, Waiting, req
  <2>7. FastQueueInv'
    <3>1. ASSUME NEW k \in Callers, AwaitsFast(k)' PROVE Asked(u'.fast_requests, Request(k)')
      <4>1. CASE k = c
        BY <2>5, <2>6, <4>1
      <4>2. CASE k # c
        <5>1. AwaitsFast(k) /\ Request(k)' = Request(k)
          BY <1>3, <3>1, <4>2 DEF AwaitsFast, Request
        <5> QED
          BY <1>2, <2>5, <5>1 DEF FastQueueInv
      <4> QED
        BY <4>1, <4>2
    <3>2. ASSUME NEW r, Asked(u'.fast_requests, r)
          PROVE  r.caller \in Callers /\ AwaitsFast(r.caller)' /\ r = Request(r.caller)'
      <4>1. CASE r = req
        BY <2>6, <4>1 DEF req
      <4>2. CASE Asked(requests, r)
        <5>1. /\ r.caller \in Callers /\ r.caller # c
              /\ AwaitsFast(r.caller) /\ r = Request(r.caller)
          BY <1>2, <1>4, <4>2 DEF FastQueueInv
        <5> QED
          BY <1>3, <5>1 DEF AwaitsFast, Request
      <4> QED
        BY <2>5, <3>2, <4>1, <4>2
    <3> QED
      BY <3>1, <3>2 DEF FastQueueInv
  <2>8. ~FastTold(c)'
    <3>1. calls'[c].status = "waiting"
      BY <2>1 DEF Waiting
    <3> QED
      BY <3>1 DEF FastTold
  <2> QED
    BY <1>3, <1>5, <2>2, <2>4, <2>7, <2>8 DEF FastInv
<1> QED
  BY <1>7, <1>8

LEMMA FastInit ==
  ASSUME Init
  PROVE  FastInv
<1>1. u.fast_requests = <<>> /\ \A c \in Callers : calls[c].status = "idle"
  BY DEF Init, Start, Bootstrap, NewUpdater, Idle
<1>2. DOMAIN calls = Callers
  BY DEF Init
<1>3. u.fast_requests \in Seq(RequestType) /\ DOMAIN u.fast_requests = {}
  BY <1>1
<1> QED
  BY <1>1, <1>2, <1>3 DEF FastInv, FastQueueInv, FastTold, AwaitsFast, Asked

SupplyAll == IInv /\ WindowInv /\ PaceInv /\ SupplyInv

LEMMA FastStep ==
  ASSUME FromTheStart, SupplyAll, SupplyAll', GamesHaveLocal, GamesHaveLocal', FastInv, [Next]_vars
  PROVE  FastInv'
<1>1. Onwards /\ u.local_frame <= u'.local_frame
  BY NextStep, SupplyStep DEF SupplyAll
<1>2. /\ ~u'.panicked /\ DOMAIN u = UpdaterFields /\ u'.first \in Nat /\ BaseFrame <= u'.first
      /\ u.first \in Nat /\ BaseFrame <= u.first
      /\ clock \in Nat /\ u.fast_requests \in Seq(RequestType)
  BY DEF SupplyAll, PaceInv, IInv, SentInv, OwnInv, FastInv
<1>3. CASE UNCHANGED vars
  BY <1>3 DEF vars, FastInv, FastQueueInv, AwaitsFast, Request, FastTold, HadLocal
<1>4. CASE Next
  <2>1. ASSUME NEW id \in Peers, Issue(id) PROVE FastInv'
    <3>1. UNCHANGED <<u, calls>>
      BY <2>1 DEF Issue
    <3>2. FastQueueInv'
      BY <3>1 DEF FastInv, FastQueueInv, AwaitsFast, Request
    <3>3. ASSUME NEW c \in Callers, FastTold(c)' PROVE HadLocal(calls[c].response)'
      <4>1. HadLocal(calls[c].response)
        BY <3>1, <3>3 DEF FastInv, FastTold
      <4>2. HasLocal(issued', calls[c].response.game, calls[c].response.frame)
        BY <1>1, <4>1, LocalPersists DEF SupplyAll, HadLocal, Onwards
      <4> QED
        BY <3>1, <4>1, <4>2 DEF HadLocal
    <3> QED
      BY <3>1, <3>2, <3>3 DEF FastInv
  <2>2. CASE LocalBundle
    <3>1. ~Discards(u, clock)
      BY <1>2 DEF Discards, SupplyAll, SupplyInv
    <3>2. /\ u'.local_frame = clock /\ calls' = Responses(u')
          /\ u'.fast_requests = Unserved(u.fast_requests, clock)
      BY <1>2, <2>2, <3>1, LocalTaken DEF SupplyAll
    <3>3. /\ u'.fast_requests \in Seq(RequestType)
          /\ \A r : Asked(u.fast_requests, r) /\ r.frame # clock => Asked(u'.fast_requests, r)
          /\ \A r : Asked(u'.fast_requests, r) => Asked(u.fast_requests, r)
      BY <1>2, <3>2, UnservedKeeps
    <3> QED
      BY <1>1, <1>2, <3>2, <3>3, FastResponsesKeep DEF SupplyAll, Onwards
  <2>3. CASE RemoteBundles
    <3>1. u'.fast_requests = u.fast_requests /\ calls' = Responses(u')
      BY <1>2, <2>3, RemoteTaken DEF SupplyAll
    <3> QED
      BY <1>1, <1>2, <3>1, FastResponsesKeep DEF SupplyAll, Onwards
  <2>4. ASSUME NEW c \in Callers, RequestFinalGameState(c) PROVE FastInv'
    BY <1>2, <2>4, AskFinal
  <2>5. ASSUME NEW c \in Callers, RequestFastGameState(c) PROVE FastInv'
    BY <1>2, <2>5, AskFast DEF SupplyAll
  <2>6. CASE Finished
    BY <1>3, <2>6 DEF Finished
  <2> QED
    BY <1>4, <2>1, <2>2, <2>3, <2>4, <2>5, <2>6 DEF Next
<1> QED
  BY <1>3, <1>4

(* Whoever supplies every frame from the first on is never given a fast    *)
(* state without its own events: the state of a frame up to the local one, *)
(* final or not, has had all of this engine's bundles, in their order.     *)
THEOREM FastAnswers ==
  ASSUME FromTheStart
  PROVE  Spec => []FastAnswersHoldLocalEvents
<1>1. InPace /\ Punctual
  BY DEF FromTheStart, InPace
<1>2. Init => SupplyAll /\ FastInv
  BY <1>1, InitInv, PaceInit, SupplyInit, FastInit DEF SupplyAll
<1>3. SupplyAll /\ [Next]_vars => SupplyAll'
  BY <1>1, NextStep, PaceStep, SupplyStep DEF KeepsWindow, SupplyAll
<1>4. SupplyAll => GamesHaveLocal
  BY LocalApplied DEF SupplyAll
<1>5. /\ SupplyAll /\ SupplyAll' /\ GamesHaveLocal /\ GamesHaveLocal' /\ FastInv
      /\ [Next]_vars
      => FastInv'
  BY FastStep
<1>6. FastInv => FastAnswersHoldLocalEvents
  BY DEF FastInv, FastTold, HadLocal, HasLocal, FastAnswersHoldLocalEvents
<1> QED
  BY <1>2, <1>3, <1>4, <1>5, <1>6, PTL DEF Spec

-----------------------------------------------------------------------------
(* The fast requests that are never answered.                              *)

(* A caller waits for a fast state exactly while its request is queued,    *)
(* once; and an engine that has supplied a frame supplies the next one.    *)
PassInv ==
  ~u.panicked =>
    /\ DOMAIN calls = Callers
    /\ u.fast_requests \in Seq(RequestType) /\ Distinct(u.fast_requests) /\ FastQueueInv
    /\ u.local_frame \in Nat /\ u.skip_to_frame \in Int /\ u.skip_to_frame >= -1
    /\ u.skip_to_frame = 0 => clock <= u.local_frame + 1

Passed == \A c \in Overdue' \ Overdue : SkippedByJoin(c) \/ SkippedByAnswer(c)

LEMMA PassInit ==
  ASSUME Init, ~Bootstrapped => FirstTick <= BaseFrame + 1
  PROVE  PassInv
<1>1. u.fast_requests = <<>> /\ \A c \in Callers : calls[c].status = "idle"
  BY DEF Init, Start, Bootstrap, NewUpdater, Idle
<1>2. DOMAIN calls = Callers
  BY DEF Init
<1>3. u.fast_requests \in Seq(RequestType) /\ DOMAIN u.fast_requests = {}
  BY <1>1
<1>4. FastQueueInv /\ Distinct(u.fast_requests)
  BY <1>1, <1>3 DEF FastQueueInv, AwaitsFast, Asked, Distinct
<1>5. BaseFrame \in Nat
  BY Constants
<1>6. /\ u.local_frame \in Nat /\ u.skip_to_frame \in {0, -1}
      /\ u.skip_to_frame = 0 => clock <= u.local_frame + 1
  <2>1. CASE Bootstrapped
    <3>1. u.local_frame = BaseFrame + 1 /\ u.skip_to_frame = -1
      BY <2>1 DEF Init, Bootstrap, NewUpdater, BootFrame
    <3> QED
      BY <1>5, <3>1
  <2>2. CASE ~Bootstrapped
    <3>1. u.local_frame = BaseFrame /\ u.skip_to_frame = 0 /\ clock = FirstTick
      BY <2>2 DEF Init, Start, NewUpdater
    <3> QED
      BY <1>5, <2>2, <3>1
  <2> QED
    BY <2>1, <2>2
<1> QED
  BY <1>2, <1>3, <1>4, <1>6 DEF PassInv

(* A step that moves neither local_frame nor the requests that wait.       *)
LEMMA NonePassed ==
  ASSUME u'.local_frame = u.local_frame,
         \A c \in Callers : AwaitsFast(c)' /\ calls'[c].asked <= u.local_frame =>
                              AwaitsFast(c) /\ calls'[c] = calls[c]
  PROVE  Passed
<1>1. Overdue' \subseteq Overdue
  BY DEF Overdue, AwaitsFast
<1> QED
  BY <1>1 DEF Passed

LEMMA PassRequest ==
  ASSUME PassInv, DOMAIN u = UpdaterFields, ~u'.panicked, NEW c \in Callers,
         RequestFinalGameState(c) \/ RequestFastGameState(c)
  PROVE  PassInv' /\ Passed
<1>0. /\ ~u.panicked /\ calls[c].status # "waiting" /\ UNCHANGED clock
      /\ DOMAIN calls = Callers /\ u.fast_requests \in Seq(RequestType) /\ FastQueueInv
      /\ u.local_frame \in Nat
  BY DEF RequestFinalGameState, RequestFastGameState, PassInv
<1>1. \A r : Asked(u.fast_requests, r) => r.caller # c
  BY <1>0 DEF FastQueueInv, AwaitsFast
<1>2. ASSUME UNCHANGED <<clock>>, DOMAIN calls' = Callers, ~AwaitsFast(c)',
             \A k \in Callers : k # c => calls'[k] = calls[k],
             u'.fast_requests = u.fast_requests, u'.local_frame = u.local_frame,
             u'.skip_to_frame = u.skip_to_frame
      PROVE  PassInv' /\ Passed
  <2>1. FastQueueInv'
    BY <1>0, <1>1, <1>2 DEF FastQueueInv, AwaitsFast, Request
  <2>2. PassInv'
    BY <1>0, <1>2, <2>1 DEF PassInv
  <2>3. \A k \in Callers : AwaitsFast(k)' => AwaitsFast(k) /\ calls'[k] = calls[k]
    BY <1>2 DEF AwaitsFast
  <2> QED
    BY <1>2, <2>2, <2>3, NonePassed
<1>3. CASE RequestFinalGameState(c)
  <2>1. PICK frame \in AskedFrames :
          /\ u' = RequestFinal(u, [caller |-> c, frame |-> frame])
          /\ calls' = [calls EXCEPT ![c] =
                         IF FinalReady(u, frame) THEN Answered(TRUE, frame, FinalResponse(u, frame))
                         ELSE Waiting(TRUE, frame)]
    BY <1>3 DEF RequestFinalGameState
  <2>2. /\ u'.fast_requests = u.fast_requests /\ u'.local_frame = u.local_frame
        /\ u'.skip_to_frame = u.skip_to_frame
    BY <2>1 DEF RequestFinal, UpdaterFields
  <2>3. calls'[c].final
    <3>1. \A x : Answered(TRUE, frame, x).final /\ Waiting(TRUE, frame).final
      BY DEF Answered, Waiting
    <3> QED
      BY <1>0, <2>1, <3>1
  <2>4. DOMAIN calls' = Callers /\ \A k \in Callers : k # c => calls'[k] = calls[k]
    BY <1>0, <2>1
  <2> QED
    BY <1>0, <1>2, <2>2, <2>3, <2>4 DEF AwaitsFast
<1>4. CASE RequestFastGameState(c)
  <2>1. PICK frame \in AskedFrames :
          /\ u' = RequestFast(u, [caller |-> c, frame |-> frame])
          /\ calls' = [calls EXCEPT ![c] =
                         IF FastReady(u, frame) /\ ~u'.panicked
                           THEN Answered(FALSE, frame, FastResponse(u, frame))
                           ELSE Waiting(FALSE, frame)]
    BY <1>4 DEF RequestFastGameState
  <2> DEFINE req == [caller |-> c, frame |-> frame]
             requests == u.fast_requests
  <2>2. frame \in Int /\ DOMAIN calls' = Callers /\ \A k \in Callers : k # c => calls'[k] = calls[k]
    BY <1>0, <2>1, ConfigAssumption
  <2>3. ~(req.frame < 0 /\ ~InWindow(u, u.local_frame))
    <3> SUFFICES ASSUME req.frame < 0 /\ ~InWindow(u, u.local_frame) PROVE FALSE
      OBVIOUS
    <3>1. u' = Panic(u)
      BY <2>1 DEF RequestFast
    <3> QED
      BY <3>1, PanicKeeps
  <2>4. CASE FastReady(u, frame)
    <3>1. u' = u /\ calls'[c] = Answered(FALSE, frame, FastResponse(u, frame))
      BY <1>0, <2>1, <2>3, <2>4 DEF RequestFast
    <3>2. ~AwaitsFast(c)'
      BY <3>1 DEF Answered, AwaitsFast
    <3> QED
      BY <1>0, <1>2, <2>2, <3>1, <3>2
  <2>5. CASE ~FastReady(u, frame)
    <3>1. u' = [u EXCEPT !.fast_requests = Append(@, req)] /\ calls'[c] = Waiting(FALSE, frame)
      BY <1>0, <2>1, <2>3, <2>5 DEF RequestFast
    <3>2. /\ u'.fast_requests = Append(requests, req) /\ u'.local_frame = u.local_frame
          /\ u'.skip_to_frame = u.skip_to_frame
      BY <3>1 DEF UpdaterFields
    <3>3. req \in RequestType /\ req.caller = c
      BY <2>2 DEF RequestType
    <3>4. AwaitsFast(c)' /\ Request(c)' = req /\ calls'[c].asked = frame
      BY <3>1 DEF AwaitsFast, Request, Waiting
    <3> HIDE DEF req
    <3> DEFINE n == Len(requests)
               more == Append(requests, req)
    <3>5. /\ n \in Nat /\ DOMAIN requests = 1 .. n /\ DOMAIN more = 1 .. n + 1
          /\ \A i \in 1 .. n : more[i] = requests[i]
          /\ more[n + 1] = req /\ more \in Seq(RequestType)
      BY <1>0, <3>3
    <3> HIDE DEF n, more
    <3>6. 1 .. n + 1 = (1 .. n) \cup {n + 1}
      BY <3>5
    <3>7. \A r : Asked(more, r) <=> Asked(requests, r) \/ r = req
      BY <3>5, <3>6 DEF Asked
    <3>8. Distinct(more)
      <4>1. \A i \in 1 .. n : requests[i] # req
        BY <1>1, <3>3, <3>5 DEF Asked
      <4> QED
        BY <1>0, <3>5, <3>6, <4>1 DEF Distinct, PassInv
    <3>9. FastQueueInv'
      <4>1. ASSUME NEW k \in Callers, AwaitsFast(k)' PROVE Asked(more, Request(k)')
        <5>1. CASE k = c
          BY <3>4, <3>7, <5>1
        <5>2. CASE k # c
          <6>1. AwaitsFast(k) /\ Request(k)' = Request(k)
            BY <2>2, <4>1, <5>2 DEF AwaitsFast, Request
          <6> QED
            BY <1>0, <3>7, <6>1 DEF FastQueueInv
        <5> QED
          BY <5>1, <5>2
      <4>2. ASSUME NEW r, Asked(more, r)
            PROVE  r.caller \in Callers /\ AwaitsFast(r.caller)' /\ r = Request(r.caller)'
        <5>1. CASE r = req
          BY <3>3, <3>4, <5>1
        <5>2. CASE Asked(requests, r)
          <6>1. /\ r.caller \in Callers /\ r.caller # c
                /\ AwaitsFast(r.caller) /\ r = Request(r.caller)
            BY <1>0, <1>1, <5>2 DEF FastQueueInv
          <6> QED
            BY <2>2, <6>1 DEF AwaitsFast, Request
        <5> QED
          BY <3>7, <4>2, <5>1, <5>2
      <4> QED
        BY <3>2, <4>1, <4>2 DEF FastQueueInv, more
    <3>10. PassInv'
      BY <1>0, <2>2, <3>2, <3>5, <3>8, <3>9 DEF PassInv, more
    <3>11. ~(calls'[c].asked <= u.local_frame)
      BY <1>0, <2>2, <2>5, <3>4 DEF FastReady
    <3>12. \A k \in Callers : AwaitsFast(k)' /\ calls'[k].asked <= u.local_frame =>
                                AwaitsFast(k) /\ calls'[k] = calls[k]
      BY <2>2, <3>11 DEF AwaitsFast
    <3> QED
      BY <3>2, <3>10, <3>12, NonePassed
  <2> QED
    BY <2>4, <2>5
<1> QED
  BY <1>3, <1>4

(* The frame of the bundle becomes the local frame.                        *)
LEMMA PassTick ==
  ASSUME IInv, PassInv, ~u'.panicked, LocalBundle, ~Discards(u, clock)
  PROVE  PassInv' /\ Passed
<1> DEFINE requests == u.fast_requests
           left == u'.fast_requests
<1>1. /\ u'.local_frame = clock /\ u'.skip_to_frame = 0 /\ clock' = clock + 1
      /\ left = Unserved(requests, clock) /\ calls' = Responses(u')
  BY LocalTaken
<1>2. /\ ~u.panicked /\ DOMAIN calls = Callers /\ requests \in Seq(RequestType)
      /\ Distinct(requests) /\ FastQueueInv /\ clock \in Nat
      /\ u.local_frame \in Nat /\ u.skip_to_frame \in Int /\ u.skip_to_frame >= -1
      /\ u.skip_to_frame = 0 => clock <= u.local_frame + 1
  BY DEF LocalBundle, PassInv, IInv, OwnInv
<1>3. /\ left \in Seq(RequestType)
      /\ \A r : Asked(requests, r) /\ r.frame # clock => Asked(left, r)
      /\ \A r : Asked(left, r) => Asked(requests, r)
  BY <1>1, <1>2, UnservedKeeps
<1>4. /\ Distinct(left)
      /\ \A r : Asked(requests, r) /\ r.frame = clock =>
           \E first : Asked(requests, first) /\ first.frame = clock /\ ~Asked(left, first)
  BY <1>1, <1>2, FirstServed
<1>5. /\ DOMAIN calls' = Callers /\ FastQueueInv'
      /\ \A c \in Callers :
           /\ AwaitsFast(c) /\ ~Asked(left, Request(c)) =>
                calls'[c] = Answered(FALSE, calls[c].asked, StateAt(u', calls[c].asked))
           /\ AwaitsFast(c)' => AwaitsFast(c) /\ calls'[c] = calls[c]
  BY <1>1, <1>2, <1>3, QueueKept
<1>6. PassInv'
  BY <1>1, <1>2, <1>3, <1>4, <1>5 DEF PassInv
<1>7. ASSUME NEW c \in Overdue' \ Overdue PROVE SkippedByJoin(c) \/ SkippedByAnswer(c)
  <2>1. c \in Callers /\ AwaitsFast(c) /\ AwaitsFast(c)' /\ calls'[c] = calls[c]
    BY <1>5, <1>7 DEF Overdue, AwaitsFast
  <2>2. Asked(requests, Request(c)) /\ Asked(left, Request(c))
    <3>1. Asked(left, Request(c)')
      BY <1>5, <2>1 DEF FastQueueInv
    <3> QED
      BY <1>2, <2>1, <3>1 DEF FastQueueInv, Request
  <2>3. calls[c].asked \in Int
    <3>1. Request(c) \in RequestType
      BY <1>2, <2>2 DEF Asked
    <3> QED
      BY <3>1 DEF Request, RequestType
  <2>4. calls[c].asked <= clock /\ ~(calls[c].asked <= u.local_frame)
    BY <1>1, <1>7, <2>1 DEF Overdue, AwaitsFast
  <2>5. CASE calls[c].asked < clock
    <3>1. u.skip_to_frame # 0
      BY <1>2, <2>3, <2>4, <2>5
    <3>2. u.skip_to_frame > 0
      BY <1>2, <3>1 DEF Discards
    <3> QED
      BY <1>1, <2>5, <3>2 DEF SkippedByJoin
  <2>6. CASE calls[c].asked = clock
    <3>1. Request(c).frame = clock
      BY <2>6 DEF Request
    <3>2. PICK first : Asked(requests, first) /\ first.frame = clock /\ ~Asked(left, first)
      BY <1>4, <2>2, <3>1
    <3> DEFINE d == first.caller
    <3>3. d \in Callers /\ AwaitsFast(d) /\ first = Request(d)
      BY <1>2, <3>2 DEF FastQueueInv
    <3>4. d # c
      BY <2>2, <3>2, <3>3
    <3> HIDE DEF d
    <3>5. calls[d].asked = clock
      BY <3>2, <3>3 DEF Request
    <3>6. calls'[d].status = "answered"
      <4>1. calls'[d] = Answered(FALSE, calls[d].asked, StateAt(u', calls[d].asked))
        BY <1>5, <3>2, <3>3
      <4> QED
        BY <4>1 DEF Answered
    <3> QED
      BY <1>1, <2>6, <3>3, <3>4, <3>5, <3>6 DEF SkippedByAnswer, AwaitsFast
  <2> QED
    BY <1>2, <2>3, <2>4, <2>5, <2>6
<1> QED
  BY <1>6, <1>7 DEF Passed

LEMMA PassStep ==
  ASSUME IInv, PassInv, [Next]_vars
  PROVE  PassInv' /\ (~u'.panicked => Passed)
<1> SUFFICES ASSUME ~u'.panicked PROVE PassInv' /\ Passed
  BY DEF PassInv
<1>0. DOMAIN u = UpdaterFields
  BY DEF IInv, SentInv
<1>1. ASSUME UNCHANGED <<u, clock, calls>> PROVE PassInv' /\ Passed
  <2>1. PassInv'
    BY <1>1 DEF PassInv, FastQueueInv, AwaitsFast, Request
  <2>2. \A c \in Callers : AwaitsFast(c)' => AwaitsFast(c) /\ calls'[c] = calls[c]
    BY <1>1 DEF AwaitsFast
  <2> QED
    BY <1>1, <2>1, <2>2, NonePassed
<1>2. ASSUME ~u.panicked, u'.local_frame = u.local_frame, u'.fast_requests = u.fast_requests,
             calls' = Responses(u'), u'.skip_to_frame \in Int, u'.skip_to_frame >= -1,
             u'.skip_to_frame = 0 => clock' <= u.local_frame + 1
      PROVE  PassInv' /\ Passed
  <2>1. /\ DOMAIN calls' = Callers /\ FastQueueInv'
        /\ \A c \in Callers : AwaitsFast(c)' => AwaitsFast(c) /\ calls'[c] = calls[c]
    BY <1>2, QueueKept DEF PassInv
  <2>2. PassInv'
    BY <1>2, <2>1 DEF PassInv
  <2> QED
    BY <1>2, <2>1, <2>2, NonePassed
<1>3. ASSUME NEW id \in Peers, Issue(id) PROVE PassInv' /\ Passed
  BY <1>1, <1>3 DEF Issue
<1>4. CASE LocalBundle
  <2>1. CASE ~Discards(u, clock)
    BY <1>4, <2>1, PassTick
  <2>2. CASE Discards(u, clock)
    <3>1. ~u.panicked /\ clock \in Nat
      BY <1>4 DEF LocalBundle, IInv, OwnInv
    <3>2. \A e : HandleLocal(u, [frame |-> clock, bundle |-> e]) = u
      BY <2>2 DEF HandleLocal
    <3>3. u' = u /\ calls' = Responses(u') /\ clock' = clock + 1
      BY <1>4, <3>1, <3>2 DEF LocalBundle, Result
    <3>4. u.skip_to_frame \in Int /\ u.skip_to_frame >= -1 /\ u.skip_to_frame # 0
      BY <2>2, <3>1 DEF Discards, PassInv
    <3> QED
      BY <1>2, <3>1, <3>3, <3>4
  <2> QED
    BY <2>1, <2>2
<1>5. CASE RemoteBundles
  <2>1. /\ ~u.panicked /\ u.skip_to_frame \in Int /\ u.skip_to_frame >= -1
        /\ u.skip_to_frame = 0 => clock <= u.local_frame + 1
    BY <1>5 DEF RemoteBundles, PassInv
  <2>2. /\ u'.local_frame = u.local_frame /\ u'.fast_requests = u.fast_requests
        /\ u'.skip_to_frame = u.skip_to_frame \/ u'.skip_to_frame > 0
        /\ calls' = Responses(u') /\ UNCHANGED clock
    BY <1>5, RemoteTaken
  <2>3. u'.skip_to_frame \in Int
    <3>1. Steady(u, issued)'
      BY NextStep DEF IInv, RunInv
    <3> QED
      BY <3>1 DEF Steady, Ready, Shape
  <2> QED
    BY <1>2, <2>1, <2>2, <2>3
<1>6. ASSUME NEW c \in Callers, RequestFinalGameState(c) \/ RequestFastGameState(c)
      PROVE  PassInv' /\ Passed
  BY <1>0, <1>6, PassRequest
<1>7. CASE Finished
  BY <1>1, <1>7 DEF Finished, vars
<1>8. CASE UNCHANGED vars
  BY <1>1, <1>8 DEF vars
<1> QED
  BY <1>3, <1>4, <1>5, <1>6, <1>7, <1>8 DEF Next

(* A fast request that local_frame passes was joined past, or skipped when *)
(* another for that frame was answered, as long as an updater that was     *)
(* started, not bootstrapped, gets its bundles from the first frame on:    *)
(* whatever the pace of the session and however many goroutines ask.       *)
THEOREM PassedForAReason ==
  ASSUME ~Bootstrapped => FirstTick <= BaseFrame + 1
  PROVE  Spec => FastRequestsPassed
<1>1. Init => IInv /\ PassInv
  BY InitInv, PassInit
<1>2. (IInv /\ PassInv) /\ [Next]_vars => (IInv /\ PassInv)'
  BY NextStep, PassStep
<1>3. (IInv /\ PassInv) /\ [Next]_vars =>
        [~u'.panicked => \A c \in Overdue' \ Overdue : SkippedByJoin(c) \/ SkippedByAnswer(c)]_vars
  BY PassStep DEF Passed
<1> QED
  BY <1>1, <1>2, <1>3, PTL DEF Spec, FastRequestsPassed

-----------------------------------------------------------------------------
(* Types.                                                                  *)

(* The types of the updater's fields, between two handlers and inside one, *)
(* whether or not it panicked.                                             *)
Typed(v) ==
  /\ DOMAIN v = UpdaterFields /\ v.id = Self
  /\ v.first \in Nat /\ v.global_frame \in Window(v.first)
  /\ v.local_frame \in Nat /\ v.oldest_dirty_frame \in Nat
  /\ v.skip_to_frame \in Nat \cup {-1} /\ v.panicked \in BOOLEAN
  /\ DOMAIN v.data = Window(v.first) /\ \A f \in Window(v.first) : IsFrameData(v.data[f])
  /\ v.final_requests \in Seq(RequestType) /\ v.fast_requests \in Seq(RequestType)
  /\ \A f \in DOMAIN v.bootstrap_frames :
       v.bootstrap_frames[f].info \subseteq EngineId /\ IsGame(v.bootstrap_frames[f].game)

LEMMA WindowRange ==
  ASSUME NEW first \in Nat
  PROVE  \A f : f \in Window(first) <=> f \in Nat /\ first <= f /\ f <= first + Max_frames
BY DEF Window

LEMMA LesserOrGreater ==
  ASSUME NEW a \in Nat, NEW b \in Nat
  PROVE  Lesser(a, b) \in {a, b} /\ Greater(a, b) \in {a, b}
BY DEF Lesser, Greater

LEMMA PanicTyped ==
  ASSUME NEW v, Typed(v)
  PROVE  Typed(Panic(v))
<1> DEFINE w == Panic(v)
<1>1. /\ DOMAIN w = UpdaterFields /\ w.panicked = TRUE
      /\ w.id = v.id /\ w.first = v.first /\ w.data = v.data
      /\ w.global_frame = v.global_frame /\ w.oldest_dirty_frame = v.oldest_dirty_frame
      /\ w.local_frame = v.local_frame /\ w.skip_to_frame = v.skip_to_frame
      /\ w.bootstrap_frames = v.bootstrap_frames
      /\ w.final_requests = v.final_requests /\ w.fast_requests = v.fast_requests
  BY DEF Panic, Typed, UpdaterFields
<1> HIDE DEF w
<1> QED
  BY <1>1 DEF Typed, w

(* A slot from its parts, and with a new state.                            *)
LEMMA SlotTyped ==
  ASSUME NEW info, info \subseteq EngineId, NEW game, IsGame(game),
         NEW bundle, IsEventBundle(bundle)
  PROVE  IsFrameData(FrameData(info, game, bundle))
BY DEF IsFrameData, FrameData

LEMMA EmptyTyped == IsEventBundle(EmptyBundle)
<1>1. EmptyBundle \in [{} -> AllEvents]
  BY DEF EmptyBundle
<1> QED
  BY <1>1 DEF IsEventBundle

LEMMA AbsorbTyped ==
  ASSUME NEW fb, IsEventBundle(fb), NEW fb2, IsEventBundle(fb2)
  PROVE  IsEventBundle(Absorb(fb, fb2))
<1>1. PICK ids \in SUBSET EngineId : fb \in [ids -> AllEvents]
  BY DEF IsEventBundle
<1>2. PICK ids2 \in SUBSET EngineId : fb2 \in [ids2 -> AllEvents]
  BY DEF IsEventBundle
<1>3. Absorb(fb, fb2) \in [ids \cup ids2 -> AllEvents]
  BY <1>1, <1>2 DEF Absorb
<1> QED
  BY <1>3 DEF IsEventBundle

LEMMA GameTyped ==
  ASSUME NEW game, IsGame(game), NEW engines, engines \subseteq EngineId,
         NEW fb, IsEventBundle(fb)
  PROVE  IsGame(ApplyAndThink(game, engines, fb))
<1> DEFINE think == [id \in DOMAIN fb \cap engines |-> fb[id].game]
           S == {game[i] : i \in DOMAIN game} \cup {think}
           next == Append(game, think)
<1>1. \E ids \in SUBSET EngineId : think \in [ids -> Seq(Event)]
  <2>1. PICK ids \in SUBSET EngineId : fb \in [ids -> AllEvents]
    BY DEF IsEventBundle
  <2>2. \A id \in ids : fb[id].game \in Seq(Event)
    BY <2>1 DEF AllEvents
  <2>3. think \in [ids \cap engines -> Seq(Event)]
    BY <2>1, <2>2
  <2> QED
    BY <2>3
<1>2. game \in Seq(S)
  <2>1. game \in Seq({game[i] : i \in DOMAIN game})
    BY DEF IsGame
  <2> HIDE DEF think
  <2> QED
    BY <2>1
<1>3. think \in S
  OBVIOUS
<1> HIDE DEF think, S
<1>4. /\ Len(game) \in Nat /\ DOMAIN game = 1 .. Len(game)
      /\ next \in Seq(S) /\ DOMAIN next = 1 .. Len(game) + 1
      /\ \A i \in 1 .. Len(game) : next[i] = game[i]
      /\ next[Len(game) + 1] = think
  BY <1>2, <1>3
<1> HIDE DEF next
<1>5. next \in Seq({next[i] : i \in DOMAIN next})
  BY <1>4, OwnRange
<1>6. ASSUME NEW i \in DOMAIN next
      PROVE  \E ids \in SUBSET EngineId : next[i] \in [ids -> Seq(Event)]
  <2>1. CASE i \in 1 .. Len(game)
    BY <1>4, <2>1 DEF IsGame
  <2>2. CASE i = Len(game) + 1
    BY <1>1, <1>4, <2>2
  <2> QED
    BY <1>4, <2>1, <2>2
<1> QED
  BY <1>5, <1>6 DEF IsGame, ApplyAndThink, next, think

LEMMA ThinkTyped ==
  ASSUME NEW prev, IsFrameData(prev), NEW data, IsFrameData(data)
  PROVE  IsFrameData(ThinkFrame(prev, data))
<1> DEFINE engines == ApplyEngineEvents(prev.info, data.bundle)
           game == ApplyAndThink(prev.game, engines, data.bundle)
<1>1. engines \subseteq EngineId
  BY DEF ApplyEngineEvents
<1>2. IsGame(game)
  BY <1>1, GameTyped DEF IsFrameData
<1>3. ThinkFrame(prev, data) = [data EXCEPT !.info = engines, !.game = game]
  BY DEF ThinkFrame
<1> HIDE DEF engines, game
<1>4. data = [info |-> data.info, game |-> data.game, bundle |-> data.bundle, made |-> data.made]
  BY DEF IsFrameData
<1>5. ThinkFrame(prev, data)
        = [info |-> engines, game |-> game, bundle |-> data.bundle, made |-> data.made]
  BY <1>3, <1>4
<1>6. data.made \in BOOLEAN /\ IsEventBundle(data.bundle)
  BY DEF IsFrameData
<1> QED
  BY <1>1, <1>2, <1>5, <1>6 DEF IsFrameData

LEMMA BundleTyped ==
  ASSUME NEW data, IsFrameData(data), NEW bundle, IsEventBundle(bundle)
  PROVE  IsFrameData([data EXCEPT !.bundle = bundle])
<1>1. data = [info |-> data.info, game |-> data.game, bundle |-> data.bundle, made |-> data.made]
  BY DEF IsFrameData
<1>2. [data EXCEPT !.bundle = bundle]
        = [info |-> data.info, game |-> data.game, bundle |-> bundle, made |-> data.made]
  BY <1>1
<1> QED
  BY <1>2 DEF IsFrameData

(* The rethink loop.                                                       *)
LEMMA RethinkTyped ==
  ASSUME NEW v, Typed(v), v.first < v.oldest_dirty_frame
  PROVE  \A f \in Window(v.first) : IsFrameData(Rethink(v)[f])
<1> DEFINE data == Rethink(v)
           W == Window(v.first)
           S == {n \in Nat : \A f \in W : f <= v.first + n => IsFrameData(data[f])}
<1>1. v.first \in Nat /\ v.oldest_dirty_frame \in Nat /\ v.global_frame \in Nat
  BY WindowRange DEF Typed
<1>2. data = [f \in W |-> IF f \in v.oldest_dirty_frame .. v.global_frame
                            THEN ThinkFrame(data[f - 1], v.data[f]) ELSE v.data[f]]
  BY <1>1, RethinkDef
<1> HIDE DEF data
<1>3. \A f \in W : IsFrameData(v.data[f])
  BY DEF Typed
<1>4. \A f : f \in W <=> f \in Nat /\ v.first <= f /\ f <= v.first + Max_frames
  BY <1>1, WindowRange
<1> HIDE DEF W
<1>5. 0 \in S
  <2>1. ASSUME NEW f \in W, f <= v.first + 0 PROVE IsFrameData(data[f])
    <3>1. f \notin v.oldest_dirty_frame .. v.global_frame
      BY <1>1, <1>4, <2>1
    <3> QED
      BY <1>2, <1>3, <3>1
  <2> QED
    BY <2>1
<1>6. ASSUME NEW n \in Nat, n \in S PROVE n + 1 \in S
  <2>1. ASSUME NEW f \in W, f <= v.first + (n + 1) PROVE IsFrameData(data[f])
    <3>1. CASE f \in v.oldest_dirty_frame .. v.global_frame
      <4>1. f - 1 \in W /\ f - 1 <= v.first + n
        BY <1>1, <1>4, <2>1, <3>1
      <4>2. IsFrameData(data[f - 1])
        BY <1>6, <4>1
      <4>3. data[f] = ThinkFrame(data[f - 1], v.data[f])
        BY <1>2, <3>1
      <4> QED
        BY <1>3, <4>2, <4>3, ThinkTyped
    <3>2. CASE f \notin v.oldest_dirty_frame .. v.global_frame
      BY <1>2, <1>3, <3>2
    <3> QED
      BY <3>1, <3>2
  <2> QED
    BY <2>1
<1>7. Nat \subseteq S
  <2> HIDE DEF S
  <2> QED
    BY <1>5, <1>6, SetInduction
<1>8. Max_frames \in S
  BY <1>7
<1> QED
  BY <1>4, <1>8 DEF W, data

LEMMA advanceTyped ==
  ASSUME NEW v, Typed(v)
  PROVE  Typed(advance(v))
<1> DEFINE w == advance(v)
<1>1. /\ v.first \in Nat /\ v.oldest_dirty_frame \in Nat /\ v.global_frame \in Nat
      /\ v.first <= v.global_frame /\ v.global_frame <= v.first + Max_frames
      /\ DOMAIN v = UpdaterFields
  BY WindowRange DEF Typed
<1>2. CASE v.panicked
  BY <1>2 DEF advance
<1>3. CASE ~v.panicked /\ ~InWindow(v, v.oldest_dirty_frame - 1)
  BY <1>3, PanicTyped DEF advance
<1>4. CASE ~v.panicked /\ InWindow(v, v.oldest_dirty_frame - 1)
  <2> DEFINE data == Rethink(v)
             start == NewStart(v, data)
             past == DOMAIN v.bootstrap_frames
             rotated == Rotated(data, v.first, start)
             sent == [f \in past \cup (v.first + 1 .. start) |->
                        IF f \in past THEN v.bootstrap_frames[f]
                        ELSE [info |-> data[f].info, game |-> data[f].game]]
             left == ServedUpTo(v.final_requests, v.first, start)
  <2>1. w = [v EXCEPT !.first = start, !.data = rotated,
                      !.oldest_dirty_frame = v.global_frame + 1,
                      !.bootstrap_frames = sent, !.final_requests = left]
    BY <1>4 DEF advance
  <2>2. v.first < v.oldest_dirty_frame
    BY <1>1, <1>4, WindowRange DEF InWindow
  <2>3. \A f \in Window(v.first) : IsFrameData(data[f])
    BY <2>2, RethinkTyped
  <2>4. start \in v.first .. v.global_frame
    BY <1>1, NewStartDef
  <2> HIDE DEF data, start
  <2>5. start \in Nat /\ v.first <= start /\ start <= v.global_frame
    BY <1>1, <2>4
  <2>6. v.global_frame \in Window(start)
    BY <1>1, <2>5, WindowRange
  <2>7. DOMAIN rotated = Window(start) /\ \A f \in Window(start) : IsFrameData(rotated[f])
    <3>1. ASSUME NEW f \in Window(start) PROVE IsFrameData(rotated[f])
      <4>1. f \in Nat /\ start <= f /\ f <= start + Max_frames
        BY <2>5, WindowRange
      <4>2. CASE f \in Window(v.first)
        <5>1. rotated[f] = data[f]
          BY <4>2 DEF Rotated
        <5> QED
          BY <2>3, <4>2, <5>1
      <4>3. CASE f \notin Window(v.first)
        <5>1. rotated[f] = data[f - (Max_frames + 1)]
          BY <4>3 DEF Rotated
        <5>2. f > v.first + Max_frames
          BY <1>1, <2>5, <4>1, <4>3, WindowRange
        <5>3. f - (Max_frames + 1) \in Window(v.first)
          <6> DEFINE g == f - (Max_frames + 1)
          <6>1. g \in Nat /\ v.first <= g /\ g <= v.first + Max_frames
            BY <1>1, <2>5, <4>1, <5>2
          <6> HIDE DEF g
          <6> QED
            BY <1>1, <6>1, WindowRange DEF g
        <5> QED
          BY <2>3, <5>1, <5>3
      <4> QED
        BY <4>2, <4>3
    <3> QED
      BY <3>1 DEF Rotated
  <2>8. \A f \in DOMAIN sent : sent[f].info \subseteq EngineId /\ IsGame(sent[f].game)
    <3>1. ASSUME NEW f \in v.first + 1 .. start
          PROVE  data[f].info \subseteq EngineId /\ IsGame(data[f].game)
      <4>1. f \in Window(v.first)
        BY <1>1, <2>5, WindowRange
      <4> QED
        BY <2>3, <4>1 DEF IsFrameData
    <3>2. \A f \in past :
            /\ v.bootstrap_frames[f].info \subseteq EngineId
            /\ IsGame(v.bootstrap_frames[f].game)
      BY DEF Typed
    <3> QED
      BY <3>1, <3>2
  <2>9. left \in Seq(RequestType)
    BY <1>1, <2>5, ServedUpToKeeps DEF Typed
  <2> HIDE DEF rotated, sent, left
  <2>10. /\ DOMAIN w = UpdaterFields
         /\ w.id = v.id /\ w.first = start /\ w.data = rotated
         /\ w.global_frame = v.global_frame /\ w.oldest_dirty_frame = v.global_frame + 1
         /\ w.local_frame = v.local_frame /\ w.skip_to_frame = v.skip_to_frame
         /\ w.bootstrap_frames = sent /\ w.panicked = v.panicked
         /\ w.final_requests = left /\ w.fast_requests = v.fast_requests
    BY <1>1, <2>1 DEF UpdaterFields
  <2> HIDE DEF w
  <2>11. v.global_frame + 1 \in Nat
    BY <1>1
  <2>12. /\ v.id = Self /\ v.local_frame \in Nat
         /\ v.skip_to_frame \in Nat \cup {-1} /\ v.panicked \in BOOLEAN
         /\ v.fast_requests \in Seq(RequestType)
    BY DEF Typed
  <2>13. Typed(w)
    BY <2>5, <2>6, <2>7, <2>8, <2>9, <2>10, <2>11, <2>12 DEF Typed
  <2> QED
    BY <2>13 DEF w
<1> QED
  BY <1>2, <1>3, <1>4

-----------------------------------------------------------------------------
(* The operators that run before advance().                                *)

LEMMA InitFramesTyped ==
  ASSUME NEW v, Typed(v), NEW frame \in Nat
  PROVE  Typed(InitFrames(v, frame))
<1> DEFINE last == v.data[Greater(v.global_frame, v.first)]
           fresh == {f \in v.global_frame + 1 .. frame : f > v.first}
           data == [f \in DOMAIN v.data |->
                      IF f \in fresh THEN FrameData(last.info, v.data[f].game, EmptyBundle)
                      ELSE v.data[f]]
           w == [v EXCEPT !.data = data]
<1>1. CASE InitFrames(v, frame) = Panic(v)
  BY <1>1, PanicTyped
<1>2. CASE InitFrames(v, frame) = w
  <2>1. /\ v.first \in Window(v.first) /\ v.global_frame \in Window(v.first)
        /\ v.first \in Nat /\ v.global_frame \in Nat
        /\ DOMAIN v.data = Window(v.first) /\ \A f \in Window(v.first) : IsFrameData(v.data[f])
    BY WindowRange DEF Typed
  <2>2. IsFrameData(last)
    BY <2>1, LesserOrGreater
  <2> HIDE DEF last
  <2>3. ASSUME NEW f \in Window(v.first)
        PROVE  IsFrameData(FrameData(last.info, v.data[f].game, EmptyBundle))
    BY <2>1, <2>2, SlotTyped, EmptyTyped DEF IsFrameData
  <2> HIDE DEF fresh
  <2>4. DOMAIN data = Window(v.first) /\ \A f \in Window(v.first) : IsFrameData(data[f])
    BY <2>1, <2>3
  <2> HIDE DEF data
  <2>5. DOMAIN v = UpdaterFields
    BY DEF Typed
  <2>6. /\ DOMAIN w = UpdaterFields /\ w.panicked = v.panicked
        /\ w.id = v.id /\ w.first = v.first /\ w.data = data
        /\ w.global_frame = v.global_frame /\ w.oldest_dirty_frame = v.oldest_dirty_frame
        /\ w.local_frame = v.local_frame /\ w.skip_to_frame = v.skip_to_frame
        /\ w.bootstrap_frames = v.bootstrap_frames
        /\ w.final_requests = v.final_requests /\ w.fast_requests = v.fast_requests
    BY <2>5 DEF UpdaterFields
  <2> HIDE DEF w
  <2>7. Typed(w)
    BY <2>4, <2>6 DEF Typed
  <2> QED
    BY <1>2, <2>7
<1> QED
  BY <1>1, <1>2 DEF InitFrames

LEMMA StoreTyped ==
  ASSUME NEW v, Typed(v), NEW fb, fb.frame \in Nat, IsEventBundle(fb.bundle)
  PROVE  Typed(Store(v, fb))
<1> DEFINE frame == fb.frame
           slot == [v.data[frame] EXCEPT !.bundle = Absorb(@, fb.bundle)]
           data == [v.data EXCEPT ![frame] = slot]
           w == Store(v, fb)
<1>1. CASE w = v \/ w = Panic(v)
  BY <1>1, PanicTyped
<1>2. CASE ~(w = v \/ w = Panic(v))
  <2>1. InWindow(v, frame)
    BY <1>2 DEF Store
  <2>2. frame \in Window(v.first)
    BY <2>1 DEF InWindow
  <2>3. w = [v EXCEPT !.global_frame = Greater(v.global_frame, frame),
                      !.oldest_dirty_frame = Lesser(v.oldest_dirty_frame, frame),
                      !.data = data]
    BY <1>2 DEF Store
  <2>4. IsFrameData(v.data[frame])
    BY <2>2 DEF Typed
  <2>5. IsFrameData(slot)
    BY <2>4, AbsorbTyped, BundleTyped DEF IsFrameData
  <2> HIDE DEF slot
  <2>6. DOMAIN data = Window(v.first) /\ \A f \in Window(v.first) : IsFrameData(data[f])
    BY <2>5 DEF Typed
  <2>7. Greater(v.global_frame, frame) \in Window(v.first)
    BY <2>2 DEF Greater, Typed
  <2>8. Lesser(v.oldest_dirty_frame, frame) \in Nat
    BY DEF Lesser, Typed
  <2>9. DOMAIN v = UpdaterFields
    BY DEF Typed
  <2> HIDE DEF w, data
  <2>10. /\ DOMAIN w = UpdaterFields /\ w.panicked = v.panicked
         /\ w.id = v.id /\ w.first = v.first /\ w.data = data
         /\ w.global_frame = Greater(v.global_frame, frame)
         /\ w.oldest_dirty_frame = Lesser(v.oldest_dirty_frame, frame)
         /\ w.local_frame = v.local_frame /\ w.skip_to_frame = v.skip_to_frame
         /\ w.bootstrap_frames = v.bootstrap_frames
         /\ w.final_requests = v.final_requests /\ w.fast_requests = v.fast_requests
    BY <2>3, <2>9 DEF UpdaterFields
  <2> QED
    BY <2>6, <2>7, <2>8, <2>10 DEF Typed, w
<1> QED
  BY <1>1, <1>2

(* One counter, or one queue, changes.                                     *)
LEMMA FieldTyped ==
  ASSUME NEW v, Typed(v), NEW w,
         \/ \E frame \in Nat : w = [v EXCEPT !.local_frame = frame]
         \/ \E frame \in Nat : w = [v EXCEPT !.skip_to_frame = frame]
         \/ \E requests \in Seq(RequestType) : w = [v EXCEPT !.final_requests = requests]
         \/ \E requests \in Seq(RequestType) : w = [v EXCEPT !.fast_requests = requests]
  PROVE  Typed(w)
<1>1. DOMAIN v = UpdaterFields
  BY DEF Typed
<1>2. /\ DOMAIN w = UpdaterFields /\ w.panicked = v.panicked
      /\ w.id = v.id /\ w.first = v.first /\ w.data = v.data
      /\ w.global_frame = v.global_frame /\ w.oldest_dirty_frame = v.oldest_dirty_frame
      /\ w.bootstrap_frames = v.bootstrap_frames
      /\ w.local_frame = v.local_frame \/ w.local_frame \in Nat
      /\ w.skip_to_frame = v.skip_to_frame \/ w.skip_to_frame \in Nat
      /\ w.final_requests = v.final_requests \/ w.final_requests \in Seq(RequestType)
      /\ w.fast_requests = v.fast_requests \/ w.fast_requests \in Seq(RequestType)
  BY <1>1 DEF UpdaterFields
<1> QED
  BY <1>2 DEF Typed

LEMMA FillSkippedTyped ==
  ASSUME NEW v, Typed(v), v.skip_to_frame # -1, NEW frame \in Nat
  PROVE  Typed(FillSkipped(v, frame))
<1> DEFINE dummy == Only(v.id, NoEvents)
           skipped == Skipped(v, frame)
           data == [f \in DOMAIN v.data |->
                      IF f \in skipped THEN [v.data[f] EXCEPT !.bundle = Absorb(@, dummy)]
                      ELSE v.data[f]]
           w == [v EXCEPT !.oldest_dirty_frame = Lesser(v.oldest_dirty_frame, v.skip_to_frame),
                          !.data = data, !.skip_to_frame = 0]
<1>1. CASE FillSkipped(v, frame) \in {v, Panic(v)}
  BY <1>1, PanicTyped
<1>2. CASE FillSkipped(v, frame) = w
  <2>1. IsEventBundle(dummy)
    <3>1. dummy \in [{Self} -> AllEvents]
      BY DEF Typed, Only, NoEvents, AllEvents
    <3> QED
      BY <3>1, Constants DEF IsEventBundle
  <2> HIDE DEF dummy, skipped
  <2>2. ASSUME NEW f \in Window(v.first)
        PROVE  IsFrameData([v.data[f] EXCEPT !.bundle = Absorb(@, dummy)])
    <3>1. IsFrameData(v.data[f])
      BY DEF Typed
    <3> QED
      BY <2>1, <3>1, AbsorbTyped, BundleTyped DEF IsFrameData
  <2>3. DOMAIN data = Window(v.first) /\ \A f \in Window(v.first) : IsFrameData(data[f])
    BY <2>2 DEF Typed
  <2>4. Lesser(v.oldest_dirty_frame, v.skip_to_frame) \in Nat
    BY DEF Lesser, Typed
  <2>5. DOMAIN v = UpdaterFields
    BY DEF Typed
  <2> HIDE DEF data
  <2>6. /\ DOMAIN w = UpdaterFields /\ w.panicked = v.panicked
        /\ w.id = v.id /\ w.first = v.first /\ w.data = data
        /\ w.global_frame = v.global_frame
        /\ w.oldest_dirty_frame = Lesser(v.oldest_dirty_frame, v.skip_to_frame)
        /\ w.local_frame = v.local_frame /\ w.skip_to_frame = 0
        /\ w.bootstrap_frames = v.bootstrap_frames
        /\ w.final_requests = v.final_requests /\ w.fast_requests = v.fast_requests
    BY <2>5 DEF UpdaterFields
  <2> HIDE DEF w
  <2>7. Typed(w)
    BY <2>3, <2>4, <2>6 DEF Typed
  <2> QED
    BY <1>2, <2>7
<1> QED
  BY <1>1, <1>2 DEF FillSkipped

LEMMA AbsorbRemoteTyped ==
  ASSUME NEW v, Typed(v), NEW fb, fb.frame \in Nat, IsEventBundle(fb.bundle)
  PROVE  Typed(AbsorbRemote(v, fb))
<1> DEFINE ready == InitFrames(v, fb.frame)
           noticed == NoticeJoin(ready, fb)
<1>1. Typed(ready)
  BY InitFramesTyped
<1> HIDE DEF ready
<1>2. Typed(noticed)
  BY <1>1, FieldTyped DEF NoticeJoin
<1> HIDE DEF noticed
<1>3. Typed(Store(noticed, fb))
  BY <1>2, StoreTyped
<1> QED
  BY <1>3 DEF AbsorbRemote, noticed, ready

(* The handlers.                                                           *)
LEMMA HandleRemoteTyped ==
  ASSUME NEW v, Typed(v), NEW group, Len(group) \in Nat,
         \A i \in 1 .. Len(group) : group[i].frame \in Nat /\ IsEventBundle(group[i].bundle)
  PROVE  Typed(HandleRemote(v, group))
<1> DEFINE after == AbsorbGroup(v, group)
           S == {n \in Nat : n <= Len(group) => Typed(after[n])}
<1>1. after = [i \in 0 .. Len(group) |->
                 IF i = 0 THEN v ELSE AbsorbRemote(after[i - 1], group[i])]
  BY AbsorbGroupDef
<1> HIDE DEF after
<1>2. 0 \in S
  BY <1>1
<1>3. ASSUME NEW n \in Nat, n \in S PROVE n + 1 \in S
  <2> SUFFICES ASSUME n + 1 <= Len(group) PROVE Typed(after[n + 1])
    OBVIOUS
  <2>1. after[n + 1] = AbsorbRemote(after[n], group[n + 1]) /\ n + 1 \in 1 .. Len(group)
    BY <1>1
  <2>2. Typed(after[n])
    BY <1>3
  <2> QED
    BY <2>1, <2>2, AbsorbRemoteTyped
<1>4. Nat \subseteq S
  <2> HIDE DEF S
  <2> QED
    BY <1>2, <1>3, SetInduction
<1>5. Typed(after[Len(group)])
  BY <1>4
<1> QED
  BY <1>5, advanceTyped DEF HandleRemote, after

LEMMA FastRequestsTyped ==
  ASSUME NEW v, Typed(v)
  PROVE  Typed(fulfillFastRequests(v))
<1> DEFINE left == Unserved(v.fast_requests, v.local_frame)
<1>1. left \in Seq(RequestType)
  BY UnservedKeeps DEF Typed
<1> HIDE DEF left
<1>2. Typed([v EXCEPT !.fast_requests = left])
  BY <1>1, FieldTyped
<1>3. fulfillFastRequests(v) \in {v, Panic(v), [v EXCEPT !.fast_requests = left]}
  BY DEF fulfillFastRequests, left
<1> QED
  BY <1>2, <1>3, PanicTyped

LEMMA HandleLocalTyped ==
  ASSUME NEW v, Typed(v), NEW fb, fb.frame \in Nat, IsEventBundle(fb.bundle)
  PROVE  Typed(HandleLocal(v, fb))
<1> DEFINE filled == FillSkipped(v, fb.frame)
           ticked == [filled EXCEPT !.local_frame = fb.frame]
           ready == InitFrames(ticked, fb.frame)
           stored == Store(ready, fb)
           advanced == advance(stored)
<1>1. CASE Discards(v, fb.frame)
  BY <1>1 DEF HandleLocal
<1>2. CASE ~Discards(v, fb.frame)
  <2>1. v.skip_to_frame # -1
    BY <1>2 DEF Discards
  <2>2. Typed(filled)
    BY <2>1, FillSkippedTyped
  <2> HIDE DEF filled
  <2>3. Typed(ticked)
    BY <2>2, FieldTyped
  <2> HIDE DEF ticked
  <2>4. Typed(ready)
    BY <2>3, InitFramesTyped
  <2> HIDE DEF ready
  <2>5. Typed(stored)
    BY <2>4, StoreTyped
  <2> HIDE DEF stored
  <2>6. Typed(advanced)
    BY <2>5, advanceTyped
  <2> HIDE DEF advanced
  <2>7. Typed(fulfillFastRequests(advanced))
    BY <2>6, FastRequestsTyped
  <2>8. HandleLocal(v, fb) \in {filled, fulfillFastRequests(advanced)}
    BY <1>2 DEF HandleLocal, filled, ticked, ready, stored, advanced
  <2> QED
    BY <2>2, <2>7, <2>8
<1> QED
  BY <1>1, <1>2

-----------------------------------------------------------------------------
(* The types are kept.                                                     *)

TypesInv == Typed(u) /\ \A f \in BaseFrame .. MaxFrame : IsEventBundle(issued[f])

LEMMA OnlyTyped ==
  ASSUME NEW id \in EngineId, NEW events \in MayIssue(id) \cup {NoEvents}
  PROVE  IsEventBundle(Only(id, events))
<1>1. events \in AllEvents
  <2>1. CASE events = NoEvents
    BY <2>1 DEF NoEvents, AllEvents
  <2>2. CASE events \in MayIssue(id)
    <3>1. events.game \in Inputs[id] /\ events.engine \in EngineEvents(id)
          /\ events = [game |-> events.game, engine |-> events.engine]
      BY <2>2 DEF MayIssue
    <3>2. events.game \in Seq(Event)
      BY <3>1, ConfigAssumption
    <3>3. \/ events.engine = <<>>
          \/ \E j \in Joiners : events.engine = <<EngineJoined(j)>>
          \/ \E d \in Droppable : events.engine = <<EngineDropped(d)>>
      BY <3>1 DEF EngineEvents
    <3>4. \A k \in Joiners \cup Droppable :
            EngineJoined(k) \in EngineEvent /\ EngineDropped(k) \in EngineEvent
      BY ConfigAssumption DEF EngineEvent
    <3>5. events.engine = <<>> \/ \E e \in EngineEvent : events.engine = <<e>>
      BY <3>3, <3>4
    <3>6. events.engine \in Seq(EngineEvent)
      <4>1. \A e \in EngineEvent : <<e>> \in Seq(EngineEvent)
        OBVIOUS
      <4>2. <<>> \in Seq(EngineEvent)
        OBVIOUS
      <4> HIDE DEF EngineEvent
      <4> QED
        BY <3>5, <4>1, <4>2, Zenon
    <3> QED
      BY <3>1, <3>2, <3>6 DEF AllEvents
  <2> QED
    BY <2>1, <2>2
<1>2. Only(id, events) \in [{id} -> AllEvents]
  BY <1>1 DEF Only
<1> QED
  BY <1>2 DEF IsEventBundle

LEMMA TypesInit == Init => TypesInv
<1> SUFFICES ASSUME Init PROVE TypesInv
  OBVIOUS
<1>1. /\ BaseFrame \in Nat /\ MaxFrame \in Nat /\ BaseFrame < MaxFrame
      /\ Self \in EngineId /\ Founders \subseteq EngineId
      /\ NoEvents \in AllEvents
  BY Constants DEF NoEvents, AllEvents
<1>2. IsEventBundle(EmptyBundle) /\ IsGame(<<>>)
  BY EmptyTyped DEF IsGame
<1>3. IsEventBundle([k \in Founders |-> NoEvents])
  <2>1. [k \in Founders |-> NoEvents] \in [Founders -> AllEvents]
    BY <1>1
  <2> QED
    BY <1>1, <2>1 DEF IsEventBundle
<1>4. ASSUME NEW f \in BaseFrame .. MaxFrame PROVE IsEventBundle(issued[f])
  BY <1>2, <1>3 DEF Init
<1>5. IsFrameData(ZeroFrameData(<<>>))
  BY <1>2 DEF IsFrameData, ZeroFrameData
<1>6. /\ IsFrameData(FrameData(Founders, <<>>, EmptyBundle))
      /\ IsFrameData(FrameData(Founders, <<>>, [k \in Founders |-> NoEvents]))
  BY <1>1, <1>2, <1>3, SlotTyped
<1>7. \A f : f \in Window(BaseFrame) <=>
               f \in Nat /\ BaseFrame <= f /\ f <= BaseFrame + Max_frames
  BY <1>1, WindowRange
<1> DEFINE first(data) == [f \in {BaseFrame} |->
                             [info |-> data[BaseFrame].info, game |-> data[BaseFrame].game]]
<1>8. CASE ~Bootstrapped
  <2> DEFINE given == FrameData(Founders, <<>>, EmptyBundle)
             data == [f \in Window(BaseFrame) |->
                        IF f = BaseFrame THEN given ELSE ZeroFrameData(given.game)]
  <2>1. u = NewUpdater(Self, BaseFrame, data)
    BY <1>8 DEF Init, Start
  <2>2. DOMAIN data = Window(BaseFrame) /\ \A f \in Window(BaseFrame) : IsFrameData(data[f])
    <3>1. given.game = <<>>
      BY DEF FrameData
    <3> HIDE DEF given
    <3> QED
      BY <1>5, <1>6, <3>1 DEF given
  <2> HIDE DEF data
  <2>3. BaseFrame \in Window(BaseFrame)
    BY <1>1, <1>7
  <2>4. data[BaseFrame].info \subseteq EngineId /\ IsGame(data[BaseFrame].game)
    BY <2>2, <2>3 DEF IsFrameData
  <2>5. /\ DOMAIN u = UpdaterFields
        /\ u.id = Self /\ u.first = BaseFrame /\ u.data = data
        /\ u.local_frame = BaseFrame /\ u.global_frame = BaseFrame
        /\ u.oldest_dirty_frame = BaseFrame + 1 /\ u.skip_to_frame = 0
        /\ u.final_requests = <<>> /\ u.fast_requests = <<>>
        /\ u.bootstrap_frames = first(data) /\ u.panicked = FALSE
    BY <2>1 DEF NewUpdater, UpdaterFields
  <2>6. <<>> \in Seq(RequestType) /\ BaseFrame + 1 \in Nat /\ 0 \in Nat \cup {-1}
    BY <1>1
  <2>7. \A f \in DOMAIN u.bootstrap_frames :
          u.bootstrap_frames[f].info \subseteq EngineId /\ IsGame(u.bootstrap_frames[f].game)
    BY <2>4, <2>5
  <2>8. Typed(u)
    BY <1>1, <2>2, <2>3, <2>5, <2>6, <2>7 DEF Typed
  <2> QED
    BY <1>4, <2>8 DEF TypesInv
<1>9. CASE Bootstrapped
  <2> DEFINE dummies == [k \in Founders |-> NoEvents]
             data == [f \in Window(BaseFrame) |->
                        CASE f = BaseFrame -> FrameData(Founders, <<>>, dummies)
                          [] f = BaseFrame + 1 -> FrameData(Founders, <<>>, EmptyBundle)
                          [] OTHER -> ZeroFrameData(<<>>)]
  <2>1. u = [NewUpdater(Self, BaseFrame, data) EXCEPT
               !.skip_to_frame = -1, !.local_frame = BaseFrame + 1,
               !.global_frame = BaseFrame + 1, !.oldest_dirty_frame = BaseFrame + 2]
    BY <1>9 DEF Init, Bootstrap, BootFrame
  <2>2. DOMAIN data = Window(BaseFrame) /\ \A f \in Window(BaseFrame) : IsFrameData(data[f])
    <3> HIDE DEF dummies
    <3> QED
      BY <1>5, <1>6 DEF dummies
  <2> HIDE DEF data
  <2>3. BaseFrame \in Window(BaseFrame) /\ BaseFrame + 1 \in Window(BaseFrame)
    BY <1>1, <1>7
  <2>4. data[BaseFrame].info \subseteq EngineId /\ IsGame(data[BaseFrame].game)
    BY <2>2, <2>3 DEF IsFrameData
  <2>5. /\ DOMAIN u = UpdaterFields
        /\ u.id = Self /\ u.first = BaseFrame /\ u.data = data
        /\ u.local_frame = BaseFrame + 1 /\ u.global_frame = BaseFrame + 1
        /\ u.oldest_dirty_frame = BaseFrame + 2 /\ u.skip_to_frame = -1
        /\ u.final_requests = <<>> /\ u.fast_requests = <<>>
        /\ u.bootstrap_frames = first(data) /\ u.panicked = FALSE
    BY <2>1 DEF NewUpdater, UpdaterFields
  <2>6. /\ <<>> \in Seq(RequestType) /\ BaseFrame + 1 \in Nat /\ BaseFrame + 2 \in Nat
        /\ -1 \in Nat \cup {-1}
    BY <1>1
  <2>7. \A f \in DOMAIN u.bootstrap_frames :
          u.bootstrap_frames[f].info \subseteq EngineId /\ IsGame(u.bootstrap_frames[f].game)
    BY <2>4, <2>5
  <2>8. Typed(u)
    BY <1>1, <2>2, <2>3, <2>5, <2>6, <2>7 DEF Typed
  <2> QED
    BY <1>4, <2>8 DEF TypesInv
<1> QED
  BY <1>8, <1>9

LEMMA TypesStep ==
  ASSUME IInv, TypesInv, [Next]_vars
  PROVE  TypesInv'
<1> USE DEF TypesInv
<1>1. /\ SessionInv /\ Self \in EngineId /\ clock \in Nat /\ u.id = Self
      /\ BaseFrame \in Nat /\ MaxFrame \in Nat /\ Frames = BaseFrame + 1 .. MaxFrame
  BY Constants DEF IInv, OwnInv, Frames, Typed
<1>2. CASE UNCHANGED vars
  BY <1>2 DEF vars
<1>3. ASSUME NEW id \in Peers, Issue(id) PROVE TypesInv'
  <2>1. PICK frame \in Frames, events \in MayIssue(id) :
          /\ issued' = [issued EXCEPT ![frame] = Absorb(@, Only(id, events))]
          /\ u' = u
    BY <1>3 DEF Issue
  <2>2. IsEventBundle(Only(id, events)) /\ frame \in BaseFrame .. MaxFrame
    BY <1>1, OnlyTyped DEF Peers
  <2>3. IsEventBundle(Absorb(issued[frame], Only(id, events)))
    BY <2>2, AbsorbTyped
  <2> QED
    BY <1>1, <2>1, <2>3 DEF SessionInv
<1>4. CASE LocalBundle
  <2>1. PICK events \in IF Discards(u, clock) THEN {NoEvents} ELSE MayIssue(Self) :
          LET fb == [frame |-> clock, bundle |-> Only(Self, events)]
              sent == Broadcast(u, fb)
              next == HandleLocal(u, fb)
          IN  /\ u' = Result(next)
              /\ issued' = IF next.panicked THEN issued
                           ELSE [f \in DOMAIN issued |->
                                   IF f \in DOMAIN sent THEN Absorb(issued[f], sent[f])
                                   ELSE issued[f]]
    BY <1>4 DEF LocalBundle
  <2> DEFINE fb == [frame |-> clock, bundle |-> Only(Self, events)]
             sent == Broadcast(u, fb)
             next == HandleLocal(u, fb)
  <2>2. IsEventBundle(Only(Self, events)) /\ IsEventBundle(Only(Self, NoEvents))
    BY <1>1, OnlyTyped
  <2>3. \A f \in DOMAIN sent : IsEventBundle(sent[f])
    BY <1>1, <2>2 DEF Broadcast
  <2>4. Typed(next)
    BY <1>1, <2>2, HandleLocalTyped
  <2>5. u' = Result(next) /\ issued' \in {issued, [f \in DOMAIN issued |->
                              IF f \in DOMAIN sent THEN Absorb(issued[f], sent[f]) ELSE issued[f]]}
    BY <2>1
  <2> HIDE DEF next, sent
  <2>6. Typed(u')
    BY <2>4, <2>5, PanicTyped DEF Result
  <2>7. ASSUME NEW f \in BaseFrame .. MaxFrame PROVE IsEventBundle(issued'[f])
    <3>1. f \in DOMAIN sent => IsEventBundle(Absorb(issued[f], sent[f]))
      BY <2>3, AbsorbTyped
    <3> QED
      BY <1>1, <2>5, <3>1 DEF SessionInv
  <2> QED
    BY <2>6, <2>7
<1>5. CASE RemoteBundles
  <2> DEFINE given(group) == [i \in DOMAIN group |-> Bundle(group[i])]
  <2>1. PICK group \in Groups : u' = Result(HandleRemote(u, given(group)))
    BY <1>5 DEF RemoteBundles
  <2> DEFINE bundles == given(group)
  <2>2. PICK n \in Nat :
          /\ Len(bundles) = n
          /\ \A i \in 1 .. n : group[i] \in inflight /\ bundles[i] = Bundle(group[i])
    <3> HIDE DEF bundles
    <3> QED
      BY <1>1, GroupGiven DEF bundles
  <2>3. ASSUME NEW i \in 1 .. n
        PROVE  bundles[i].frame \in Nat /\ IsEventBundle(bundles[i].bundle)
    <3> DEFINE p == group[i]
    <3>1. p[2] \in BaseFrame .. MaxFrame /\ p[1] \in DOMAIN issued[p[2]]
      BY <1>1, <2>2 DEF SessionInv
    <3>2. PICK ids \in SUBSET EngineId : issued[p[2]] \in [ids -> AllEvents]
      BY <3>1 DEF IsEventBundle
    <3>3. Only(p[1], issued[p[2]][p[1]]) \in [{p[1]} -> AllEvents] /\ {p[1]} \in SUBSET EngineId
      BY <3>1, <3>2 DEF Only
    <3>4. bundles[i].frame = p[2] /\ bundles[i].bundle = Only(p[1], issued[p[2]][p[1]])
      BY <2>2 DEF Bundle
    <3> HIDE DEF bundles, p
    <3> QED
      BY <1>1, <3>1, <3>3, <3>4 DEF IsEventBundle
  <2> HIDE DEF bundles
  <2>4. Typed(HandleRemote(u, bundles))
    BY <2>2, <2>3, HandleRemoteTyped
  <2>5. Typed(u')
    BY <2>1, <2>4, PanicTyped DEF Result, bundles
  <2>6. issued' = issued
    BY <1>5 DEF RemoteBundles
  <2> QED
    BY <2>5, <2>6
<1>6. ASSUME NEW c \in Callers, RequestFinalGameState(c) PROVE TypesInv'
  <2>1. PICK frame \in AskedFrames : u' = RequestFinal(u, [caller |-> c, frame |-> frame])
    BY <1>6 DEF RequestFinalGameState
  <2>2. [caller |-> c, frame |-> frame] \in RequestType
    BY ConfigAssumption DEF RequestType
  <2>3. Append(u.final_requests, [caller |-> c, frame |-> frame]) \in Seq(RequestType)
    BY <2>2 DEF Typed
  <2>4. \/ u' = u
        \/ u' = [u EXCEPT !.final_requests =
                   Append(u.final_requests, [caller |-> c, frame |-> frame])]
    BY <2>1 DEF RequestFinal
  <2>5. Typed(u')
    BY <2>3, <2>4, FieldTyped
  <2> QED
    BY <1>6, <2>5 DEF RequestFinalGameState
<1>7. ASSUME NEW c \in Callers, RequestFastGameState(c) PROVE TypesInv'
  <2>1. PICK frame \in AskedFrames : u' = RequestFast(u, [caller |-> c, frame |-> frame])
    BY <1>7 DEF RequestFastGameState
  <2>2. [caller |-> c, frame |-> frame] \in RequestType
    BY ConfigAssumption DEF RequestType
  <2>3. Append(u.fast_requests, [caller |-> c, frame |-> frame]) \in Seq(RequestType)
    BY <2>2 DEF Typed
  <2>4. \/ u' = u \/ u' = Panic(u)
        \/ u' = [u EXCEPT !.fast_requests =
                   Append(u.fast_requests, [caller |-> c, frame |-> frame])]
    BY <2>1 DEF RequestFast
  <2>5. Typed(u')
    BY <2>3, <2>4, FieldTyped, PanicTyped
  <2> QED
    BY <1>7, <2>5 DEF RequestFastGameState
<1>8. CASE Finished
  BY <1>2, <1>8 DEF Finished
<1> QED
  BY <1>2, <1>3, <1>4, <1>5, <1>6, <1>7, <1>8 DEF Next

(* Every field of the updater, of the session and of its callers keeps its *)
(* type in any session, whatever panics: the window has data for exactly   *)
(* its frames, and one bootstrap frame was sent for each frame up to its   *)
(* start.                                                                  *)
THEOREM TypeCorrect == Spec => []TypeOK
<1>1. Init => TypesInv
  BY TypesInit
<1>2. IInv /\ TypesInv /\ [Next]_vars => TypesInv'
  BY TypesStep
<1>3. IInv /\ CallsInv /\ TypesInv => TypeOK
  <2> SUFFICES ASSUME IInv, CallsInv, TypesInv PROVE TypeOK
    OBVIOUS
  <2>1. /\ BaseFrame \in Nat /\ MaxFrame \in Nat
        /\ SessionInv /\ SentInv /\ OwnInv /\ Typed(u)
        /\ \A f \in BaseFrame .. MaxFrame : IsEventBundle(issued[f])
    BY Constants DEF IInv, TypesInv
  <2>2. {u.local_frame, u.global_frame, u.oldest_dirty_frame} \subseteq Nat
    BY <2>1, WindowRange DEF Typed
  <2>3. ASSUME NEW p \in inflight PROVE p \in EngineId \X (BaseFrame .. MaxFrame)
    <3>1. /\ p = <<p[1], p[2]>>
          /\ p[2] \in BaseFrame .. MaxFrame /\ p[1] \in DOMAIN issued[p[2]]
      BY <2>1 DEF SessionInv
    <3>2. DOMAIN issued[p[2]] \subseteq EngineId
      BY <2>1, <3>1 DEF IsEventBundle
    <3> QED
      BY <3>1, <3>2
  <2>4. u.first \in BaseFrame .. MaxFrame
    BY <2>1 DEF SentInv
  <2>5. DOMAIN u.bootstrap_frames = BaseFrame .. u.first
    BY <2>1 DEF SentInv
  <2>6. DOMAIN calls = Callers
    BY DEF CallsInv
  <2> QED
    BY <2>1, <2>2, <2>3, <2>4, <2>5, <2>6 DEF TypeOK, Typed, SessionInv, OwnInv
<1>4. Spec => []CallsInv
  BY CallsInvariance
<1> QED
  BY <1>1, <1>2, <1>3, <1>4, Invariance, PTL DEF Spec

-----------------------------------------------------------------------------
(* The log of final states, by itself.                                     *)

(* The log has no holes and starts at BaseFrame.                           *)
Gapless(log) ==
  /\ BaseFrame \in DOMAIN log
  /\ \A f \in DOMAIN log \ {BaseFrame} : f \in Frames /\ f - 1 \in DOMAIN log

LogInv == Gapless(u.bootstrap_frames) /\ Abstract!LogFollowsIssued

(* Bundles issued for a final frame leave its outcome as it is.            *)
LEMMA OutcomeIsSettled ==
  ASSUME LogInv, Abstract!Issue, NEW f \in DOMAIN u.bootstrap_frames \ {BaseFrame}
  PROVE  Abstract!Outcome(u.bootstrap_frames[f - 1], issued'[f]) = u.bootstrap_frames[f]
<1> DEFINE log == u.bootstrap_frames
           engines == ApplyEngineEvents(log[f - 1].info, issued[f])
<1>1. f \in Frames /\ log[f] = Abstract!Outcome(log[f - 1], issued[f])
  BY DEF LogInv, Gapless, Abstract!LogFollowsIssued, Abstract!Follows
<1>2. SubBundle(issued[f], issued'[f])
  BY <1>1 DEF Abstract!Issue, Abstract!Frames, Frames, SubBundle
<1>3. log[f] = [info |-> engines, game |-> ApplyAndThink(log[f - 1].game, engines, issued[f])]
  BY <1>1, SameOutcome
<1>4. NothingMissing(issued[f], issued'[f], engines)
  <2>1. log[f].info = engines
    <3> HIDE DEF engines
    <3> QED
      BY <1>3
  <2>2. \A id \in DOMAIN issued'[f] \ DOMAIN issued[f] :
          id \notin log[f].info /\ issued'[f][id].engine = <<>>
    BY <1>1 DEF Abstract!Issue, Abstract!Frames, Frames
  <2> HIDE DEF engines
  <2> QED
    BY <2>1, <2>2 DEF NothingMissing
<1> QED
  BY <1>2, <1>3, <1>4, LateBundlesChangeNothing, SameOutcome

(* Every final state is, and stays, the outcome of all bundles ever issued *)
(* for its frame: a bundle that is late cannot have mattered.              *)
THEOREM LogIsDetermined == Abstract!Spec => []Abstract!LogFollowsIssued
<1> DEFINE log == u.bootstrap_frames
<1>1. Abstract!Init => LogInv
  BY DEF Abstract!Init, LogInv, Gapless, Abstract!LogFollowsIssued, Abstract!Follows
<1>2. LogInv /\ [Abstract!Next]_(Abstract!vars) => LogInv'
  <2> SUFFICES ASSUME LogInv, [Abstract!Next]_(Abstract!vars) PROVE LogInv'
    OBVIOUS
  <2>1. CASE Abstract!Next
    <3>1. Gapless(log)'
      BY <2>1 DEF Abstract!Next, Abstract!Extend, Abstract!Frames, Frames, LogInv, Gapless
    <3>2. ASSUME NEW f \in DOMAIN log' \ {BaseFrame}
          PROVE  log'[f] = Abstract!Outcome(log'[f - 1], issued'[f])
      <4>1. CASE f \in DOMAIN log
        <5>1. f - 1 \in DOMAIN log
          BY <4>1 DEF LogInv, Gapless
        <5>2. log'[f] = log[f] /\ log'[f - 1] = log[f - 1]
          BY <2>1, <4>1, <5>1 DEF Abstract!Next, Abstract!Extend
        <5> QED
          BY <2>1, <4>1, <5>2, OutcomeIsSettled DEF Abstract!Next
      <4>2. CASE f \notin DOMAIN log
        BY <2>1, <4>2 DEF Abstract!Next, Abstract!Extend
      <4> QED
        BY <4>1, <4>2
    <3> QED
      BY <3>1, <3>2 DEF LogInv, Abstract!LogFollowsIssued, Abstract!Follows
  <2>2. CASE UNCHANGED Abstract!vars
    BY <2>2 DEF Abstract!vars, LogInv, Gapless, Abstract!LogFollowsIssued, Abstract!Follows
  <2> QED
    BY <2>1, <2>2
<1> QED
  BY <1>1, <1>2, PTL DEF Abstract!Spec, LogInv

(* Lockstep agreement: two engines whose logs follow the same bundles from *)
(* the same base state hold the same engines and the same Game on every    *)
(* frame that is final at both, however far apart they are.                *)
THEOREM FinalStatesAgree ==
  ASSUME NEW bundles, NEW one, NEW other, NEW n \in Nat, NEW m \in Nat,
         DOMAIN one = BaseFrame .. n, DOMAIN other = BaseFrame .. m,
         one[BaseFrame] = other[BaseFrame],
         Abstract!Follows(one, bundles), Abstract!Follows(other, bundles)
  PROVE  \A f \in DOMAIN one \cap DOMAIN other : one[f] = other[f]
<1>0. BaseFrame \in Nat
  BY Constants
<1> DEFINE S == {k \in Nat : BaseFrame + k \in DOMAIN one \cap DOMAIN other
                               => one[BaseFrame + k] = other[BaseFrame + k]}
<1>1. 0 \in S
  BY <1>0
<1>2. ASSUME NEW k \in Nat, k \in S PROVE k + 1 \in S
  <2> DEFINE f == BaseFrame + (k + 1)
  <2> SUFFICES ASSUME f \in DOMAIN one \cap DOMAIN other PROVE one[f] = other[f]
    OBVIOUS
  <2>1. f - 1 = BaseFrame + k /\ f # BaseFrame /\ f - 1 \in DOMAIN one \cap DOMAIN other
    BY <1>0
  <2>2. one[f - 1] = other[f - 1]
    BY <1>2, <2>1
  <2>3. one[f] = Abstract!Outcome(one[f - 1], bundles[f]) /\ other[f] = Abstract!Outcome(other[f - 1], bundles[f])
    BY <2>1 DEF Abstract!Follows
  <2> QED
    BY <2>2, <2>3
<1>3. Nat \subseteq S
  <2> HIDE DEF S
  <2> QED
    BY <1>1, <1>2, SetInduction
<1> SUFFICES ASSUME NEW f \in DOMAIN one \cap DOMAIN other PROVE one[f] = other[f]
  OBVIOUS
<1>4. f - BaseFrame \in Nat /\ BaseFrame + (f - BaseFrame) = f
  BY <1>0
<1>5. f - BaseFrame \in S
  BY <1>3, <1>4
<1> QED
  BY <1>4, <1>5
=============================================================================
