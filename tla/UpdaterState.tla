---------------------------- MODULE UpdaterState ----------------------------
(***************************************************************************)
(* The methods of core.Updater (core/updater.go) as operators on the       *)
(* struct's fields.  An updater is a record u:                             *)
(*                                                                         *)
(*   id                  Params.Id                                         *)
(*   first, data         data_window: data maps first .. first+Max_frames  *)
(*                       to a FrameData (the ring behind it: DataWindow)   *)
(*   local_frame, global_frame, oldest_dirty_frame, skip_to_frame          *)
(*   final_requests, fast_requests   sequences of [caller, frame]          *)
(*   bootstrap_frames    what was sent on Bootstrap_frames, by frame, with *)
(*                       the state the updater was given at its first frame*)
(*   panicked            a handler panicked, which ends the process        *)
(*                                                                         *)
(* Each handler of routine() is one operator that returns the new record.  *)
(***************************************************************************)
EXTENDS EventBundle, SequencesExt

CONSTANT Max_frames  \* Params.Max_frames; the window holds one frame more

ASSUME MaxFramesAssumption == Max_frames \in Nat \ {0}

-----------------------------------------------------------------------------
(* The window.                                                             *)

Window(first) == first .. first + Max_frames
InWindow(u, frame) == frame \in Window(u.first)
Panic(u) == [u EXCEPT !.panicked = TRUE]

Lesser(a, b) == IF a < b THEN a ELSE b
Greater(a, b) == IF a > b THEN a ELSE b

(* Advance() to the frame called start: the slots of the frames given up   *)
(* become the last frames of the window and keep their old contents.       *)
Rotated(data, first, start) ==
  [f \in Window(start) |->
     IF f \in Window(first) THEN data[f] ELSE data[f - (Max_frames + 1)]]

-----------------------------------------------------------------------------
(* Start and Bootstrap.                                                    *)

NewUpdater(id, frame, data) ==
  [id |-> id, first |-> frame, data |-> data,
   local_frame |-> frame, global_frame |-> frame,
   oldest_dirty_frame |-> frame + 1, skip_to_frame |-> 0,
   final_requests |-> <<>>, fast_requests |-> <<>>,
   bootstrap_frames |->
     [f \in {frame} |-> [info |-> data[frame].info, game |-> data[frame].game]],
   panicked |-> FALSE]

Start(id, frame, data) ==
  NewUpdater(id, frame,
    [f \in Window(frame) |-> IF f = frame THEN data ELSE ZeroFrameData(data.game)])

(* Bootstrap with a bug: nothing holds back the frame after the first.     *)
BootstrapUnguarded(id, boot) ==
  LET dummy_bundles == [k \in boot.info |-> NoEvents]
      data == [f \in Window(boot.frame) |->
                 CASE f = boot.frame -> FrameData(boot.info, boot.game, dummy_bundles)
                   [] f = boot.frame + 1 -> FrameData({}, boot.game, EmptyBundle)
                   [] OTHER -> ZeroFrameData(boot.game)]
  IN  [NewUpdater(id, boot.frame, data) EXCEPT
         !.skip_to_frame = -1,
         !.local_frame = boot.frame + 1,
         !.global_frame = boot.frame + 1,
         !.oldest_dirty_frame = boot.frame + 2]

(* A client starts from the host's complete frame boot.frame; the frame    *)
(* after it gets the host's info so that it cannot complete too early.     *)
Bootstrap(id, boot) ==
  LET dummy_bundles == [k \in boot.info |-> NoEvents]
      data == [f \in Window(boot.frame) |->
                 CASE f = boot.frame -> FrameData(boot.info, boot.game, dummy_bundles)
                   [] f = boot.frame + 1 -> FrameData(boot.info, boot.game, EmptyBundle)
                   [] OTHER -> ZeroFrameData(boot.game)]
  IN  [NewUpdater(id, boot.frame, data) EXCEPT
         !.skip_to_frame = -1,
         !.local_frame = boot.frame + 1,
         !.global_frame = boot.frame + 1,
         !.oldest_dirty_frame = boot.frame + 2]

-----------------------------------------------------------------------------
(* advance().                                                              *)

(* Every frame from the oldest dirty one to the newest is recomputed from  *)
(* the frame before it.                                                    *)
Rethink(u) ==
  LET new[f \in Window(u.first)] ==
        IF f \in u.oldest_dirty_frame .. u.global_frame
          THEN ThinkFrame(new[f - 1], u.data[f])
          ELSE u.data[f]
  IN  new

(* NewStart with a bug: the window moves by one frame at most.             *)
NewStartOnce(u, data) ==
  IF u.first < u.global_frame /\ Complete(data[u.first + 1]) THEN u.first + 1 ELSE u.first

(* The window moves as long as its second frame is complete.               *)
NewStart(u, data) ==
  CHOOSE n \in u.first .. u.global_frame :
    /\ \A f \in u.first + 1 .. n : Complete(data[f])
    /\ n < u.global_frame => ~Complete(data[n + 1])

(* One pass over pending requests when frame becomes available: a request  *)
(* that is answered is replaced by the last one, and the index moves on.   *)
Serve(left, i, frame) ==
  IF i <= Len(left) /\ left[i].frame = frame
    THEN SubSeq([left EXCEPT ![i] = Last(left)], 1, Len(left) - 1)
    ELSE left
Unserved(requests, frame) ==
  LET left[i \in 0 .. Len(requests)] ==
        IF i = 0 THEN requests ELSE Serve(left[i - 1], i, frame)
  IN  left[Len(requests)]

(* One pass for each frame after first, up to start.                       *)
ServedUpTo(requests, first, start) ==
  LET left[f \in first .. start] ==
        IF f = first THEN requests ELSE Unserved(left[f - 1], f)
  IN  left[start]

(* advance with a bug: when several frames become final only the last one  *)
(* is sent.                                                                *)
advanceLastSent(u) ==
  IF u.panicked THEN u
  ELSE IF ~InWindow(u, u.oldest_dirty_frame - 1) THEN Panic(u)
  ELSE
    LET data == Rethink(u)
        start == NewStart(u, data)
        past == DOMAIN u.bootstrap_frames
    IN  [u EXCEPT
           !.first = start,
           !.data = Rotated(data, u.first, start),
           !.oldest_dirty_frame = u.global_frame + 1,
           !.bootstrap_frames =
              [f \in past \cup {start} |->
                 IF f \in past THEN u.bootstrap_frames[f]
                 ELSE [info |-> data[f].info, game |-> data[f].game]]]

advance(u) ==
  IF u.panicked THEN u
  ELSE IF ~InWindow(u, u.oldest_dirty_frame - 1) THEN Panic(u)
  ELSE
    LET data == Rethink(u)
        start == NewStart(u, data)
        past == DOMAIN u.bootstrap_frames
    IN  [u EXCEPT
           !.first = start,
           !.data = Rotated(data, u.first, start),
           !.oldest_dirty_frame = u.global_frame + 1,
           !.bootstrap_frames =
              [f \in past \cup (u.first + 1 .. start) |->
                 IF f \in past THEN u.bootstrap_frames[f]
                 ELSE [info |-> data[f].info, game |-> data[f].game]],
           !.final_requests = ServedUpTo(@, u.first, start)]

-----------------------------------------------------------------------------
(* The handlers of routine().                                              *)

(* InitFrames with a bug: a recycled slot keeps its bundle.                *)
InitFramesStale(u, frame) ==
  LET last == u.data[Greater(u.global_frame, u.first)]
      fresh == {f \in u.global_frame + 1 .. frame : f > u.first}
  IN  IF frame > u.global_frame /\ ~InWindow(u, frame) THEN Panic(u)
      ELSE [u EXCEPT !.data =
              [f \in DOMAIN u.data |->
                 IF f \in fresh THEN FrameData(last.info, u.data[f].game, u.data[f].bundle)
                 ELSE u.data[f]]]

(* initFrameData for every frame from global_frame + 1 to frame: the info  *)
(* of the last frame is carried forward and the bundles are emptied.  The  *)
(* frames up to the start of the window are left alone.                    *)
InitFrames(u, frame) ==
  LET last == u.data[Greater(u.global_frame, u.first)]
      fresh == {f \in u.global_frame + 1 .. frame : f > u.first}
  IN  IF frame > u.global_frame /\ ~InWindow(u, frame) THEN Panic(u)
      ELSE [u EXCEPT !.data =
              [f \in DOMAIN u.data |->
                 IF f \in fresh THEN FrameData(last.info, u.data[f].game, EmptyBundle)
                 ELSE u.data[f]]]

(* Store with a bug: the frame is not marked dirty.                        *)
StoreClean(u, fb) ==
  IF u.panicked THEN u
  ELSE IF ~InWindow(u, fb.frame) \/ CannotAbsorb(u.data[fb.frame], fb.bundle)
    THEN Panic(u)
  ELSE [u EXCEPT
          !.global_frame = Greater(@, fb.frame),
          !.data[fb.frame].bundle = Absorb(@, fb.bundle)]

(* The new frame counters and the bundle itself, once its slot is ready.   *)
Store(u, fb) ==
  IF u.panicked THEN u
  ELSE IF ~InWindow(u, fb.frame) \/ CannotAbsorb(u.data[fb.frame], fb.bundle)
    THEN Panic(u)
  ELSE [u EXCEPT
          !.global_frame = Greater(@, fb.frame),
          !.oldest_dirty_frame = Lesser(@, fb.frame),
          !.data[fb.frame].bundle = Absorb(@, fb.bundle)]

(* The frames for which an engine that has just learnt its join frame must *)
(* still supply a bundle: it missed them while local bundles were dropped. *)
Skipped(u, frame) == {f \in u.skip_to_frame .. frame - 1 : u.skip_to_frame > 0}

(* FillSkipped with a bug: the skipped frames are not marked dirty.        *)
FillSkippedClean(u, frame) ==
  LET dummy_bundle == Only(u.id, NoEvents)
      skipped == Skipped(u, frame)
      data == [f \in DOMAIN u.data |->
                 IF f \in skipped
                   THEN [u.data[f] EXCEPT !.bundle = Absorb(@, dummy_bundle)]
                   ELSE u.data[f]]
  IN  IF u.skip_to_frame = 0 THEN u
      ELSE IF \E f \in skipped : ~InWindow(u, f) \/ CannotAbsorb(u.data[f], dummy_bundle)
        THEN Panic(u)
      ELSE [u EXCEPT !.data = data, !.skip_to_frame = 0]

(* FillSkipped with a bug: the dummy bundles are broadcast only.           *)
FillSkippedElsewhere(u, frame) ==
  IF u.skip_to_frame = 0 THEN u
  ELSE [u EXCEPT !.oldest_dirty_frame = Lesser(@, u.skip_to_frame), !.skip_to_frame = 0]

FillSkipped(u, frame) ==
  LET dummy_bundle == Only(u.id, NoEvents)
      skipped == Skipped(u, frame)
      data == [f \in DOMAIN u.data |->
                 IF f \in skipped
                   THEN [u.data[f] EXCEPT !.bundle = Absorb(@, dummy_bundle)]
                   ELSE u.data[f]]
  IN  IF u.skip_to_frame = 0 THEN u
      ELSE IF \E f \in skipped : ~InWindow(u, f) \/ CannotAbsorb(u.data[f], dummy_bundle)
        THEN Panic(u)
      ELSE [u EXCEPT !.oldest_dirty_frame = Lesser(@, u.skip_to_frame),
                     !.data = data, !.skip_to_frame = 0]

Discards(u, frame) == u.skip_to_frame = -1 \/ frame < u.skip_to_frame

(* fulfillFastRequests with a bug: it looks at the wrong frame.            *)
fulfillFastRequestsGlobal(u) ==
  IF u.panicked THEN u
  ELSE [u EXCEPT !.fast_requests = Unserved(@, u.global_frame)]

fulfillFastRequests(u) ==
  IF u.panicked THEN u
  ELSE IF ~InWindow(u, u.local_frame) /\ \E i \in DOMAIN u.fast_requests :
                                           u.fast_requests[i].frame = u.local_frame
    THEN Panic(u)
  ELSE [u EXCEPT !.fast_requests = Unserved(@, u.local_frame)]

(* case local_bundle := <-u.Local_bundles                                  *)
HandleLocal(u, fb) ==
  LET filled == FillSkipped(u, fb.frame)
      ready == InitFrames([filled EXCEPT !.local_frame = fb.frame], fb.frame)
  IN  IF Discards(u, fb.frame) THEN u
      ELSE IF filled.panicked THEN filled
      ELSE fulfillFastRequests(advance(Store(ready, fb)))

(* What HandleLocal sends on Broadcast_bundles, by frame.                  *)
Broadcast(u, fb) ==
  [f \in IF Discards(u, fb.frame) THEN {} ELSE Skipped(u, fb.frame) \cup {fb.frame} |->
     IF f = fb.frame THEN fb.bundle ELSE Only(u.id, NoEvents)]

(* A bootstrapping engine looks for its own EngineJoined event.            *)
NoticeJoin(u, fb) ==
  IF u.skip_to_frame = -1 /\ Places(fb.bundle, EngineJoined(u.id)) # {}
    THEN [u EXCEPT !.skip_to_frame = fb.frame]
    ELSE u

(* AbsorbRemote with a bug: the first frame of the window, or the second,  *)
(* is on the wrong side of the test for old bundles.                       *)
AbsorbRemoteOld(u, fb) ==
  IF u.panicked \/ fb.frame < u.first THEN u
  ELSE Store(NoticeJoin(InitFrames(u, fb.frame), fb), fb)
AbsorbRemoteNew(u, fb) ==
  IF u.panicked \/ fb.frame <= u.first + 1 THEN u
  ELSE Store(NoticeJoin(InitFrames(u, fb.frame), fb), fb)

AbsorbRemote(u, fb) ==
  IF u.panicked \/ fb.frame <= u.first THEN u
  ELSE Store(NoticeJoin(InitFrames(u, fb.frame), fb), fb)

(* The updater after each of the bundles of a group.                       *)
AbsorbGroup(u, group) ==
  LET after[i \in 0 .. Len(group)] ==
        IF i = 0 THEN u ELSE AbsorbRemote(after[i - 1], group[i])
  IN  after

(* case remote_bundles := <-u.remote_bundles                               *)
HandleRemote(u, group) == advance(AbsorbGroup(u, group)[Len(group)])

-----------------------------------------------------------------------------
(* case req := <-u.request_state.  A request that is ready is answered at  *)
(* once with the response, any other is queued.                            *)

NoState == [found |-> FALSE, frame |-> 0, game |-> <<>>]
StateAt(u, frame) == [found |-> TRUE, frame |-> frame, game |-> u.data[frame].game]

(* The tests with an off-by-one, and the newest state of the wrong kind.   *)
FinalReadyLate(u, frame) == frame < u.first
FinalResponseNewest(u, frame) ==
  IF frame < 0 THEN StateAt(u, u.local_frame)
  ELSE IF frame = u.first THEN StateAt(u, u.first) ELSE NoState
FastReadyEarly(u, frame) == frame <= u.local_frame + 1 \/ frame < u.first

FinalReady(u, frame) == frame <= u.first
FinalResponse(u, frame) ==
  IF frame < 0 \/ frame = u.first THEN StateAt(u, u.first) ELSE NoState

FastReady(u, frame) == frame <= u.local_frame \/ frame < u.first
FastResponse(u, frame) ==
  CASE frame < 0 -> StateAt(u, u.local_frame)
    [] frame >= 0 /\ frame < u.first -> NoState
    [] OTHER -> StateAt(u, frame)

RequestFinal(u, req) ==
  IF FinalReady(u, req.frame) THEN u
  ELSE [u EXCEPT !.final_requests = Append(@, req)]

RequestFast(u, req) ==
  IF req.frame < 0 /\ ~InWindow(u, u.local_frame) THEN Panic(u)
  ELSE IF FastReady(u, req.frame) THEN u
  ELSE [u EXCEPT !.fast_requests = Append(@, req)]
=============================================================================
