# pnf: a verification project

`pnf` is a peer-to-peer network framework for deterministic games. Every
engine collects its player's events in frames, sends them to the other engines,
and applies everyone's events frame by frame. The engines agree because they
apply the same events in the same order to the same deterministic `Game`; they
stay responsive because each engine speculates ahead of what the others have
confirmed and recomputes ("rethinks") when late events arrive.

The project models that machinery in TLA+, model-checks it on small sessions
with TLC and proves its central properties for sessions of any size with TLAPS.

## The system

    Local_event, Local_engine_event          Ticker
                 |                             |
                 v                             |
              Bundler  <-----------------------+
                 | Local_bundles  (one FrameBundle per frame, unbuffered)
                 v
              Updater  ---- Bootstrap_frames ----> Communicator ---- Conn ----> other engines
                 |  \------ Broadcast_bundles ---> (host: relays)  <--- Conn --- other engines
                 ^                                  |         |
                 | Remote_bundles (nagle())         |         +--> Bundler.Local_engine_event
                 +---- Auditor <-- Raw_remote_bundles

Every box is one or more goroutines; every arrow is a Go channel.

| Component (source) | State | Operations | What must hold |
|---|---|---|---|
| Bundler (`core/bundler.go`) | clock, current frame, events collected | take an event, tick, set the clock, send, shut down | each frame emitted once and in order; each event in exactly one bundle |
| Ticker (`core/ticker.go`) | time | Start, Stop, Chan | ticks keep coming |
| Updater (`core/updater.go`) | window of frames, frame counters, pending requests | local bundle, group of remote bundles, state requests, Start, Bootstrap | frames become final only with every bundle, never change then, and all engines agree; speculation is always up to date; requests are answered |
| Event bundles, engine info (`core/event.go`, `core/engine.go`) | none (data) | AbsorbEventBundle, each(), Apply | the outcome of a frame depends on the set of bundles only |
| DataWindow (`core/window_data.go`) | ring of FrameData | Get, Set, Advance | a store of consecutive positions |
| window template (`containers/window`) | ring of values | Get, Set, Advance | the same, and an access outside it panics |
| Communicator (`core/communicator.go`) | conns, bootstraps, horizon, goroutines | accept, broadcast, relay, bootstrap, Join, shut down | a client that joins misses nothing after its first frame, gets that frame, and joins after it; shutting down ends |
| Auditor (`core/auditor.go`) | none | forward a bundle | nothing lost |
| Network (`core/network.go`, `network_standard.go`) | listeners, conns and their queues | Host, Ping, Join, read and write routines | payloads arrive once and in order; both ends agree on a join; calls return; a host stays up |
| NetworkMock (`core/network_mock.go`) | hosts, conns | the same, in memory | stands in for the network in tests: one conn for two hosts, which reaches the host joined; payloads arrive once |
| pnf.Engine (`pnf.go`) | the components | wiring | no component waits for itself through the others |
| helpers (`core/base.go`) | none | gob, random ids | |

What is hard in this code:

* **Order.** A goroutine is started for each bundle that is sent or passed on,
  so bundles overtake each other at every hop; a frame's bundles reach the
  Updater in any order, several at a time, mixed with local ones and requests.
* **Membership inside the data.** Who must be heard from for a frame depends on
  engine events in that frame's own bundles, maybe in the last one to arrive.
* **Reuse.** The window is a ring: the slot of a frame given up becomes that of
  a frame to come, with its old contents.
* **Joining a running session.** The host promises a first frame, relays and
  finalises frames and lets the client in with an engine event, all at once; the
  client discards its own bundles until it sees that event and then fills in
  those it owes.
* **Index loops that remove while they advance** (`updater.go:155`,
  `communicator.go:243`).
* **Unbuffered channels** in a ring: bootstrapRoutine sends to the Bundler, the
  Bundler to the Updater, the Updater to the Communicator.
* **A byte stream read in pieces**: one decode for each `Read`, and a reply of the
  join protocol on the stream that becomes the conn.
* **Panics in goroutines**, each of which ends the process: a peer that leaves, a
  listener that is closed, a function that is nil by now.
* **Shutdown**, across unbuffered channels, wait groups and closed channels.

`PROJECT.json` lists each hazard at its line with the properties aimed at it.

## Modules

| Module | What it is |
|---|---|
| `EventBundle` | AllEvents, EventBundle, EngineInfo, Game, and the pure functions on them: `Absorb`, `ApplyEngineEvents`, `ThinkFrame`, `Complete` |
| `UpdaterState` | every method and handler of Updater as an operator from the struct to the struct |
| `Updater` | one Updater in a session: handlers as actions, the other engines, the network and nagle() as its environment; properties |
| `FinalLog` | abstract specification: a log of final states |
| `DataWindow`, `StringWindow` | the two rings |
| `FrameStore` | abstract specification: a store of consecutive positions |
| `Bundler` | Bundler with its callers and the updater that takes its bundles |
| `BundlerTicker` | Bundler and its BasicTicker |
| `Communicator` | a host's Communicator, its goroutines, and the clients' Join |
| `Engine` | composition: the goroutines of one engine and the channels between them |
| `Conn` | abstract specification: the directions of conns, each in order or not |
| `TcpConn` | the routines of a `tcpConn`, one direction |
| `TcpNetwork` | composition: a host, a client, and the conn they make |
| `NetworkMock` | the in-memory network, its hosts and conns |
| `MCUpdater`, `MCBundler` | values of constants for TLC |
| `SharedLemmas` | lemmas on sets, sequences and induction that several proofs use |
| `UpdaterProofs` | theorems about `Updater` and `FinalLog` |
| `DataWindowProofs` | about both rings |
| `BundlerProofs`, `CommunicatorProofs`, `TcpNetworkProofs`, `NetworkMockProofs`, `EngineProofs` | about the module each is named after, `BundlerTicker` included |

### Updater

`UpdaterState` keeps the names of the struct's fields. `data_window` is a
function on `first .. first + Max_frames`; that the ring behind it behaves like
one is the subject of `DataWindow`. `HandleLocal` and `HandleRemote` are the
whole cases of `routine()`, with `advance()`, `fulfillFinalRequests()` and
`fulfillFastRequests()` inside them; a Go panic in any of them (an access
outside the window, a write to a nil map, an id present already in a bundle) is
the field `panicked`. It ends the process, and what the handler had done by then
is dropped, bundles it had broadcast included.

In `Updater` the rest of the session is the environment. Another engine issues
one bundle per frame, frame after frame, from the frame its EngineJoined event
is applied; only the host's bundles carry engine events, as only
`bootstrapRoutine` makes any (EngineDropped is made by tests only, and is kept in
the model for the code in `engine.go` that handles it). `inflight` holds the
bundles issued and not handled yet; any group of them up to `MaxGroup` may be
next, which is what goroutine-per-bundle sending, the Auditor and `nagle()`
come to. `issued` and `calls` are history: what the session has sent and what
callers have asked for and been told.

A `Game` is the history of what was applied to it. Every deterministic Game
is a function of that history, so agreement on histories is agreement on any
Game. `StateFrame` is an integer; its 32 bits are not modelled.

The abstract specification `FinalLog` says what an engine promises: a log of
final states, extended only by frames with nothing missing, never revised, and
never contradicted by a bundle issued later. `ImplementsFinalLog` is the
refinement, with `log <- bootstrap_frames`.

### Communicator

The host's `routine()` has one action per case of its select; `bootstrapRoutine`
and `connRoutine` of a conn are the values "bootstrap" and "conn" of `task`, with
an action for each way out. The removal loop of `communicator.go:241-248` is
modelled pass by pass (`Removal`), swap and skipped index included. Each client
goes through `Join` and then plays. Its data arrives in order, as the
network's conns deliver it; bundles arrive in any order, as each is sent by a
goroutine of its own. The Updater is the environment: it broadcasts its frames in
order and finalises none that it has not broadcast. Whether a frame of the
host may become final while a client's bundle for it is missing is the Updater's
concern, and proved there.

`Close` on a conn ends its two channels, as the interface intends. `tcpConn.Close`
does nothing, so over TCP no conn routine ends and shutting down waits for ever;
the first `ConnMock.Close` of a conn does return (`NetworkMock`), a second one never.
That the data is in order is true of `tcpConn` and not of `ConnMock`. What
`routine()` does besides joining clients, passing bundles to `Raw_remote_bundles`
and closing it, is in `Engine`, and so is a client's `routine()`, which has one conn
and relays nothing back to it.

### Bundler

One action per case of the select. The send loop is a state of its own ("send"),
because the channel is unbuffered and `routine()` is deaf to everything else
until the updater has taken each bundle. `FrameAt` is Go's division, which
truncates towards zero when the clock has been set back below it.

`BundlerTicker` adds the goroutine of `BasicTicker.Start` between the clock and the
Bundler: a tick waits in `time.Ticker`'s channel (one at most, the rest are
dropped), then in the goroutine's hand, then becomes the Bundler's `Tick`. `Stop` may
come at any moment, before the goroutine has first run too, when it finds a nil
`bt.ticker`.

### Windows

`DataWindow` has the ring with `start` and the modulus; `StringWindow` has the
template's arithmetic too: unsigned subtraction, the conversion to a signed int,
and Go's truncated remainder, since they decide which accesses outside the window
panic. `Half` gives the width: an int is from `-Half` to `Half - 1`, a uint64 below
`2 * Half`. The window has at most `Half / 2` slots, as a string takes 16 bytes of
what an int can address, and it is not advanced until positions wrap around.

### Engine

What the components compute is in their own modules; `Engine` is how they wait for
each other. The state says where each goroutine is and what it holds: the
Bundler in its select or blocked on `Local_bundles`, the Updater in its select,
blocked on `Broadcast_bundles` or inside `advance()`, a conn's routine and the bundle
it sends on `remote_fan_in`, a goroutine for each bundle forwarded to
`Raw_remote_bundles`, the Auditor and the bundle in its hand, `Remote_bundles` with its
capacity, nagle() and its group. An unbuffered send and its receive are one step. A host's
engine starts empty; a client's when `Join` has returned, with a bundle that
Join's goroutine has kept. `Start` is the order of `NewNetEngine` and
`NewNetClientEngine`. Local events and EngineJoined events are the data that is
told apart on the way out, bundles and the zero `FrameBundle` of a closed channel on the
way in. A tick is one that completes a frame; frames broadcast and not yet final
are counted up to `MaxDue`. Either the Bundler or the Communicator is shut down,
once the engine is started: `pnf.go` itself shuts neither down.

### TCP/UDP network

`TcpConn` has one direction of a conn: senders and `sendRoutine` with its queue,
`writeRoutine`, the stream, `readRoutine`, and for data and for bundles
`recvDataRoutine` or `recvBundleRoutine` with the channel of capacity `Cap` its
reader takes from. An encoded payload is `Pieces` pieces on the wire and a `Read`
returns any number of them. `from_net` and the queue behind it are one sequence,
`backlog`. A payload decodes when all of it is there and all payloads before it
have been decoded, since the first carries gob's type definitions.

`TcpNetwork` EXTENDS it with the two `networkTcpUdp` that make the conn. The
host's `routine()` carries out `Host`, on or off, by killing the routines of the last
one (`kills`: the sends on `kill` it has left) and launching new ones, each of
which may fail; the pinger looks at `kill` only with a datagram in hand, and may have
ended with a goroutine in its place that waits for `kill`. A listener that is killed is
closed some time after that, and its Accept fails some time later still, when `Host` may have
opened a new one: `killed` remembers it. The client's `routine()` carries out `Ping` and `Join`,
which read until their deadline. A panic puts a machine into `down`.

A join has the steps of the code at both ends. The host reads the request, asks `join` and
writes the reply, all of it or less (`AskJoin`); only then does it make the conn (`MakeConn`)
and offer it to the reader of `NewConns()`. The reply is two pieces on the wire, before the
first payload, the first of them shorter than the four bytes that the client looks at; its
one `Read` (`ReadReply`) returns a piece, both, or both and the beginning of what follows, and what
does not begin with FAIL counts as success. `cut` says that it returned less than the reply.

### NetworkMock

`HostMock.Join` is four steps: its reading of its own `conn_data` without a lock, all
it does with the mutex held, the unlock in a goroutine of its own, and that
goroutine's second look at `hosts[i]`. A payload is carried by the sender's
goroutine, then by one of either end's connRoutine, then by one of the receiver's
routine: `at` says which. `Close` is the two sends on `purge`. The specification of
a conn is `Conn` with `InOrder <- FALSE` here, both ends' payloads being its directions,
and TRUE for `tcpConn`, with one direction.

## Runs

A violated run stops at its counterexample, so its count says little.

| Run | Question | Bounds | Distinct states |
|---|---|---|---|
| `UpdaterHost` | Does a host's updater keep its promises while one engine joins and another is dropped? | 3 engines, 4 frames, window of 3, groups of 2 | 56 730 |
| `UpdaterClient` | And a bootstrapped client's, before and after its own join? Which fast requests does it leave unanswered? | the same, frames 3 to 7, 2 callers that ask for frame 5 | 179 704 |
| `UpdaterRequests` | Are the states handed to callers the agreed ones, and does every frame and request get its turn? | 2 engines, 1 caller, any frame or "newest" | 9 646 |
| `UpdaterStranded` | Is every queued request answered? (violated) | 2 callers, one frame | 771 |
| `DataWindow` | Is the ring a store of consecutive positions? | size 3, 4 advances: more than a turn | 460 |
| `StringWindow` | Is the template one, inside its bounds? | 4-bit positions (`Half = 8`), size 3 | 3 169 |
| `Bundler` | Are events and frames neither lost nor repeated, whatever is done to the clock and the ticker? Is everything sent? | 2 + 1 events, clock -7 to 7 ms, steps of -3 and +4, 2 ms frames | 121 518 |
| `Communicator` | Does a client that joins a running session miss nothing? | 2 clients, one of which may give up, 2 frames | 57 668 |
| `CommunicatorShutdown` | Does shutting down end? (violated) | 1 client | 612 |
| `TcpNetwork` | Is a conn FIFO, does what is sent arrive, do host and client agree on a join, do calls return, what takes a host down? | 3 payloads and a reply of 2 pieces each, channels of 1, one join | 202 153 |
| `NetworkMock` | Is there one conn for two hosts, and does it reach the right one? Do payloads arrive once, does Close return? | 3 hosts, 2 goroutines that join, 2 conns, 2 payloads | 416 764 |
| `Engine` | Does any circle of goroutines wait for itself, is a bundle lost or stuck, what does a shutdown do to the rest? | 1 conn, 2 bundles on it, 1 local event, channel of 1 | 50 680 |

Why the bounds are enough. A window of three frames (`Max_frames = 2`) has a
first frame, one that may be complete and one that is speculative, and four
frames take it through a full turn of the ring, so that every slot is reused. Two
engines race on every frame and a third joins (or is dropped) at every frame
between; more engines add bundles that commute. Groups of two show frames that
become complete together and two bundles of one frame. `MaxLead` is
`Max_frames`: an engine that is further ahead than the window is long makes
`DataWindow.Get` panic, as the TODOs at `updater.go:296` and `:338` admit; the
properties are those of a session in which nobody is. `MaxAhead = 1` keeps the
clock of a joining client from running past the newest frame it has received
(what happens without is told below). The two callers of `UpdaterClient` ask for the third frame
of the run: before the client joins, so that it may join past it, or after, so that
two requests wait for it at once. They are alike, which is its symmetry, and its own
bundles always have an event. In `Communicator`, two frames
and a third one promised are enough for a client to be accepted before,
between and after the frames of the others, and for two clients to be promised
the same frame or different ones, with bundles of each relayed to the other. The
same configuration with `MaxFrame = 3` (1.5 million states, some minutes) holds
as well; it is not among the runs because of its length.

In `TcpNetwork` three payloads fill a channel of one and its routine's hands with data
before a bundle follows; two pieces make a `Read` that ends inside a payload, one
that holds exactly one and one that holds more, and a reply that comes in part, alone or with
what follows it; `Host` may be called any number of
times, until the first payload is sent. One datagram at a time and one join are
bounds: a second pinger sends nothing the first does not, and joins run in
goroutines of their own. In `NetworkMock` three hosts are what it takes for a
Shutdown to move one host into another's slot, two callers for a race of Joins;
conns are used only in a network of two hosts that has come to rest, since hosts
and conns share nothing once a conn is made. In `Engine` one conn with two bundles
fills every hop of the way in, as each holds one; a second conn would add another
waiting sender of the same kind.

In passing runs deadlock is checked wherever the system goes on for ever
(`Updater` has a stuttering step `Finished` that is enabled only when every
member has issued every frame and all of it is handled, so a session that is
stuck is a deadlock). The Bundler, the Communicator, the networks and the engine do
stop: they are shut down, or the process ends in a panic.

### What the violated runs show

* `UpdaterStranded`: two callers wait for the same final frame; the pass that
  answers the first swaps the second into its place and moves on. The frame
  becomes final once only, so the second waits for ever.
* `CommunicatorShutdown`: a conn that ends while its client is bootstrapping is
  never counted down, and `active_conns.Wait()` never returns.

More was seen while modelling and has no run of its own:

* A fast request queued while a client joins, for a frame that its first local
  bundle jumps over, is never answered, and neither is the second of two for one frame,
  which the pass at `updater.go:164-172` skips: "stored in final_requests or fast_requests
  to be fulfilled later" (`updater.go:51-53`) is not true of them. `UpdaterClient` reaches
  both, and `FastRequestsPassed` says that nothing else passes a request.
* A request for the newest fast state made while a client joins panics once the window
  has moved past `local_frame` (`updater.go:362`).
* A joining client whose clock is past what it has received (`UpdaterClient` with
  `Max_frames = 3`, `MaxLead = 3` and `MaxAhead = 2`) fills the frames it owes before
  they are initialised, and writes to a nil map (`updater.go:282`): `NoPanic` fails.
* `engine.go:62-65` says that no events are expected of an engine on the first
  frame that lists it; the code waits for them (`updater.go:213`), as the model does.
* The template window's bounds test looks at the wrapped index
  (`window.go:23`), so most positions outside the window alias one inside it,
  where `window_test.go:34` says "Should panic when accessing out of bound elements."
* "Calling Host with join == nil will turn hosting off" (`network.go:46`): it does, and
  the Accept on the closed listener then takes the process down with a panic
  (`network_standard.go:134`), maybe only after a new listener is open; so does hosting
  a second time.
* A client takes any reply that does not begin with FAIL for a success
  (`network_standard.go:292`): when its `Read` returns less than four bytes of one, a refused client
  has a conn (`JoinAgrees` fails without its `cut`). So has a client whose host wrote SUCCESS only in
  part and made none. Nothing is ever decoded on such a conn.
* A client that has asked to join and gives up, or leaves later, takes the host
  down too, since `readRoutine` panics when `Read` fails.
* A bundle can be left in a reader that is out of step, because its `Read`
  brought two payloads, or the `Read` of the reply to the join took the first.
* Once the Communicator is shut down the Updater blocks for ever in its next
  broadcast, and the Bundler with it. Once the Bundler is shut down, the zero bundle that the
  Updater receives from the closed channel makes it panic.
* `HostMock.Join` delivers a conn to another host, or panics, when a host is
  shut down between the unlock and the second look at `hosts[i]`, and panics when the
  host joined has stopped hosting since it was pinged (`network_mock.go:335`).

### Fairness

* `Updater`: every other engine keeps issuing, ticks keep coming, and each
  bundle on its way is handled at some time. The last is weak fairness for each
  bundle: its goroutine is blocked in the send until `nagle()` takes it, and
  Go's channels serve waiting senders in order. `Ticked` and `Handled` state the
  guard and effect of the two handlers on `clock` and `inflight` alone, so that
  TLC evaluates fairness on small formulas; no other action changes these two.
* `Bundler`: the ticker runs (weak fairness of `Fire`, `Begin` and `Forward`); strong
  fairness of `TakeTick` and `Close`, since a select that is ready
  in several cases picks one at random: a case that is ready again and again is
  picked. `EventsAreSent` holds under the condition that the clock is not set
  back for ever, which no fairness could give.
* `Communicator`: weak fairness of each goroutine. Cases of the select stay ready
  until they are picked, and each other case can be picked finitely often only.
  No fairness of `Accept` (clients need not come) or of `Shutdown`.
* `Engine`: weak fairness of goroutines that can go on, strong fairness of the cases
  of the Bundler's and the Updater's selects, as above. None of what comes from
  outside: bundles on a conn, new conns, events, shutdowns.
* `TcpNetwork`: weak fairness of the host's and client's steps and of each routine of the conn;
  TCP delivers what is written; bundles are received by the application, data
  need not be. None of datagrams, which may all be lost.
* `NetworkMock`: a routine that can receive from `purge` does so in the end.

### Mutants

Each property of a passing run has a mutant: a plausible bug (a test off by one, a
reset left out, a slot not marked dirty, a confirmation not waited for) kept
beside the definition it alters, with which TLC finds that property violated.

## Proofs

All theorems are about `Spec` for any values of the constants that satisfy the
ASSUMEs of the modules: any number of engines, clients, hosts or payloads, any
window size, any bounds. Where a theorem assumes more, it says so in its
statement. Every invariant and every safety property the passing runs check is
proved.

### Updater

**Updater implements FinalLog.** The invariant the runs check is not inductive,
because a handler works on a window that is out of date. The inductive invariant
`IInv` says what holds between handlers (`Steady`): each slot holds a part of the
bundles issued for its frame and nothing else; every frame up to the newest
follows from the frame before it; the first frame of the window is the last final
one; the host is known on every frame. Inside a handler a weaker `Ready` holds:
below `oldest_dirty_frame` every frame follows from the one before, above it
anything goes. Each operator a handler is made of keeps `Ready` (`InitFramesReady`,
`StoreReady`, `NoticeJoinReady`, `FillSkippedReady`), and `advance` turns it into
`Steady`, with the log extended by settled frames only (`AdvanceExtends`). That
nothing issued later changes a final frame is the lemma
`LateBundlesChangeNothing`: the host's bundle is among those a final frame has,
only the host's bundles carry engine events, and so a missing one belongs to an
engine unknown there. Results: `FinalStatesFollow` (`FinalFollowsIssued`),
`UpdaterImplementsFinalLog` and `SpeculationFollows` (`SpeculationUpToDate`). They
need no bound on how far ahead anyone is: a handler that would leave the window
panics, and the log stays what it was.

The other results put an invariant of their own on top of `IInv`; each names what it
assumes of the session.

| Theorem (property) | Assumes | Invariant and argument |
|---|---|---|
| `TypeCorrect` (`TypeOK`) | nothing | `TypesInv`: every operator of a handler keeps the types, panicking or not; `global_frame` stays in the window, without which `advance` would not find a new start |
| `FinalAnswers` (`FinalAnswersAgree`) | nothing | `CallsInv`: a caller waits for a final state exactly while its request is queued; the pass over the queue takes out no request but one for the frame it serves (`ServeKeeps`), although it may leave some of those behind |
| `NothingLost` (`WindowHoldsReceived`), `NeverStalled` (`NotStalled`) | `Punctual`: a joining client's clock is at most one frame ahead of the newest bundle it has | `WindowInv`: the slots hold what was received (`Holds`), and each operator adds just the bundle it is given; the second frame is incomplete because `advance` stops there only, and a bundle that arrives calls `advance` |
| `NeverPanics` (`NoPanic`) | `InPace`: `Punctual`, nobody more than `Max_frames` ahead, the first tick after the base frame, a client not asked for its newest state | `PaceInv`: the window passes neither a frame this engine has not sent, as it is known there and so awaited (`SelfAwaited`, `WindowHeldBack`), nor the frame it is about to join on |
| `FastAnswers` (`FastAnswersHoldLocalEvents`) | `FromTheStart`: `InPace`, and an updater made by `Start` whose first tick is for the next frame | `SupplyInv`, `FastInv`: every frame up to `local_frame` has a bundle of this engine, and it was in the window before any state that could be handed out was computed (`LocalApplied`) |
| `PassedForAReason` (`FastRequestsPassed`) | an updater made by `Start` has its first tick no later than the frame after the base frame; nothing of the pace or the callers | `PassInv`: who waits for a fast state is queued, once, and an updater that has joined supplies frame after frame, so that `local_frame` passes none without stopping at it; a pass that leaves a request for its frame behind has taken another before (`FirstServed`) |

These assumptions hold in the runs that check the
properties, and what happens outside of them is under "What the violated
runs show".

**FinalLog.** The log is at each moment the outcome of everything issued
(`LogIsDetermined`), and two engines with the same bundles and the same base state
agree on every frame final on both (`FinalStatesAgree`). With the refinement this
is the agreement of the engines of a session.

### The rings

Types, `SlotsDistinct`, and `DataWindow` implements `FrameStore` for any size
(`RingImplementsStore`), from three lemmas on the modulus. The steps of that proof
are lemmas of their own (`GetOfStore`, `SetOfStore`, `AdvanceOfStore`) and serve the
template's window too: inside its bounds no subtraction or sum overflows, its index
is the slot of `DataWindow`, and `StoreInBounds` follows (`StringsImplementStore`) for
every width and size that `Fits`.

### Bundler

Types, and every frame emitted once and in order (`FramesInOrder`). `NoEventLost`
(`EventsConserved`): the events accepted are those of the bundles sent, one after the
other, and then those collected since, so that neither a clock set back nor frames
caught up on can drop, repeat or reorder one. A Bundler with its ticker is a Bundler
(`TickedBundlerIsBundler`), so this holds whatever the ticker does; of a stopped one
two ticks at most still arrive (`AtMostTwoLateTicks`, by counting those on their way).

### The join protocol

`NothingMissed`, `PromiseKept` and `JoinsAfterItsFrame` are not inductive: `IInv` adds
that `horizon` is at or above every bundle relayed and every final frame (so a
promised frame is beyond both), that a client whose frame is still to come is in
`bootstraps` under that frame, and that whatever follows the initial data on a
conn is the client's frame, which is final by then. The lemma `RemainingKeeps`
covers the removal loop: by induction over its passes, it may leave conns behind
but takes away none whose frame is not the one being sent (`SwapRemove`).

`ConnsAreCounted`: `active_conns` is the number of conns that are served or whose
bootstrapRoutine failed. So `Done()` is never called at zero, which would panic, and
`TypeOK` follows (`TypeCorrect`). That a failed one stays in the count for ever is what
`CommunicatorShutdown` shows.

### Networks

**TcpNetwork.** `Handshake` says how far each machine is with the join and how much of its
reply is on the wire, which gives `TheEndsAgree` (`JoinAgrees`): a client whose `Read` returned
the whole reply knows what the host has decided, and the conn of one whose `Read` did not
begins with the rest of the reply, at which its reader ends. `HostInv` counts the routines
the host runs against the kills it has still to send, and says that a join which came while it
was hosting finds its function as long as no listener was killed, which gives `NoCrash`
(`NoCrashWhileHosting`). Payloads are decoded in the order of sending, however the
stream is cut, so for the conn it is enough to follow them from there (`InHand`): one that
was handed on is received or waits, not both, and those of a kind wait in the order
of sending, through routine and channel. A receive takes the first of its kind, hence the
conn is `Conn` in order (`TcpConnIsConn`), for any number of pieces and any capacity.

**NetworkMock.** Types; `OneConnPerPair`, from the second look at `conn_data` with
the mutex held; `NewConnsReachTheirHost`, as an index into `hosts` keeps its meaning
while no host is removed (`OffersInv`). A payload in flight was sent to the end it is
carried to, which has not received it, and nobody else carries it (`FlightInv`); hence
`MockConnsAreConns`, both directions of all conns at once.

### Engine

`BundlesAreConserved` (`RemoteConserved`): while the Communicator runs, a bundle that came
in on a conn is in exactly one of seven places, from the connRoutine to the
Updater's window. The invariant says that the places exclude each other and together
hold just what came in (`PlacesInv`), and that no channel holds a bundle twice.

### What is out of the prover's reach

Induction over data appears as induction over a set of naturals (`SetInduction` of
`SharedLemmas`), for which recursive definitions are written as recursive
functions (`RethinkDef`, `AbsorbGroupDef`, `UnservedDef`, `ServedUpToDef` say that each
exists and is unique).

Only model-checked: all liveness, as the prover has neither fairness nor ENABLED
(`EveryFrameBecomesFinal`, `FinalRequestsAnswered`, `EventsAreSent`, `JoinsComplete`,
`ShutdownReturns`, `BundlesArrive`, `CallsReturn`, `CloseReturns`, `RemoteArrives`,
`EventsGetOut`, `BundlerShutdownReturns`), and the absence of deadlock in the sessions
of `Updater`.

## Not modelled

* `Updater.Shutdown`: its channel is never made, so it blocks in every state.
* `NumEngines`: it reads the info of the window's first frame, which always
  exists, and changes no state.
* `FakeTicker`, which hands its caller's ticks on, and starting or stopping a ticker twice.
* `NetworkMock.Purge`: "This purge mechanism does NOT work!" (`network_mock.go:53`);
  one test calls it. An empty payload, which `ConnMock.routine` drops.
* Sockets, gob, ids: I/O and encoding without a decision of the system in them. Of
  the socket calls only the two that open the host's may fail; a request longer than one `Read`
  is left out. `networkTcpUdp.Shutdown` closes the channel
  its callers send on; only tests call it.
* The direction of a tcpConn from client to host: the same code, without
  the join's reply before it.
* `NewLocalEngine`: an engine without network, Communicator and Auditor.
* `Time_delta` is nil wherever engines are wired in this repository; `Bundler` models it all the
  same.

## Plan

What is left, in this order:

1. `Engine` as an implementation of the environments that `Updater` and
   `Communicator` assume (bundles in any order, frames broadcast before they are
   final).
2. The order in which `each()` visits a bundle against a reference definition, and
   that `ApplyEngineEvents` is the fold over it.
3. `NeverPanics` and `FastAnswers` for a client that joins: what a session must
   promise of its clock and of what it is asked.
