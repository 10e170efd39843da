---------------------------- MODULE BundlerTicker ----------------------------
(***************************************************************************)
(* The Bundler with its BasicTicker (core/ticker.go): routine() starts the *)
(* ticker, whose goroutine forwards the ticks of a time.Ticker, and        *)
(* whoever made the ticker may stop it.  time.Ticker's channel holds one   *)
(* tick and drops those that come while it is full.                        *)
(***************************************************************************)
EXTENDS Bundler

VARIABLES
  ticker,     \* "running", "stopped" (bt.ticker is nil) or "panicked"
  ranging,    \* the goroutine has read bt.ticker.C
  buffered,   \* a tick is in time.Ticker's channel
  forwarding, \* the goroutine is blocked in its send of a tick
  late        \* the ticks that have reached the Bundler since Stop

tickerVars == <<ticker, ranging, buffered, forwarding, late>>
allVars == <<vars, tickerVars>>

TickerInit ==
  /\ Init
  /\ ticker = "running" /\ ranging = FALSE /\ buffered = FALSE
  /\ forwarding = FALSE /\ late = 0

(* Fire with a bug: a stopped time.Ticker goes on.                         *)
FireOn == ticker # "panicked" /\ buffered' = TRUE /\ UNCHANGED <<vars, ticker, ranging, forwarding, late>>

Fire ==
  /\ ticker = "running"
  /\ buffered' = TRUE
  /\ UNCHANGED <<vars, ticker, ranging, forwarding, late>>

(* A goroutine that runs only after Stop finds bt.ticker nil.              *)
Begin ==
  /\ ~ranging /\ ticker # "panicked"
  /\ ranging' = (ticker = "running")
  /\ ticker' = IF ticker = "running" THEN ticker ELSE "panicked"
  /\ UNCHANGED <<vars, buffered, forwarding, late>>

Forward ==
  /\ ranging /\ buffered /\ ~forwarding
  /\ buffered' = FALSE /\ forwarding' = TRUE
  /\ UNCHANGED <<vars, ticker, ranging, late>>

(* A stopped ticker still forwards what it has.                            *)
Stop ==
  /\ ticker = "running"
  /\ ticker' = "stopped"
  /\ UNCHANGED <<vars, ranging, buffered, forwarding, late>>

TakeTick ==
  /\ forwarding /\ Tick
  /\ forwarding' = FALSE
  /\ late' = IF ticker = "stopped" THEN late + 1 ELSE late
  /\ UNCHANGED <<ticker, ranging, buffered>>

BundlerStep ==
  /\ UNCHANGED tickerVars
  /\ \/ \E event \in Event : AcceptEvent(event)
     \/ \E event \in EngineEvent : AcceptEngineEvent(event)
     \/ Send \/ AdjustClock \/ Shutdown \/ Close

TickerNext ==
  \/ Fire \/ Stop \/ Begin
  \/ ticker # "panicked" /\ (Forward \/ TakeTick \/ BundlerStep)

(* Time passes while the ticker runs.  A select picks at random among the  *)
(* cases that are ready, so a case that is ready again and again is        *)
(* picked.                                                                 *)
TickerSpec ==
  /\ TickerInit /\ [][TickerNext]_allVars
  /\ WF_allVars(Fire) /\ WF_allVars(Begin) /\ WF_allVars(Forward)
  /\ SF_allVars(TakeTick)
  /\ WF_allVars(BundlerStep /\ Send) /\ SF_allVars(BundlerStep /\ Close)

-----------------------------------------------------------------------------
(* Of a stopped ticker two ticks at most still reach the clock: the one    *)
(* in time.Ticker's channel and the one its goroutine has in hand.         *)
TwoLateTicks == late <= 2

(* Every event taken reaches the updater while the ticker runs, although   *)
(* it drops ticks whenever the Bundler is slow, unless the Bundler is shut *)
(* down or its clock is set again and again.                               *)
EventsAreSent ==
  <>[][~AdjustClock]_vars =>
    \A n \in 1 .. MaxEvents :
      Len(accepted.game) >= n
        ~> \/ stopping \/ ticker # "running"
           \/ Len(FlattenSeq([i \in DOMAIN sent |-> sent[i].events.game])) >= n
=============================================================================
