--------------------------- MODULE MarketRuntime ---------------------------
(***************************************************************************)
(* The process of app/main.py: lifespan runs the market runtime of         *)
(* app/runtime.py as a task, which starts the scanner as another one and   *)
(* streams from Upbit (app/upbit_provider.py) or, if that cannot start,    *)
(* from the simulator (app/market_simulator.py).  Shutdown stops engine    *)
(* and scanner while both tasks are anywhere in their awaits.  A step is   *)
(* the code of one task between two awaits.                                *)
(*                                                                         *)
(* Bound: MaxFaults, shared with the scanner; a normal close by the server *)
(* and a kill of the process count.                                        *)
(***************************************************************************)
EXTENDS ScannerRuntime

CONSTANTS
  Markets,               \* MARKETS, whose keys are UPBIT_MARKETS
  RequestedSource,       \* DATA_SOURCE
  FallbackToSimulator    \* SOURCE_FALLBACK_TO_SIMULATOR

ASSUME MarketAssumption ==
  /\ Markets \in Seq(STRING) /\ Markets # <<>>
  /\ FallbackToSimulator \in BOOLEAN

(* The documented values; the code takes any other for the simulator. *)
ASSUME SourceAssumption == RequestedSource \in {"upbit", "simulator"}

Traded == {Markets[i] : i \in DOMAIN Markets}

VARIABLES
  phase,    \* lifespan: up; closing, scanner, joining (the awaits of shutdown); down
  market,   \* where the task of runtime.start awaits
  engine,   \* _engine: none, upbit, simulator
  running, state, error,   \* the engine's _running, _status.state, _status.last_error
  runtime_error,           \* MarketRuntime._last_error
  ws,       \* UpbitMarketStream._ws is set (to an open connection or to a dead one)
  open,     \* the connection of the current _stream_loop is open
  boot,     \* the markets _bootstrap has still to load
  source    \* instrument_runtime_state.data_source of the markets

engineVars == <<engine, running, state, error, runtime_error, ws, open>>
marketVars == <<market, engineVars, boot, source>>
vars       == <<phase, marketVars, scannerVars>>

Upbit    == {"catalog", "candles", "evaluate", "connect", "subscribe", "receive", "handle", "retry"}
Awaiting == Upbit \cup {"new", "tick"}
Ended    == {"done", "failed", "cancelled"}

TypeOK ==
  /\ TypeOKScanner
  /\ phase \in {"up", "closing", "scanner", "joining", "down"}
  /\ market \in Awaiting \cup Ended
  /\ engine \in {"none", "upbit", "simulator"}
  /\ state \in {"idle", "bootstrapping", "connecting", "streaming", "reconnecting", "stopped"}
  /\ {running, error, runtime_error, ws, open} \subseteq BOOLEAN
  /\ boot \in Seq(Traded)
  /\ source \in [Traded -> {"bootstrap", "upbit", "simulator"}]

InitEngine ==
  /\ market = "new" /\ engine = "none" /\ boot = <<>>
  /\ running = FALSE /\ state = "idle" /\ error = FALSE /\ runtime_error = FALSE
  /\ ws = FALSE /\ open = FALSE

Init ==
  /\ phase = "up"
  /\ InitEngine
  /\ source = [s \in Traded |-> "bootstrap"]
  /\ InitScanner

(* The cancellation lifespan asks for is delivered at the task's next step. *)
Cancelling == phase = "joining"
Runs(at)   == market = at /\ ~Cancelling
ScannerCancelling == phase = "scanner"

-----------------------------------------------------------------------------
(* What status() of the runtime reports, and /api/readiness reads. *)
ActiveSource == IF engine = "none" THEN RequestedSource ELSE engine
LastError    == runtime_error \/ error
Ready        == state \in {"streaming", "connecting", "reconnecting"}

\* Mutant: the simulator only takes over what Upbit had not loaded.
SimulateTheRest(n) ==
  [s \in Traded |-> IF source[s] # "upbit" /\ \E i \in 1..n : Markets[i] = s THEN "simulator" ELSE source[s]]

(* The first n markets are written by the simulator. *)
Simulate(n) ==
  [s \in Traded |-> IF \E i \in 1..n : Markets[i] = s THEN "simulator" ELSE source[s]]

(* The simulator is the engine and runs up to its first await, after n faults: *)
(* _bootstrap_history writes every market, and the first tick its first one.   *)
(* One of their many statements may fail, in the first round over the markets, *)
(* in a later one or in the tick.                                              *)
StartSimulator(n) ==
  /\ engine' = "simulator" /\ running' = TRUE /\ error' = FALSE
  /\ ws' = FALSE /\ open' = FALSE /\ boot' = <<>>
  /\ \/ /\ Faults(n)
        /\ market' = "tick" /\ state' = "streaming" /\ source' = Simulate(Len(Markets))
     \/ /\ Faults(n + 1)
        /\ market' = "failed" /\ state' = "bootstrapping"
        /\ \E written \in 0..Len(Markets) : source' = Simulate(written)
     \/ /\ Faults(n + 1)
        /\ market' = "failed" /\ state' = "streaming" /\ source' = Simulate(Len(Markets))

(* runtime.start, up to its first await. *)
StartRuntime ==
  /\ Runs("new")
  /\ CreateScannerTask
  /\ IF RequestedSource = "upbit"
     THEN /\ engine' = "upbit" /\ running' = TRUE /\ state' = "bootstrapping"
          /\ market' = "catalog"
          /\ UNCHANGED <<error, ws, open, boot, source, faults>>
     ELSE StartSimulator(0)
  /\ UNCHANGED <<phase, runtime_error>>

(* _bootstrap: the catalog, then for each market its candles and evaluation. *)
CatalogLoaded ==
  /\ Runs("catalog")
  /\ market' = "candles" /\ boot' = Markets
  /\ UNCHANGED <<phase, engineVars, source, scannerVars>>

\* Mutant: the state is 'connecting' after each market, not after the last one.
ConnectEarly ==
  /\ boot' = Tail(boot)
  /\ state' = "connecting"
  /\ market' = IF Tail(boot) # <<>> THEN "candles" ELSE IF running THEN "connect" ELSE "done"
  /\ UNCHANGED <<phase, engine, running, error, runtime_error, ws, open, scannerVars>>

(* The turn for the first market of boot is over.  After the last one start   *)
(* enters its loop, unless the engine was stopped meanwhile.                  *)
NextMarket ==
  /\ boot' = Tail(boot)
  /\ IF Tail(boot) # <<>> THEN market' = "candles" /\ UNCHANGED state
     ELSE market' = (IF running THEN "connect" ELSE "done") /\ state' = "connecting"
  /\ UNCHANGED <<phase, engine, running, error, runtime_error, ws, open, scannerVars>>

CandlesLoaded ==
  /\ Runs("candles")
  /\ market' = "evaluate"
  /\ source' = [source EXCEPT ![Head(boot)] = "upbit"]
  /\ UNCHANGED <<phase, engineVars, boot, scannerVars>>

NoCandles       == Runs("candles") /\ NextMarket /\ UNCHANGED source
MarketEvaluated == Runs("evaluate") /\ NextMarket /\ UNCHANGED source

(* Only _bootstrap raises out of upbit.start: fall back, or end the task.  The *)
(* reason kept is str(exc), which is empty for a timeout of httpx and then     *)
(* counts as none.                                                             *)
BootstrapFails ==
  /\ ~Cancelling /\ market \in {"catalog", "candles", "evaluate"}
  /\ runtime_error' \in BOOLEAN
  /\ IF FallbackToSimulator
     THEN StartSimulator(1)
     ELSE /\ Fault
          /\ market' = "failed"
          /\ UNCHANGED <<engine, running, state, error, ws, open, boot, source>>
  /\ UNCHANGED <<phase, scannerLocals>>

-----------------------------------------------------------------------------
(* _stream_loop: the connection, the subscription, the messages. *)
Connected ==
  /\ Runs("connect")
  /\ market' = "subscribe" /\ ws' = TRUE /\ open' = TRUE
  /\ UNCHANGED <<phase, engine, running, state, error, runtime_error, boot, source, scannerVars>>

\* Mutant: the error of the connection before is still shown.
SubscribedKeepsError ==
  /\ Runs("subscribe") /\ open
  /\ market' = "receive" /\ state' = "streaming"
  /\ UNCHANGED <<phase, engine, running, error, runtime_error, ws, open, boot, source, scannerVars>>

Subscribed ==
  /\ Runs("subscribe") /\ open
  /\ market' = "receive" /\ state' = "streaming" /\ error' = FALSE
  /\ UNCHANGED <<phase, engine, running, runtime_error, ws, open, boot, source, scannerVars>>

(* A ticker or a candle is stored; its evaluation and its push are awaited,   *)
(* unless it is a ticker within MARKET_SNAPSHOT_PUSH_SECONDS of the last push. *)
(* A message may still be in the buffer of a closed connection.               *)
Message ==
  /\ Runs("receive")
  /\ \E s \in Traded : source' = [source EXCEPT ![s] = "upbit"]
  /\ market' \in {"handle", "receive"}
  /\ UNCHANGED <<phase, engineVars, boot, scannerVars>>

Handled ==
  /\ Runs("handle")
  /\ market' = "receive"
  /\ UNCHANGED <<phase, engineVars, boot, source, scannerVars>>

(* The connection is closed normally, by the server or by stop: the loop of   *)
(* start goes round at once, and the state stays what it was.                 *)
StreamEnds ==
  /\ Runs("receive")
  /\ IF open THEN Fault ELSE UNCHANGED faults
  /\ ws' = FALSE /\ open' = FALSE
  /\ market' = IF running THEN "connect" ELSE "done"
  /\ UNCHANGED <<phase, engine, running, state, error, runtime_error, boot, source, scannerLocals>>

\* Mutant: an error of the stream ends the loop of start.
GiveUp == "done"

(* Where an error of the stream leaves start: asleep, or out of its loop. *)
AfterError == IF running THEN "retry" ELSE "done"

(* Connecting, sending, receiving or handling raises, perhaps without a text; *)
(* _ws keeps its value.                                                       *)
StreamFails ==
  /\ ~Cancelling /\ market \in {"connect", "subscribe", "receive", "handle"}
  /\ IF ~open /\ market # "connect" THEN UNCHANGED faults ELSE Fault
  /\ open' = FALSE
  /\ state' = "reconnecting" /\ error' \in BOOLEAN
  /\ market' = AfterError
  /\ UNCHANGED <<phase, engine, running, runtime_error, ws, boot, source, scannerLocals>>

Reconnect ==
  /\ Runs("retry")
  /\ market' = IF running THEN "connect" ELSE "done"
  /\ UNCHANGED <<phase, engineVars, boot, source, scannerVars>>

(* The awaits of a tick and the sleep after it; _running is read after that. *)
Tick ==
  /\ Runs("tick")
  /\ source' = Simulate(Len(Markets))
  /\ market' \in IF running THEN {"tick"} ELSE {"tick", "done"}
  /\ UNCHANGED <<phase, engineVars, boot, scannerVars>>

(* Nothing catches an exception of the simulator; the state stays "streaming". *)
SimulatorFails ==
  /\ Runs("tick")
  /\ Fault
  /\ market' = "failed"
  /\ UNCHANGED <<phase, engineVars, boot, source, scannerLocals>>

MarketStep ==
  \/ StartRuntime \/ CatalogLoaded \/ CandlesLoaded \/ NoCandles \/ MarketEvaluated
  \/ BootstrapFails \/ Connected \/ Subscribed \/ Message \/ Handled \/ StreamEnds
  \/ StreamFails \/ Reconnect \/ Tick \/ SimulatorFails

-----------------------------------------------------------------------------
\* Mutant: the stopped engine reports a state that is none of the status values.
StoppedWord == IF state = "idle" THEN "idle" ELSE "closed"

(* stop: an engine that never started stays idle. *)
Stopped == IF state = "idle" THEN "idle" ELSE "stopped"

(* The rest of runtime.stop after engine.stop: the scanner is stopped, its     *)
(* task cancelled and awaited; without a task the market task is next.         *)
StopTheScanner ==
  /\ StopScanner
  /\ phase' = IF scanner = "none" THEN "joining" ELSE "scanner"

(* lifespan leaves its yield.  An Upbit engine that has had a connection       *)
(* awaits the close of the last one, before it sets its state.                 *)
Stop ==
  /\ phase = "up"
  /\ running' = FALSE
  /\ IF engine = "upbit" /\ ws
     THEN phase' = "closing" /\ open' = FALSE /\ UNCHANGED <<state, scannerVars>>
     ELSE state' = Stopped /\ UNCHANGED open /\ StopTheScanner
  /\ UNCHANGED <<market, engine, error, runtime_error, ws, boot, source>>

EngineClosed ==
  /\ phase = "closing"
  /\ state' = Stopped
  /\ StopTheScanner
  /\ UNCHANGED <<market, engine, running, error, runtime_error, ws, open, boot, source>>

CancelScanner == ScannerCancelling /\ ScannerCancelled /\ UNCHANGED <<phase, marketVars>>

ScannerJoined ==
  /\ phase = "scanner" /\ scanner = "ended"
  /\ phase' = "joining"
  /\ UNCHANGED <<marketVars, scannerVars>>

\* Mutant: lifespan awaits the market task without cancelling it.
NeverCancelled == FALSE /\ UNCHANGED vars

(* task.cancel(): the exception closes the connection on its way out. *)
CancelMarket ==
  /\ Cancelling /\ market \in Awaiting
  /\ market' = "cancelled" /\ open' = FALSE
  /\ UNCHANGED <<phase, engine, running, state, error, runtime_error, ws, boot, source, scannerVars>>

\* Mutant: lifespan does not await the task it has cancelled.
NotJoined ==
  /\ phase = "joining"
  /\ phase' = "down"
  /\ UNCHANGED <<marketVars, scannerVars>>

MarketJoined ==
  /\ phase = "joining" /\ market \in Ended
  /\ phase' = "down"
  /\ UNCHANGED <<marketVars, scannerVars>>

(* The process is killed or, once down, started again on the same database. *)
Restart ==
  /\ Fault
  /\ phase' = "up"
  /\ market' = "new" /\ engine' = "none" /\ boot' = <<>>
  /\ running' = FALSE /\ state' = "idle" /\ error' = FALSE /\ runtime_error' = FALSE
  /\ ws' = FALSE /\ open' = FALSE
  /\ UNCHANGED source
  /\ ReseedScanner

Shutdown == EngineClosed \/ CancelScanner \/ ScannerJoined \/ CancelMarket \/ MarketJoined

ScannerTask == ~ScannerCancelling /\ ScannerStep /\ UNCHANGED <<phase, marketVars>>

Next == MarketStep \/ ScannerTask \/ Stop \/ Shutdown \/ Restart

(* Every await of the tasks ends: requests and connections have timeouts, the  *)
(* sleeps are finite.  Only a message need never come, nor a stop.             *)
Spec ==
  /\ Init /\ [][Next]_vars
  /\ WF_vars(Shutdown) /\ WF_vars(ScannerTask)
  /\ WF_vars(StartRuntime \/ CatalogLoaded \/ CandlesLoaded \/ NoCandles \/ MarketEvaluated)
  /\ WF_vars(Connected \/ StreamFails) /\ WF_vars(Subscribed \/ Handled \/ Reconnect \/ Tick)

-----------------------------------------------------------------------------
(* Whatever the two tasks were doing when the shutdown began, they have ended  *)
(* and no connection is open once lifespan returns (main.py:80).               *)
NothingOutlivesShutdown ==
  phase = "down" => ~open /\ market \in Ended /\ scanner \in {"none", "ended"}

(* A fallback to the simulator leaves no connection behind, and takes over     *)
(* every market, also those Upbit had loaded before it failed: wherever one of *)
(* its statements fails, no row of the old source is left once the status      *)
(* counts as ready, nor as long as the simulator runs (runtime.py:38,          *)
(* market_simulator.py:41).                                                    *)
SimulatorAlone ==
  engine = "simulator" =>
    /\ ~open
    /\ market # "failed" \/ Ready => \A s \in Traded : source[s] = "simulator"

(* An error that the status shows beside "streaming" is the reason of a        *)
(* fallback, never that of a connection or a bootstrap before, however often   *)
(* the stream was lost and the engine stopped (upbit_provider.py:238,          *)
(* runtime.py:66).                                                             *)
ErrorsAreCurrent ==
  state = "streaming" /\ LastError => ActiveSource # RequestedSource

(* The state of the source counts as ready only after the turn of all markets  *)
(* in the bootstrap, whatever stop and fallback write to it meanwhile; one     *)
(* without candles has had its turn (main.py:164).                             *)
ReadyMeansLoaded == Ready => boot = <<>> /\ market \notin {"new", "catalog"}

(* The synthetic provider replaces Yahoo only after a refresh in which not a   *)
(* single instrument was answered (scanner_providers.py:158), so no price of   *)
(* this refresh is overwritten.                                                *)
FallbackOnlyWithoutAnswer ==
  [][provider = "yahoo" /\ provider' = "synthetic" =>
       updates = <<>> /\ todo = <<>>]_vars

(* Once failures end, a running process serves market data for good: it is     *)
(* streaming from Upbit again or simulating (upbit_provider.py:136).           *)
EventuallyServing ==
  <>[](phase = "up" /\ market # "failed" => market \in {"receive", "handle", "tick"})

(* Once failures end, a running scanner is back on the requested provider and, *)
(* between refreshes, each price is from the provider its runtime state names  *)
(* (scanner_runtime.py:55; docs/TROUBLESHOOTING_KO.md, section 1).             *)
EventuallyRecovered ==
  <>[](phase = "up" /\ scanner = "sleep" =>
         \A s \in Scanned : {provider, price_source[s], data_source[s]} = {Build(RequestedProvider)})

(* A shutdown ends, wherever the tasks are, also when Upbit's bootstrap fails  *)
(* after the stop and the simulator starts (runtime.py:43).                    *)
ShutdownCompletes ==
  phase \in {"closing", "scanner", "joining"} ~> phase \in {"down", "up"}

(* After a fallback the status of the scanner shows the error that caused it   *)
(* (tests/test_scanner_runtime.py:94).                                         *)
ScannerErrorShown ==
  scanner = "sleep" /\ provider # Build(RequestedProvider) => scanner_error
=============================================================================
