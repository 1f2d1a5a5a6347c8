------------------------ MODULE MarketRuntimeProofs ------------------------
(***************************************************************************)
(* Theorems about MarketRuntime, for any markets, instruments, providers,  *)
(* sources, fallback settings and number of failures.                      *)
(***************************************************************************)
EXTENDS MarketRuntime, TLAPS

(* What the engine is decides where the task can be, and only a connection    *)
(* that the task is using is open.  A simulator whose start failed may have    *)
(* left rows of the old source, but then its state does not count as ready.    *)
EngineInv ==
  /\ engine = "none" => market \in {"new"} \cup Ended
  /\ engine = "upbit" => market \in Upbit \cup Ended /\ RequestedSource = "upbit"
  /\ engine = "simulator" =>
       /\ market \in {"tick"} \cup Ended
       /\ market # "failed" \/ Ready => \A s \in Traded : source[s] = "simulator"
  /\ open => market \in {"subscribe", "receive", "handle"}

(* The reason of a failed bootstrap is kept only with a fallback or at the end *)
(* of the task, and an error of the stream until the next subscription.        *)
ErrorInv ==
  /\ engine # "upbit" => ~error
  /\ engine = "none" => ~runtime_error /\ state = "idle"
  /\ engine = "upbit" /\ runtime_error => market \in Ended
  /\ engine = "upbit" /\ state = "streaming" => ~error /\ ~runtime_error
  /\ engine = "simulator" /\ runtime_error => RequestedSource = "upbit"

(* Until the bootstrap is through no state counts as ready, and it is through *)
(* once the task streams.                                                     *)
BootInv ==
  /\ market \in {"new", "catalog"} \/ boot # <<>> => ~Ready
  /\ market \in {"candles", "evaluate"} => boot # <<>>
  /\ market \in {"connect", "subscribe", "receive", "handle", "retry"} => boot = <<>>

(* The scanner is joined before the market task is cancelled. *)
ShutdownInv ==
  /\ phase \in {"joining", "down"} => scanner \in {"none", "ended"}
  /\ phase = "down" => market \in Ended

(* The task fetches only from Yahoo, and Yahoo is used only if requested. *)
ScannerInv ==
  /\ scanner = "fetch" => trying = "yahoo"
  /\ "yahoo" \in {provider, trying} => Build(RequestedProvider) = "yahoo"

MarketType ==
  /\ market \in Awaiting \cup Ended
  /\ engine \in {"none", "upbit", "simulator"}
  /\ state \in {"idle", "bootstrapping", "connecting", "streaming", "reconnecting", "stopped"}
  /\ {running, error, runtime_error, ws, open} \subseteq BOOLEAN
  /\ boot \in Seq(Traded)
  /\ source \in [Traded -> {"bootstrap", "upbit", "simulator"}]

PhaseType == phase \in {"up", "closing", "scanner", "joining", "down"}

(* The inductive invariant, as what the engine and its task keep true, what   *)
(* the scanner keeps true, and what the shutdown does.                        *)
MarketInv  == MarketType /\ EngineInv /\ ErrorInv /\ BootInv
RefreshInv == TypeOKScanner /\ ScannerInv
IInv       == MarketInv /\ RefreshInv /\ PhaseType /\ ShutdownInv

-----------------------------------------------------------------------------
(* The scanner. *)

LEMMA EmptySequence == \A S : <<>> \in Seq(S)
OBVIOUS

LEMMA FaultsType ==
  ASSUME faults \in 0..MaxFaults, NEW n \in Nat, Faults(n)
  PROVE  faults' \in 0..MaxFaults
BY ScannerAssumption DEF Faults

LEMMA FaultType ==
  ASSUME faults \in 0..MaxFaults, Fault
  PROVE  faults' \in 0..MaxFaults
BY FaultsType DEF Fault

(* Some failures, or none. *)
Faulty == \E n \in Nat : Faults(n)

LEMMA FaultyType ==
  ASSUME faults \in 0..MaxFaults
  PROVE  /\ Faulty => faults' \in 0..MaxFaults
         /\ Fault => Faulty
         /\ UNCHANGED faults => Faulty
<1>1. Faulty => faults' \in 0..MaxFaults
  BY FaultsType DEF Faulty
<1>2. UNCHANGED faults => Faults(0)
  BY ScannerAssumption DEF Faults
<1> QED  BY <1>1, <1>2 DEF Faulty, Fault

LEMMA InstrumentsType ==
  /\ Instruments \in Seq(Scanned) /\ Tail(Instruments) \in Seq(Scanned)
  /\ \A i \in DOMAIN Instruments : Instruments[i] \in Scanned
<1>1. \A i \in DOMAIN Instruments : Instruments[i] \in Scanned
  BY DEF Scanned
<1>2. Instruments \in Seq(Scanned)
  BY <1>1, ScannerAssumption
<1> QED  BY <1>1, <1>2, ScannerAssumption

LEMMA ProviderType ==
  ASSUME RefreshInv
  PROVE  /\ RefreshProvider \in Providers /\ Build(RequestedProvider) \in Providers
         /\ RefreshProvider = "yahoo" => Build(RequestedProvider) = "yahoo"
         /\ provider = "yahoo" => RefreshProvider = "yahoo"
BY DEF RefreshInv, TypeOKScanner, ScannerInv, RefreshProvider, Build, Providers

(* A refresh with the synthetic provider, whichever of its statements fails. *)
LEMMA SyntheticStep ==
  ASSUME RefreshInv, NEW e \in BOOLEAN, SyntheticRefresh(e),
         scanner_running' \in BOOLEAN, trying' \in Providers,
         trying' = "yahoo" => Build(RequestedProvider) = "yahoo"
  PROVE  RefreshInv'
<1>1. CASE scanner' = "apply"
  BY <1>1, InstrumentsType, EmptySequence
  DEF SyntheticRefresh, RefreshInv, TypeOKScanner, ScannerInv, Providers, RefreshRaises
<1>2. CASE scanner' # "apply"
  <2>1. /\ Fault /\ RefreshRaises /\ provider' = "synthetic"
        /\ price_source' \in [Scanned -> Providers] /\ data_source' \in [Scanned -> Providers]
    BY <1>2 DEF SyntheticRefresh, RefreshInv, TypeOKScanner, Providers
  <2>2. faults' \in 0..MaxFaults
    BY <2>1, FaultType DEF RefreshInv, TypeOKScanner
  <2> QED
    BY <2>1, <2>2, EmptySequence DEF RefreshRaises, RefreshInv, TypeOKScanner, ScannerInv, Providers
<1> QED  BY <1>1, <1>2

LEMMA BeginStep ==
  ASSUME RefreshInv, NEW s \in {"idle", "scanning", "error", "stopped"}, BeginRefresh(s),
         scanner_running' \in BOOLEAN
  PROVE  RefreshInv'
<1>1. CASE RefreshProvider = "yahoo"
  BY <1>1, ProviderType, InstrumentsType
  DEF BeginRefresh, RefreshInv, TypeOKScanner, ScannerInv, scannerData
<1>2. CASE RefreshProvider # "yahoo"
  <2>1. /\ SyntheticRefresh(FALSE) /\ trying' \in Providers /\ trying' # "yahoo"
    BY <1>2, ProviderType DEF BeginRefresh
  <2> QED  BY <2>1, SyntheticStep
<1> QED  BY <1>1, <1>2

(* The next update of a refresh. *)
LEMMA ApplyStep ==
  ASSUME RefreshInv, NEW rows \in Seq(Scanned), NEW from \in Providers, NEW e \in BOOLEAN,
         Apply(rows, from, e)
  PROVE  /\ scanner' \in {"sleep", "apply"} /\ scanner_error' \in BOOLEAN
         /\ updates' \in Seq(Scanned) /\ data_source' \in [Scanned -> Providers]
<1>1. CASE rows = <<>>
  BY <1>1, EmptySequence DEF Apply, RefreshInv, TypeOKScanner
<1>2. CASE rows # <<>>
  <2>1. Tail(rows) \in Seq(Scanned)
    BY <1>2
  <2> QED  BY <1>2, <2>1 DEF Apply, RefreshInv, TypeOKScanner
<1> QED  BY <1>1, <1>2

LEMMA ScannerTaskStep ==
  ASSUME RefreshInv, ScannerStep
  PROVE  RefreshInv'
<1> USE DEF RefreshInv
<1>1. CASE StartScanner
  BY <1>1, BeginStep DEF StartScanner
<1>2. CASE WakeScanner
  <2>1. CASE scanner_running
    BY <1>2, <2>1, BeginStep DEF WakeScanner, TypeOKScanner
  <2>2. CASE ~scanner_running
    BY <1>2, <2>2 DEF WakeScanner, TypeOKScanner, ScannerInv, scannerData
  <2> QED  BY <2>1, <2>2
<1>3. CASE FetchOne
  <2>1. /\ Tail(todo) \in Seq(Scanned) /\ Head(todo) \in Scanned
        /\ Append(updates, Head(todo)) \in Seq(Scanned)
    BY <1>3 DEF FetchOne, TypeOKScanner
  <2>2. faults' \in 0..MaxFaults
    BY <1>3, FaultType DEF FetchOne, TypeOKScanner
  <2> QED  BY <1>3, <2>1, <2>2 DEF FetchOne, TypeOKScanner, ScannerInv, scannerStatus, Providers
<1>4. CASE FinishFetch
  <2>1. CASE SomeFetched
    <3>1. /\ scanner' \in {"sleep", "apply"} /\ scanner_error' \in BOOLEAN
          /\ updates' \in Seq(Scanned) /\ data_source' \in [Scanned -> Providers]
      BY <1>4, <2>1, ApplyStep DEF FinishFetch, TypeOKScanner
    <3> QED  BY <1>4, <2>1, <3>1 DEF FinishFetch, TypeOKScanner, ScannerInv
  <2>2. CASE ~SomeFetched /\ FallbackToSynthetic
    BY <1>4, <2>2, SyntheticStep DEF FinishFetch, TypeOKScanner, ScannerInv
  <2>3. CASE ~SomeFetched /\ ~FallbackToSynthetic
    BY <1>4, <2>3 DEF FinishFetch, RefreshRaises, TypeOKScanner, ScannerInv, scannerData
  <2> QED  BY <2>1, <2>2, <2>3
<1>5. CASE ApplyNext
  <2>1. /\ scanner' \in {"sleep", "apply"} /\ scanner_error' \in BOOLEAN
        /\ updates' \in Seq(Scanned) /\ data_source' \in [Scanned -> Providers]
    BY <1>5, ApplyStep DEF ApplyNext, TypeOKScanner
  <2> QED  BY <1>5, <2>1 DEF ApplyNext, TypeOKScanner, ScannerInv
<1>6. CASE ApplyFails
  <2>1. faults' \in 0..MaxFaults
    BY <1>6, FaultType DEF ApplyFails, TypeOKScanner
  <2> QED
    BY <1>6, <2>1, EmptySequence DEF ApplyFails, RefreshRaises, TypeOKScanner, ScannerInv, scannerData
<1> QED  BY <1>1, <1>2, <1>3, <1>4, <1>5, <1>6 DEF ScannerStep

(* What the market task and the shutdown do to the scanner. *)
LEMMA ScannerHandled ==
  ASSUME RefreshInv,
         \/ CreateScannerTask /\ Faulty
         \/ StopScanner \/ ScannerCancelled
         \/ Faulty /\ ReseedScanner
         \/ Faulty /\ UNCHANGED scannerLocals
         \/ UNCHANGED scannerVars
  PROVE  RefreshInv'
<1> USE DEF RefreshInv, TypeOKScanner, ScannerInv
<1>1. CASE CreateScannerTask /\ Faulty
  BY <1>1, FaultyType DEF CreateScannerTask, scannerStatus, scannerData
<1>2. CASE StopScanner
  BY <1>2 DEF StopScanner, scannerData
<1>3. CASE ScannerCancelled
  BY <1>3 DEF ScannerCancelled, scannerStatus, scannerData
<1>4. CASE Faulty /\ ReseedScanner
  BY <1>4, ProviderType, FaultyType, EmptySequence DEF ReseedScanner, FreshScanner, Providers
<1>5. CASE Faulty /\ UNCHANGED scannerLocals
  BY <1>5, FaultyType DEF scannerLocals, scannerStatus, scannerData
<1>6. CASE UNCHANGED scannerVars
  BY <1>6 DEF scannerVars, scannerLocals, scannerStatus, scannerData
<1> QED  BY <1>1, <1>2, <1>3, <1>4, <1>5, <1>6

-----------------------------------------------------------------------------
(* The engine and its task. *)

LEMMA MarketsType == Markets \in Seq(Traded) /\ Markets # <<>>
<1>1. \A i \in DOMAIN Markets : Markets[i] \in Traded
  BY DEF Traded
<1> QED  BY <1>1, MarketAssumption

LEMMA SimulateFacts ==
  ASSUME MarketType, NEW n \in Nat
  PROVE  /\ Simulate(n) \in [Traded -> {"bootstrap", "upbit", "simulator"}]
         /\ \A s \in Traded : Simulate(Len(Markets))[s] = "simulator"
<1>1. Simulate(n) \in [Traded -> {"bootstrap", "upbit", "simulator"}]
  BY DEF Simulate, MarketType
<1>2. \A s \in Traded : \E i \in 1..Len(Markets) : Markets[i] = s
  BY MarketAssumption DEF Traded
<1> QED  BY <1>1, <1>2 DEF Simulate

LEMMA SimulatorStarts ==
  ASSUME MarketInv, NEW n \in Nat, StartSimulator(n), runtime_error' \in BOOLEAN,
         runtime_error' => RequestedSource = "upbit"
  PROVE  /\ MarketInv'
         /\ Faults(n) \/ Faults(n + 1)
<1>1. Len(Markets) \in Nat /\ MarketType
  BY MarketAssumption DEF MarketInv
<1>2. /\ source' \in [Traded -> {"bootstrap", "upbit", "simulator"}]
      /\ market' # "failed" \/ state' = "streaming" => \A s \in Traded : source'[s] = "simulator"
      /\ market' \in {"tick", "failed"} /\ state' \in {"bootstrapping", "streaming"}
      /\ Faults(n) \/ Faults(n + 1)
  <2>1. CASE source' = Simulate(Len(Markets))
    BY <1>1, <2>1, SimulateFacts DEF StartSimulator
  <2>2. CASE source' # Simulate(Len(Markets))
    BY <1>1, <2>2, SimulateFacts DEF StartSimulator
  <2> QED  BY <2>1, <2>2
<1>3. /\ engine' = "simulator" /\ running' = TRUE /\ error' = FALSE
      /\ ws' = FALSE /\ open' = FALSE /\ boot' = <<>>
  BY DEF StartSimulator
<1> QED
  BY <1>2, <1>3, EmptySequence
  DEF MarketInv, MarketType, EngineInv, ErrorInv, BootInv, Ready, Upbit, Awaiting, Ended

LEMMA NextMarketStep ==
  ASSUME MarketInv, NextMarket, market \in {"candles", "evaluate"}, UNCHANGED source
  PROVE  MarketInv'
<1>1. Tail(boot) \in Seq(Traded)
  BY DEF MarketInv, MarketType, BootInv
<1>2. CASE Tail(boot) # <<>>
  BY <1>1, <1>2 DEF NextMarket, MarketInv, MarketType, EngineInv, ErrorInv, BootInv, Ready, Upbit, Awaiting, Ended
<1>3. CASE Tail(boot) = <<>>
  BY <1>1, <1>3 DEF NextMarket, MarketInv, MarketType, EngineInv, ErrorInv, BootInv, Ready, Upbit, Awaiting, Ended
<1> QED  BY <1>2, <1>3

LEMMA MarketTaskStep ==
  ASSUME MarketInv, MarketStep
  PROVE  MarketInv'
<1> USE DEF MarketInv, Runs, Upbit, Awaiting, Ended
<1>1. CASE StartRuntime
  <2>1. CASE RequestedSource = "upbit"
    BY <1>1, <2>1 DEF StartRuntime, MarketType, EngineInv, ErrorInv, BootInv, Ready
  <2>2. CASE RequestedSource # "upbit"
    BY <1>1, <2>2, SimulatorStarts DEF StartRuntime, MarketType, EngineInv, ErrorInv
  <2> QED  BY <2>1, <2>2
<1>2. CASE CatalogLoaded
  BY <1>2, MarketsType DEF CatalogLoaded, MarketType, EngineInv, ErrorInv, BootInv, Ready, engineVars
<1>3. CASE CandlesLoaded
  BY <1>3 DEF CandlesLoaded, MarketType, EngineInv, ErrorInv, BootInv, Ready, engineVars
<1>4. CASE NoCandles \/ MarketEvaluated
  BY <1>4, NextMarketStep DEF NoCandles, MarketEvaluated
<1>5. CASE BootstrapFails
  <2>1. RequestedSource = "upbit" /\ runtime_error' \in BOOLEAN
    BY <1>5 DEF BootstrapFails, MarketType, EngineInv
  <2>2. CASE FallbackToSimulator
    BY <1>5, <2>1, <2>2, SimulatorStarts DEF BootstrapFails
  <2>3. CASE ~FallbackToSimulator
    BY <1>5, <2>1, <2>3 DEF BootstrapFails, MarketType, EngineInv, ErrorInv, BootInv, Ready
  <2> QED  BY <2>2, <2>3
<1>6. CASE Connected
  BY <1>6 DEF Connected, MarketType, EngineInv, ErrorInv, BootInv, Ready
<1>7. CASE Subscribed
  BY <1>7 DEF Subscribed, MarketType, EngineInv, ErrorInv, BootInv, Ready
<1>8. CASE Message \/ Handled
  BY <1>8 DEF Message, Handled, MarketType, EngineInv, ErrorInv, BootInv, Ready, engineVars
<1>9. CASE StreamEnds
  BY <1>9 DEF StreamEnds, MarketType, EngineInv, ErrorInv, BootInv, Ready
<1>10. CASE StreamFails
  BY <1>10 DEF StreamFails, AfterError, MarketType, EngineInv, ErrorInv, BootInv, Ready
<1>11. CASE Reconnect
  BY <1>11 DEF Reconnect, MarketType, EngineInv, ErrorInv, BootInv, Ready, engineVars
<1>12. CASE Tick
  <2>1. /\ source' \in [Traded -> {"bootstrap", "upbit", "simulator"}]
        /\ \A s \in Traded : source'[s] = "simulator"
    BY <1>12, SimulateFacts, MarketAssumption DEF Tick
  <2> QED  BY <1>12, <2>1 DEF Tick, MarketType, EngineInv, ErrorInv, BootInv, Ready, engineVars
<1>13. CASE SimulatorFails
  BY <1>13 DEF SimulatorFails, MarketType, EngineInv, ErrorInv, BootInv, Ready, engineVars
<1> QED
  BY <1>1, <1>2, <1>3, <1>4, <1>5, <1>6, <1>7, <1>8, <1>9, <1>10, <1>11, <1>12, <1>13
  DEF MarketStep

(* Shutdown and restart, and the steps of the scanner. *)
LEMMA MarketHandled ==
  ASSUME MarketInv, Stop \/ Shutdown \/ Restart \/ UNCHANGED marketVars
  PROVE  MarketInv'
<1> USE DEF MarketInv, Upbit, Awaiting, Ended
<1>1. CASE Stop
  BY <1>1 DEF Stop, Stopped, MarketType, EngineInv, ErrorInv, BootInv, Ready
<1>2. CASE EngineClosed
  BY <1>2 DEF EngineClosed, Stopped, MarketType, EngineInv, ErrorInv, BootInv, Ready
<1>3. CASE CancelMarket
  BY <1>3 DEF CancelMarket, MarketType, EngineInv, ErrorInv, BootInv, Ready
<1>4. CASE Restart
  BY <1>4, EmptySequence DEF Restart, MarketType, EngineInv, ErrorInv, BootInv, Ready
<1>5. CASE UNCHANGED marketVars
  BY <1>5 DEF marketVars, engineVars, MarketType, EngineInv, ErrorInv, BootInv, Ready
<1>6. CASE CancelScanner \/ ScannerJoined \/ MarketJoined
  BY <1>5, <1>6 DEF CancelScanner, ScannerJoined, MarketJoined
<1> QED  BY <1>1, <1>2, <1>3, <1>4, <1>5, <1>6 DEF Shutdown

-----------------------------------------------------------------------------
(* The composition. *)

(* The order of the shutdown: no step of the market task but a fallback       *)
(* touches the phase or the scanner's task, and that one not while joining.   *)
LEMMA ShutdownStep ==
  ASSUME IInv, [Next]_vars
  PROVE  PhaseType' /\ ShutdownInv'
<1> USE DEF IInv, PhaseType, ShutdownInv
<1>1. CASE MarketStep
  <2>1. UNCHANGED phase /\ market \in Awaiting /\ ~Cancelling
    BY <1>1 DEF MarketStep, StartRuntime, CatalogLoaded, CandlesLoaded, NoCandles, MarketEvaluated,
       BootstrapFails, Connected, Subscribed, Message, Handled, StreamEnds, StreamFails,
       Reconnect, Tick, SimulatorFails, NextMarket, Runs, Awaiting, Upbit
  <2> QED  BY <2>1 DEF Cancelling, Awaiting, Upbit, Ended
<1>2. CASE ScannerTask
  <2>1. scanner \notin {"none", "ended"} /\ UNCHANGED <<phase, market>>
    BY <1>2 DEF ScannerTask, ScannerStep, StartScanner, WakeScanner, FetchOne, FinishFetch,
       ApplyNext, ApplyFails, marketVars
  <2> QED  BY <2>1
<1>3. CASE Stop
  BY <1>3 DEF Stop, StopTheScanner, StopScanner
<1>4. CASE EngineClosed
  BY <1>4 DEF EngineClosed, StopTheScanner, StopScanner
<1>5. CASE CancelScanner \/ ScannerJoined \/ CancelMarket \/ MarketJoined
  BY <1>5 DEF CancelScanner, ScannerCancelling, ScannerCancelled, ScannerJoined, CancelMarket,
     MarketJoined, Cancelling, marketVars, scannerVars, scannerLocals, Ended
<1>6. CASE Restart
  BY <1>6 DEF Restart
<1>7. CASE UNCHANGED vars
  BY <1>7 DEF vars, marketVars, scannerVars, scannerLocals
<1> QED  BY <1>1, <1>2, <1>3, <1>4, <1>5, <1>6, <1>7 DEF Next, Shutdown

LEMMA MarketInvStep ==
  ASSUME MarketInv, [Next]_vars
  PROVE  MarketInv'
<1>1. CASE MarketStep
  BY <1>1, MarketTaskStep
<1>2. CASE ScannerTask
  BY <1>2, MarketHandled DEF ScannerTask
<1>3. CASE UNCHANGED vars
  BY <1>3, MarketHandled DEF vars
<1> QED  BY <1>1, <1>2, <1>3, MarketHandled DEF Next

LEMMA RefreshInvStep ==
  ASSUME RefreshInv, [Next]_vars
  PROVE  RefreshInv'
<1>1. CASE ScannerTask
  BY <1>1, ScannerTaskStep DEF ScannerTask
<1>2. ASSUME ~ScannerTask
      PROVE  \/ CreateScannerTask /\ Faulty
             \/ StopScanner \/ ScannerCancelled
             \/ Faulty /\ ReseedScanner
             \/ Faulty /\ UNCHANGED scannerLocals
             \/ UNCHANGED scannerVars
  <2>0. (Fault => Faulty) /\ (UNCHANGED faults => Faulty)
    BY FaultyType DEF RefreshInv, TypeOKScanner
  <2>1. CASE MarketStep
    <3>1. \A n \in Nat : StartSimulator(n) => Faulty
      BY DEF StartSimulator, Faulty
    <3>2. CASE StartRuntime
      BY <2>0, <3>1, <3>2 DEF StartRuntime
    <3>3. CASE BootstrapFails
      BY <2>0, <3>1, <3>3 DEF BootstrapFails
    <3>4. CASE StreamEnds \/ StreamFails \/ SimulatorFails
      BY <2>0, <3>4 DEF StreamEnds, StreamFails, SimulatorFails
    <3> QED
      BY <2>1, <3>2, <3>3, <3>4
      DEF MarketStep, CatalogLoaded, CandlesLoaded, NoCandles, MarketEvaluated,
          Connected, Subscribed, Message, Handled, Reconnect, Tick, NextMarket
  <2>2. CASE Stop
    BY <2>2 DEF Stop, StopTheScanner
  <2>3. CASE Shutdown
    BY <2>3 DEF Shutdown, EngineClosed, CancelScanner, ScannerJoined, CancelMarket, MarketJoined, StopTheScanner
  <2>4. CASE Restart
    BY <2>0, <2>4 DEF Restart
  <2>5. CASE UNCHANGED vars
    BY <2>5 DEF vars
  <2> QED  BY <1>2, <2>1, <2>2, <2>3, <2>4, <2>5 DEF Next
<1> QED  BY <1>1, <1>2, ScannerHandled

LEMMA InitIInv == Init => IInv
<1> SUFFICES ASSUME Init PROVE IInv
  OBVIOUS
<1>1. MarketInv
  BY EmptySequence DEF Init, InitEngine, MarketInv, MarketType, EngineInv, ErrorInv, BootInv, Ready,
     Upbit, Awaiting, Ended
<1>2. RefreshInv
  <2>1. Build(RequestedProvider) \in Providers
    BY DEF Build, Providers
  <2>2. price_source \in [Scanned -> Providers] /\ data_source \in [Scanned -> Providers]
    BY DEF Init, InitScanner, Providers
  <2>3. faults \in 0..MaxFaults
    BY ScannerAssumption DEF Init, InitScanner
  <2> QED
    BY <2>1, <2>2, <2>3, EmptySequence DEF Init, InitScanner, RefreshInv, TypeOKScanner, ScannerInv
<1> QED  BY <1>1, <1>2 DEF Init, IInv, PhaseType, ShutdownInv

(* IInv is inductive. *)
THEOREM Invariance == Spec => []IInv
<1>1. IInv /\ [Next]_vars => IInv'
  BY MarketInvStep, RefreshInvStep, ShutdownStep DEF IInv
<1> QED  BY <1>1, InitIInv, PTL DEF Spec

(* Status, tasks and tables have their types. *)
THEOREM TypeCorrect == Spec => []TypeOK
<1>1. IInv => TypeOK
  BY DEF IInv, MarketInv, MarketType, RefreshInv, PhaseType, TypeOK
<1> QED  BY <1>1, Invariance, PTL

(* Nothing runs and no connection is open once lifespan has returned. *)
THEOREM ShutdownCorrect == Spec => []NothingOutlivesShutdown
<1>1. IInv => NothingOutlivesShutdown
  BY DEF IInv, ShutdownInv, MarketInv, EngineInv, Ended, NothingOutlivesShutdown
<1> QED  BY <1>1, Invariance, PTL

(* The simulator takes over every market, wherever Upbit's bootstrap failed. *)
THEOREM FallbackComplete == Spec => []SimulatorAlone
<1>1. IInv => SimulatorAlone
  BY DEF IInv, MarketInv, EngineInv, Ended, SimulatorAlone
<1> QED  BY <1>1, Invariance, PTL

(* Beside "streaming" only the reason of a fallback is ever shown. *)
THEOREM ErrorsCurrent == Spec => []ErrorsAreCurrent
<1>1. IInv => ErrorsAreCurrent
  BY SourceAssumption
  DEF IInv, MarketInv, MarketType, EngineInv, ErrorInv, ActiveSource, LastError, ErrorsAreCurrent
<1> QED  BY <1>1, Invariance, PTL

(* Readiness is never reported before the bootstrap is through. *)
THEOREM ReadinessCorrect == Spec => []ReadyMeansLoaded
<1>1. IInv => ReadyMeansLoaded
  BY DEF IInv, MarketInv, BootInv, ReadyMeansLoaded
<1> QED  BY <1>1, Invariance, PTL

(* The synthetic provider never replaces Yahoo after an answer. *)
THEOREM FallbackJustified == Spec => FallbackOnlyWithoutAnswer
<1>1. ASSUME IInv, [Next]_vars, provider = "yahoo", provider' = "synthetic"
      PROVE  updates = <<>> /\ todo = <<>>
  <2>1. Build(RequestedProvider) = "yahoo" /\ RefreshProvider = "yahoo"
    BY <1>1, ProviderType DEF IInv, RefreshInv, ScannerInv
  <2>2. CASE ScannerTask
    <3>1. FinishFetch /\ ~SomeFetched
      BY <1>1, <2>1, <2>2
      DEF ScannerTask, ScannerStep, StartScanner, WakeScanner, BeginRefresh, FetchOne, FinishFetch,
          ApplyNext, ApplyFails, IInv, RefreshInv, ScannerInv, Providers
    <3> QED  BY <3>1 DEF FinishFetch, SomeFetched
  <2>3. CASE ~ScannerTask
    <3>1. UNCHANGED provider
      BY <1>1, <2>1, <2>3
      DEF Next, MarketStep, StartRuntime, CatalogLoaded, CandlesLoaded, NoCandles, MarketEvaluated,
       BootstrapFails, Connected, Subscribed, Message, Handled, StreamEnds, StreamFails,
       Reconnect, Tick, SimulatorFails, NextMarket, Stop, Shutdown, EngineClosed, CancelScanner,
       ScannerJoined, CancelMarket, MarketJoined, Restart, StopTheScanner, StopScanner,
       ScannerCancelled, CreateScannerTask, ReseedScanner, FreshScanner,
       vars, scannerVars, scannerLocals
    <3> QED  BY <1>1, <3>1
  <2> QED  BY <2>2, <2>3
<1> QED  BY <1>1, Invariance, PTL DEF FallbackOnlyWithoutAnswer, Spec
=============================================================================
