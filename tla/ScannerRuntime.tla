--------------------------- MODULE ScannerRuntime ---------------------------
(***************************************************************************)
(* The scanner of app/scanner_runtime.py and its providers: a task that    *)
(* refreshes the prices of the watch-only instruments, replaces a failing  *)
(* provider by the synthetic one and tries the requested one again at the  *)
(* next refresh.  A step is the code between two awaits: the Yahoo         *)
(* provider awaits one answer per instrument, the synthetic one awaits     *)
(* nothing, and the loop over the updates awaits the broadcast and the     *)
(* evaluation of each.  For every instrument the model keeps which         *)
(* provider the stored price and the runtime state come from.              *)
(*                                                                         *)
(* Bounds: MaxFaults (failed requests, statements and kills).              *)
(***************************************************************************)
EXTENDS Naturals, Sequences

CONSTANTS
  Instruments,          \* list_scanner_instruments(), in its order
  RequestedProvider,    \* SCANNER_PROVIDER
  FallbackToSynthetic,  \* SCANNER_PROVIDER_FALLBACK_TO_SYNTHETIC
  MaxFaults

ASSUME ScannerAssumption ==
  /\ Instruments \in Seq(STRING) /\ Instruments # <<>>
  /\ FallbackToSynthetic \in BOOLEAN
  /\ MaxFaults \in Nat

Scanned   == {Instruments[i] : i \in DOMAIN Instruments}
Providers == {"synthetic", "yahoo"}

VARIABLES
  scanner,       \* where the task awaits: none, new, fetch, apply, sleep, ended
  scanner_running, scanner_state, scanner_error,   \* _running and _status
  provider,      \* _provider, which _status names as active_provider
  trying,        \* local of refresh_once: the provider it called
  todo, updates, \* instruments still to ask for, updates still to apply
  price_source,  \* assets: the provider of each instrument's price
  data_source,   \* instrument_runtime_state.data_source
  faults         \* failures so far

scannerStatus == <<scanner_running, scanner_state, scanner_error>>
scannerData   == <<price_source, data_source>>
scannerLocals == <<scanner, scannerStatus, provider, trying, todo, updates, scannerData>>
scannerVars   == <<scannerLocals, faults>>

Build(name) == IF name = "yahoo" THEN "yahoo" ELSE "synthetic"

\* Mutant: the provider of the last refresh is kept, a fallback is for ever.
KeepProvider == provider

(* _refresh_provider: after a fallback, the requested provider again. *)
RefreshProvider ==
  IF provider = "synthetic" THEN Build(RequestedProvider) ELSE provider

TypeOKScanner ==
  /\ scanner \in {"none", "new", "fetch", "apply", "sleep", "ended"}
  /\ scanner_running \in BOOLEAN /\ scanner_error \in BOOLEAN
  /\ scanner_state \in {"idle", "scanning", "error", "stopped"}
  /\ provider \in Providers /\ trying \in Providers
  /\ todo \in Seq(Scanned) /\ updates \in Seq(Scanned)
  /\ price_source \in [Scanned -> Providers]
  /\ data_source \in [Scanned -> Providers]
  /\ faults \in 0..MaxFaults

(* A new object: what __init__ sets; no task yet. *)
FreshScanner(task) ==
  /\ scanner' = task
  /\ scanner_running' = FALSE /\ scanner_state' = "idle" /\ scanner_error' = FALSE
  /\ provider' = Build(RequestedProvider) /\ trying' = Build(RequestedProvider)
  /\ todo' = <<>> /\ updates' = <<>>

InitScanner ==
  /\ scanner = "none"
  /\ scanner_running = FALSE /\ scanner_state = "idle" /\ scanner_error = FALSE
  /\ provider = Build(RequestedProvider) /\ trying = Build(RequestedProvider)
  /\ todo = <<>> /\ updates = <<>>
  /\ price_source = [s \in Scanned |-> "synthetic"]
  /\ data_source = [s \in Scanned |-> "synthetic"]
  /\ faults = 0

Faults(n) == faults + n <= MaxFaults /\ faults' = faults + n
Fault     == Faults(1)

-----------------------------------------------------------------------------
Prefix(n) == {Instruments[i] : i \in 1..n}

(* The exception leaves refresh_once: the loop of start records it and sleeps. *)
RefreshRaises ==
  /\ scanner' = "sleep"
  /\ scanner_state' = "error" /\ scanner_error' = TRUE
  /\ todo' = <<>> /\ updates' = <<>>

(* The loop over the updates stores the state of the next one and awaits its  *)
(* broadcast and evaluation; after the last one start clears last_error.      *)
Apply(rows, source, error) ==
  IF rows = <<>>
  THEN /\ scanner' = "sleep" /\ scanner_error' = FALSE
       /\ updates' = <<>>
       /\ UNCHANGED data_source
  ELSE /\ scanner' = "apply" /\ scanner_error' = error
       /\ updates' = Tail(rows)
       /\ data_source' = [data_source EXCEPT ![Head(rows)] = source]

(* SyntheticScannerProvider.refresh awaits nothing: it stores price and state  *)
(* of one instrument after the other and refresh_once enters the loop over the *)
(* updates, or a statement fails on the way and no other provider is tried.    *)
SyntheticRefresh(error) ==
  /\ provider' = "synthetic"
  /\ \/ /\ price_source' = [s \in Scanned |-> "synthetic"]
        /\ data_source' = [s \in Scanned |-> "synthetic"]
        /\ scanner' = "apply" /\ updates' = Tail(Instruments) /\ todo' = <<>>
        /\ scanner_error' = error
        /\ scanner_state' = IF scanner_running' THEN "scanning" ELSE scanner_state
        /\ UNCHANGED faults
     \/ /\ Fault
        /\ \E prices, states \in 0..Len(Instruments) :
             /\ prices \in {states, states + 1} /\ states < Len(Instruments)
             /\ price_source' = [s \in Scanned |-> IF s \in Prefix(prices) THEN "synthetic" ELSE price_source[s]]
             /\ data_source' = [s \in Scanned |-> IF s \in Prefix(states) THEN "synthetic" ELSE data_source[s]]
        /\ RefreshRaises

(* refresh_once up to its first await, from _status['state'] = state. *)
BeginRefresh(state) ==
  /\ trying' = RefreshProvider
  /\ IF RefreshProvider = "yahoo"
     THEN /\ scanner' = "fetch" /\ todo' = Instruments /\ updates' = <<>>
          /\ scanner_state' = state
          /\ UNCHANGED <<scanner_error, provider, scannerData, faults>>
     ELSE SyntheticRefresh(FALSE)

(* start: its first step, and each turn of its loop after the sleep. *)
StartScanner ==
  /\ scanner = "new"
  /\ scanner_running' = TRUE
  /\ BeginRefresh("scanning")

WakeScanner ==
  /\ scanner = "sleep"
  /\ UNCHANGED scanner_running
  /\ IF scanner_running
     THEN BeginRefresh(scanner_state)
     ELSE /\ scanner' = "ended"
          /\ UNCHANGED <<scanner_state, scanner_error, provider, trying, todo, updates,
                         scannerData, faults>>

(* YahooScannerProvider.refresh: one answer, good or collected as a failure. *)
FetchOne ==
  /\ scanner = "fetch" /\ todo # <<>>
  /\ todo' = Tail(todo)
  /\ \/ /\ price_source' = [price_source EXCEPT ![Head(todo)] = "yahoo"]
        /\ updates' = Append(updates, Head(todo))
        /\ UNCHANGED faults
     \/ Fault /\ UNCHANGED <<price_source, updates>>
  /\ UNCHANGED <<scanner, scannerStatus, provider, trying, data_source>>

\* Mutant: one failed instrument is enough for the provider to raise.
AllFetched == Len(updates) = Len(Instruments)

(* `if not updates and failures: raise`: some instrument was answered. *)
SomeFetched == updates # <<>>

(* The answers are in: refresh_once keeps the provider or falls back. *)
FinishFetch ==
  /\ scanner = "fetch" /\ todo = <<>>
  /\ UNCHANGED <<scanner_running, trying>>
  /\ IF SomeFetched
     THEN /\ provider' = trying
          /\ Apply(updates, trying, FALSE)
          /\ scanner_state' = IF scanner_running THEN "scanning" ELSE scanner_state
          /\ UNCHANGED <<price_source, todo, faults>>
     ELSE IF FallbackToSynthetic
     THEN SyntheticRefresh(TRUE)
     ELSE RefreshRaises /\ UNCHANGED <<provider, scannerData, faults>>

(* After the awaits for one update: the next one, or the end of the refresh. *)
ApplyNext ==
  /\ scanner = "apply"
  /\ Apply(updates, provider, scanner_error)
  /\ UNCHANGED <<scanner_running, scanner_state, provider, trying, todo, price_source, faults>>

(* The evaluation of the symbol, or the statement that stores the next state, raises. *)
ApplyFails ==
  /\ scanner = "apply"
  /\ Fault
  /\ RefreshRaises
  /\ UNCHANGED <<scanner_running, provider, trying, scannerData>>

ScannerStep == StartScanner \/ WakeScanner \/ FetchOne \/ FinishFetch \/ ApplyNext \/ ApplyFails

(* asyncio.create_task(self._scanner.start()). *)
CreateScannerTask ==
  /\ scanner' = "new"
  /\ UNCHANGED <<scannerStatus, provider, trying, todo, updates, scannerData>>

(* stop, which awaits nothing. *)
StopScanner ==
  /\ scanner_running' = FALSE
  /\ scanner_state' = IF scanner_state = "idle" THEN "idle" ELSE "stopped"
  /\ UNCHANGED <<scanner, scanner_error, provider, trying, todo, updates, scannerData, faults>>

(* The cancellation is delivered: no handler of the task catches it. *)
ScannerCancelled ==
  /\ scanner \in {"new", "fetch", "apply", "sleep"}
  /\ scanner' = "ended" /\ todo' = <<>> /\ updates' = <<>>
  /\ UNCHANGED <<scannerStatus, provider, trying, scannerData, faults>>

(* A new process after a kill: seed_discoverable_scanner_data stores synthetic *)
(* prices over the old ones and leaves an existing runtime state alone.        *)
ReseedScanner ==
  /\ FreshScanner("none")
  /\ price_source' = [s \in Scanned |-> "synthetic"]
  /\ UNCHANGED data_source
=============================================================================
