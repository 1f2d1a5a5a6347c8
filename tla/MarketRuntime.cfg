SPECIFICATION Spec
CONSTANTS
  Instruments <- MCInstruments
  Markets <- MCMarkets
  RequestedProvider = "yahoo"
  FallbackToSynthetic = TRUE
  RequestedSource = "upbit"
  FallbackToSimulator = TRUE
  MaxFaults = 4
INVARIANTS TypeOK NothingOutlivesShutdown SimulatorAlone ErrorsAreCurrent ReadyMeansLoaded
PROPERTIES FallbackOnlyWithoutAnswer EventuallyServing EventuallyRecovered ShutdownCompletes
CHECK_DEADLOCK FALSE
