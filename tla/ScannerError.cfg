SPECIFICATION Spec
CONSTANTS
  Instruments <- MCInstruments
  Markets <- MCMarkets
  RequestedProvider = "yahoo"
  FallbackToSynthetic = TRUE
  RequestedSource = "upbit"
  FallbackToSimulator = TRUE
  MaxFaults = 4
INVARIANTS ScannerErrorShown
CHECK_DEADLOCK FALSE
