SPECIFICATION Spec
CONSTANTS
  MaxSignals = 4
  Filters <- MCFilters
  BatchFactor = 1
  MinBatch = 2
  CandleCounts = {0, 1, 14, 15, 19, 20, 21, 120}
  RsiValues = {20, 35, 50, 68, 90}
  VolumeValues = {10, 20}
  RsiThresholds = {35, 68}
  Multipliers = {10, 20}
  ScoreThresholds = {1, 25, 60, 100}
  Intervals = {"upbit-1m", "upbit-5m", "demo-10s", "scanner-1d"}
  SourceOf <- MCSourceOf
  ScannerInterval = "scanner-1d"
  Lengths = {0, 10, 60}
  CandleLimits <- MCCandleLimits
  None = None
  Unset = Unset
  NoInterval = NoInterval
INVARIANTS TypeOK NothingMissed RepeatsOnlyShifted ActiveSourceShown VerdictsFounded OneSided
CHECK_DEADLOCK FALSE
