SPECIFICATION HSpec
CONSTANTS
  btc = btc
  aapl = aapl
  engine = engine
  scanner = scanner
  Users = {u1}
  Symbols = {aapl}
  Kinds = {buy}
  SignalIds = {s1}
  Tasks = {scanner}
  TaskOf <- MCTaskOf
  ScannerTask = scanner
  ScannerSessions = {"regular", "closed"}
  AllowedSessions = {"regular"}
  AllowDelayed = FALSE
  DedupSeconds = 1
  MaxTime = 0
  MaxAborts = 0
  None = None
INVARIANTS ReasonExplains
