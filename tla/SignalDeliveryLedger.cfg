SPECIFICATION Spec
CONSTANTS
  btc = btc
  aapl = aapl
  engine = engine
  scanner = scanner
  Users = {u1}
  Symbols = {aapl}
  Kinds = {buy}
  SignalIds = {s1, s2}
  Tasks = {scanner}
  TaskOf <- MCTaskOf
  ScannerTask = scanner
  ScannerSessions = {"regular", "closed"}
  AllowedSessions = {"regular"}
  AllowDelayed = FALSE
  DedupSeconds = 1
  MaxTime = 2
  MaxAborts = 1
  None = None
INVARIANTS TypeOK DedupWindow
PROPERTIES ImplementsLedger
