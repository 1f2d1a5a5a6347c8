SPECIFICATION FairSpec
CONSTANTS
  btc = btc
  aapl = aapl
  engine = engine
  scanner = scanner
  Users = {u1}
  Symbols = {aapl}
  Kinds = {buy, sell}
  SignalIds = {s1, s2}
  Tasks = {scanner}
  TaskOf <- MCTaskOf
  ScannerTask = scanner
  ScannerSessions = {"regular", "closed"}
  AllowedSessions = {"regular"}
  AllowDelayed = FALSE
  DedupSeconds = 1
  MaxTime = 0
  MaxAborts = 1
  None = None
PROPERTIES EventuallyPublished
