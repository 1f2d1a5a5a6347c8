SPECIFICATION HSpec
CONSTANTS
  Users = {u1}
  Passwords = {p1, p2}
  SessionIds = {s1, s2}
  LinkIds = {l1, l2}
  Requests = {r1, r2}
  SessionTTL = 1
  LinkTTL = 1
  MaxTime = 1
  MaxAborts = 1
  None = None
SYMMETRY Interchangeable
INVARIANTS TypeOK RotatedIsClosed
PROPERTIES StaleIsRefused ResetClosesSessions EarlierLinksAreSpent
