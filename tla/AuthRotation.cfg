SPECIFICATION HSpec
CONSTANTS
  Users = {u1}
  Passwords = {p1}
  SessionIds = {s1, s2, s3}
  LinkIds = {}
  Requests = {r1, r2}
  SessionTTL = 1
  LinkTTL = 1
  MaxTime = 1
  MaxAborts = 0
  None = None
SYMMETRY Interchangeable
INVARIANTS RotationIsOneToOne
