SPECIFICATION Spec
CONSTANTS
  Requests = {r1, r2, r3}
  ann = ann
  bob = bob
  Usernames = {demo, ann, bob}
  Mailboxes = {"demo@x", "ann@x"}
  Spellings = {"demo@x", "ann@x", "Ann@x"}
  Normalize <- MCNormalize
  DemoUser = demo
  DemoMailbox = "demo@x"
  MaxFailures = 1
  None = None
SYMMETRY Interchangeable
INVARIANTS TypeOK OneAccountEach HonestSignup
PROPERTIES RevertsOnlyOverlapping AnswerShowsPatch
CHECK_DEADLOCK FALSE
