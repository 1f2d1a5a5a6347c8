SPECIFICATION Spec
CONSTANTS
  Clients = {c1, c2}
  Senders = {engine, scanner}
  MaxMessages = 3
INVARIANTS TypeOK InTimestampOrder EveryMemberServed
PROPERTIES StableIteration BroadcastsEnd DeadForgotten
CHECK_DEADLOCK FALSE
