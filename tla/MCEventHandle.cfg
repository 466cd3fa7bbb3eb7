SPECIFICATION LiveSpec
CONSTANTS
  Senders = {s1}
  Topics = {"rec", "stor"}
  MaxEvents = 3
  MaxQueue = 2
  MaxLives = 2
INVARIANT PublishedWhole
PROPERTY FreeReturns
CHECK_DEADLOCK FALSE
