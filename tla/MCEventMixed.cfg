SPECIFICATION Spec
CONSTANTS
  Senders = {s1, s2}
  Topics = {"rec", "stor"}
  MaxEvents = 3
  MaxQueue = 1
  MaxLives = 1
INVARIANT OnlyTargetTopic
CHECK_DEADLOCK FALSE
