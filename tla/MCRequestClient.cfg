SPECIFICATION LiveSpec
CONSTANTS
  Calls = {c1, c2}
  IdRange = 8
  FirstId = 4
  Capacity = 1
  Answers = {"ok", "refused", "malformed", "none"}
  MaxDraws = 4
  MaxCrashes = 1
INVARIANTS
  SuccessMeansExecuted
  NothingLeft
  OverlappingIdsDiffer
PROPERTY CallsReturn
CHECK_DEADLOCK FALSE
