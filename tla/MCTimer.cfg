SPECIFICATION TimerLiveSpec
CONSTANT MaxStarts = 4
INVARIANTS
  StoppedIsQuiet
PROPERTY StopReturns
CHECK_DEADLOCK FALSE
