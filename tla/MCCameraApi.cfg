SPECIFICATION Spec
CONSTANTS
  Events = {e1, e2}
  Messages <- MCMessages
  NoEvent = NoEvent
  MaxRetries = 2
INVARIANTS
  EventConserved
  ReportsToLiveAgent
  KeptUntilReported
  TimesExist
  DownIsQuiet
SYMMETRY Symmetry
CHECK_DEADLOCK FALSE
