SPECIFICATION FairSpec
CONSTANTS
  Workers = {w1, w2}
  Msgs = {a, b}
  NoMsg = NoMsg
  Kind = "Response"
  Replies = {TRUE, FALSE}
  Faults = {"recv", "send", "append"}
  CreateMayFail = TRUE
INVARIANTS
  TypeOK
  QuietAfterStop
  FreedAioUnused
  NoLostWorker
PROPERTIES
  FreedByOwner
  ServesRequests
  QueuedIsTaken
  FreeReturns
