SPECIFICATION FairSpec
CONSTANTS
  Calls = {c1, c2}
  NoCall = NoCall
  Dummy = Dummy
INVARIANTS
  TypeOK
  NoStaleContext
  OneAnswerPerCall
PROPERTIES
  ResponseStable
  CallsReturn
