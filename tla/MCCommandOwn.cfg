SPECIFICATION Spec
CONSTANTS
  Calls = {c1, c2}
  NoCall = NoCall
  Dummy = Dummy
INVARIANT OwnResponse
