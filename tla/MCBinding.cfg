SPECIFICATION Spec
CONSTANTS
  Users = {u1}
  NoUser = NoUser
INVARIANTS UnboundStaysUnbound GateNeedsGrant
