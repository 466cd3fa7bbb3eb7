SPECIFICATION Spec
CONSTANTS
  Users = {u1}
  NoUser = NoUser
PROPERTY UnbindingOpensGate
