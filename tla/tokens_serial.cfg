CONSTANTS
  u1 = u1
  u2 = u2
  r1 = r1
  r2 = r2
  Users = {u1, u2}
  Requests = {r1}
  MaxTokens = 3
  NoUser = NoUser
SPECIFICATION Spec
SYMMETRY Symmetry
PROPERTIES
  ImplementsLoginSession
  Isolation
