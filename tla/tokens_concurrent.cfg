CONSTANTS
  u1 = u1
  u2 = u2
  r1 = r1
  r2 = r2
  Users = {u1}
  Requests = {r1, r2}
  MaxTokens = 3
  NoUser = NoUser
SPECIFICATION Spec
SYMMETRY Symmetry
INVARIANTS
  TypeOK
  Lineage
  PurgeIsComplete
  RotationRetires
  OneHolder
  InactiveNeverServed
  LogoutRevokes
PROPERTIES
  RowsOnlyAge
