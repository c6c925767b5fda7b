CONSTANTS
  r1 = r1
  r2 = r2
  e1 = e1
  Admin = Admin
  Emails = {Admin, e1}
  Requests = {r1, r2}
  Assignable = {"user", "guest"}
  MaxUsers = 2
  MaxItems = 9
  MaxLimit = 4
SPECIFICATION MCSpec
SYMMETRY Symmetry
INVARIANTS
  TypeOK
  OneAccountPerEmail
  TakenEmailConflicts
  GoneIsNotFound
  PagesPartition
PROPERTIES
  GuardsHold
