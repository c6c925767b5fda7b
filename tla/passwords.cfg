CONSTANTS
  r1 = r1
  r2 = r2
  Requests = {r1, r2}
  MaxPasswords = 3
  MaxTokens = 2
  MaxSessions = 2
  MaxLost = 1
SPECIFICATION Spec
SYMMETRY Symmetry
INVARIANTS
  TypeOK
  ResetCompletes
  SpendBound
  OldSessionsEnd
