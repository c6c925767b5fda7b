CONSTANTS
  r1 = r1
  r2 = r2
  r3 = r3
  Requests = {r1, r2, r3}
  MaxAttempts = 2
  MaxCount = 6
  MaxLost = 1
SPECIFICATION Spec
SYMMETRY Symmetry
INVARIANTS
  TypeOK
  GuessBudget
  ThresholdLocks
  SuccessForgets
