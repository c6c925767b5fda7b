CONSTANTS
  r1 = r1
  r2 = r2
  Requests = {r1, r2}
  MaxSetups = 2
  MaxBatches = 3
  MaxKeyLength = 6
  MaxStep = 4
  Hmac <- SampleHmac
SPECIFICATION MCSpec
SYMMETRY Symmetry
INVARIANTS
  TypeOK
  CodeSpendBound
  SecondFactorRequired
  BatchBound
  EnrolmentConsistent
  Base32Correct
  CodesAccepted
