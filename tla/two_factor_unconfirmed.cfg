CONSTANTS
  r1 = r1
  r2 = r2
  Requests = {r1}
  MaxSetups = 2
  MaxBatches = 2
  MaxKeyLength = 6
  MaxStep = 4
  Hmac <- SampleHmac
SPECIFICATION MCSpec

INVARIANT EnabledSecretConfirmed
