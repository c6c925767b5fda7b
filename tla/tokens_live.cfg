CONSTANTS
  u1 = u1
  u2 = u2
  r1 = r1
  r2 = r2
  Users = {u1}
  Requests = {r1, r2}
  MaxTokens = 2
  NoUser = NoUser
SPECIFICATION FairSpec
PROPERTIES
  Answered
