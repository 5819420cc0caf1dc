SPECIFICATION FairSpec
CONSTANTS
  u1 = u1
  Users = {u1}
  Requests = {r1, r2}
  Idle = 1
  LocalCap = 2
  EntraCap = 1
  Grace = 0
  MaxTokens = 2
  MaxTime = 1
  NoUser = NoUser
  NoRequest = NoRequest
PROPERTIES
  RequestsEnd
