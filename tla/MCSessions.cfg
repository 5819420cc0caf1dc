SPECIFICATION Spec
CONSTANTS
  u1 = u1
  Users = {u1}
  Requests = {r1, r2}
  Idle = 2
  LocalCap = 3
  EntraCap = 2
  Grace = 0
  MaxTokens = 3
  MaxTime = 2
  NoUser = NoUser
  NoRequest = NoRequest
SYMMETRY Symmetry
INVARIANTS
  FamilySound
PROPERTIES
  SweepsComplete
  ImplementsFamilies
