SPECIFICATION Spec
CONSTANTS
  Employees = {e1}
  Writers = {w1, w2}
  Recallers = {r1}
  MaxPolicies = 2
  LastDate = 2
  NoEmployee = NoEmployee
SYMMETRY Symmetry
INVARIANTS
  OverlapNeedsRace
  ResolverExact
PROPERTIES
  RevokedForGood
