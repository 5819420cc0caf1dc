SPECIFICATION Spec
CONSTANTS
  Pollers = {p1}
  Backfill = Backfill
  NoOne = NoOne
  Lookback = 0
  MaxRange = 2
  Settling = 1
  MonthEnds = {1, 4}
  Punches = 2
  MaxRuns = 2
  LastDay = 4
INVARIANTS
  ClosedDaysStored
  HolesExplained
PROPERTIES
  NoDayLosesPunches
