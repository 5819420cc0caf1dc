SPECIFICATION Spec
CONSTANTS
  Pollers = {p1}
  Backfill = Backfill
  NoOne = NoOne
  Lookback = 1
  MaxRange = 4
  Settling = 0
  MonthEnds = {1, 5}
  Punches = 2
  MaxRuns = 2
  LastDay = 5
INVARIANTS
  OutageDaysCovered
