CONSTANTS
  f1 = f1
  f2 = f2
  s1 = s1
  s2 = s2
  Files = {f1, f2}
  SheetsOf <- MCSheetsOf
  Blocked <- MCBlocked
  Needs <- MCNeeds
  Guarded <- MCGuarded
  ResumeLimit = 2
  HistoryLimit = 2
  MaxImports = 3
  MaxFlight = 2
  MaxActs = 2
  NoFile = NoFile
SPECIFICATION Spec
CHECK_DEADLOCK FALSE
INVARIANTS CommitsSound RequestsFit ThanksTrue ResumesOpenPreview
