SPECIFICATION FairCalendarSpec
CONSTANTS
  f1 = f1
  f2 = f2
  s1 = s1
  e1 = e1
  u1 = u1
  r1 = r1
  Files = {f1, f2}
  Sheets = {s1}
  Employees = {e1}
  Dates = {1}
  Codes <- MCHalfCodes
  Workbook <- MCHalfWorkbook
  Usable <- MCUsable
  Mismatched = {}
  Uploaders = {u1, u2}
  IdemKeys = {}
  Expiring = {1}
  MaxImports = 2
  NoRow = NoRow
  NoFile = NoFile
  NoKey = NoKey
  NoCode = NoCode
  BaseCodes = {"EL"}
  Kinds = {"leave"}
  InitialMap <- MCEmptyMap
  Reprocessors = {r1}
PROPERTIES
  StaleRewritesOnly
  ReprocessConverges
  LeaveRequestsEnd
