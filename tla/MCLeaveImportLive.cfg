SPECIFICATION FairSpec
CONSTANTS
  f1 = f1
  f2 = f2
  f3 = f3
  a = a
  b = b
  c = c
  s1 = s1
  s2 = s2
  e1 = e1
  Files = {f2, f3}
  Sheets = {s1}
  Employees = {e1}
  Dates = {1}
  Codes = {a, b, c}
  Workbook <- MCWorkbook
  Usable <- MCUsable
  Mismatched = {}
  Uploaders = {u1, u2}
  IdemKeys = {}
  Expiring = {1}
  MaxImports = 3
  NoRow = NoRow
  NoFile = NoFile
  NoKey = NoKey
PROPERTIES
  LeaveRequestsEnd
