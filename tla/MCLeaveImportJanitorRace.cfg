SPECIFICATION Spec
CONSTANTS
  f1 = f1
  f2 = f2
  f3 = f3
  a = a
  b = b
  c = c
  s1 = s1
  s2 = s2
  e1 = e1
  Files = {f1, f2}
  Sheets = {s1, s2}
  Employees = {e1}
  Dates = {1, 2}
  Codes = {a, b, c}
  Workbook <- MCWorkbook
  Usable <- MCUsable
  Mismatched = {f2}
  Uploaders = {u1}
  IdemKeys = {k1}
  Expiring = {1}
  MaxImports = 3
  NoRow = NoRow
  NoFile = NoFile
  NoKey = NoKey
PROPERTIES
  CommittedUntilReverted
