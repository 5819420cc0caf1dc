SPECIFICATION RecordsSpec
CONSTANTS
  Employees <- MCEmployees
  Days <- MCDays
  NameSeq = {1, 2}
  Swipes <- MCSwipes
  Start <- MCStart
  Workbooks <- MCWorkbooks
  Weekend = {2}
  Holidays = {3}
  Today = 4
  Leaves <- MCLeaves
  Exempt <- MCExempt
  Team <- MCTeam
  TrustZoho = TRUE
  PageSize = 3
  MaxChanges = 2
  NoRow = NoRow
  NoCell = NoCell
INVARIANTS
  LoadComplete
  OverlayExact
  VerdictsCompatible
  ViewsAgree
