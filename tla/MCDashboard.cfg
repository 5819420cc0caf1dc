CONSTANTS
  None = None
  Dates <- MCDates
  Months = {1, 2}
  MonthOf <- MCMonthOf
  HalfOf <- MCHalfOf
  ThisMonth = 2
  Teams = {a, b}
  Shifts = {"all", "night"}
  Pages = {"overview", "employees"}
  Groups = {g}
  gone = gone
  SavedEarlier <- MCSaved
  WithData = {1, 3}
  Links <- MCLinks
  RosterStatuses = {"present", "absent"}
  MaxEdits = 2
SPECIFICATION Spec
CHECK_DEADLOCK FALSE
INVARIANTS FiguresOfScope RosterOfRequest
PROPERTY ImplementsBoard
