----------------------------- MODULE DayRecords -----------------------------
(***************************************************************************)
(* How the dashboard gets its day records: fetchDayRecords of               *)
(* frontend/src/api.js, started by the load effect of App.jsx, while the    *)
(* promotion, bulk writes, leave commits and reverts go on changing the     *)
(* tables.  A request to the API reads one moment of the database; a load   *)
(* is many requests, and every page counts its offset afresh.  On top of    *)
(* what was loaded, the status of each cell of the grid.                    *)
(***************************************************************************)
EXTENDS Figures

CONSTANTS
  Employees, Days,
  NameSeq,      \* names as numbers, in the order of the database
  Swipes,       \* what an attendance row may hold: [checkIn, checkOut, flag]
  Start,        \* attendance tables a history begins with
  Workbooks,    \* leave reports, each a partial function from rows to calendar cells
  Weekend, Holidays, Today,
  Leaves,       \* (employee, date) with an approved row of leave_records
  Exempt,       \* (employee, date) that a work-from-home plan exempts
  Team,         \* the team of each employee
  TrustZoho, PageSize,
  MaxChanges,   \* bound on what happens to the tables
  NoRow, NoCell

Rows == Employees \X Days
Cell == [kind : Kinds, half : BOOLEAN, zoho : {"yes", "no", "none"}]

ASSUME DaysAssumption == Days \subseteq Nat \ {0} /\ Today \in Days /\ NameSeq \subseteq Nat
ASSUME PageAssumption == PageSize \in Nat \ {0} /\ MaxChanges \in Nat
ASSUME EmployeesAssumption == Employees \subseteq Nat /\ IsFiniteSet(Employees) /\ IsFiniteSet(Days)
ASSUME SwipesAssumption == Swipes \subseteq [checkIn : BOOLEAN, checkOut : BOOLEAN, flag : BOOLEAN]
ASSUME WorkbooksAssumption == \A w \in Workbooks : DOMAIN w \subseteq Rows /\ \A x \in DOMAIN w : w[x] \in Cell
ASSUME StartAssumption == Start \subseteq [Rows -> Swipes \cup {NoRow}]
ASSUME TeamAssumption == DOMAIN Team = Employees
ASSUME MarkersAssumption == NoRow \notin Swipes /\ NoCell \notin Cell

VARIABLES
  attendance,   \* attendance_records: row -> swipe, or NoRow
  name,         \* employees.name
  calendar,     \* calendar_day: row -> cell, or NoCell
  before,       \* calendar before the commit that can be reverted, or NoCell
  changes,      \* changes made so far
  load          \* the load of App.jsx and what it collected

tables == <<attendance, name, calendar, before, changes>>
recordsVars == <<tables, load>>

Nothing == [x \in Rows |-> NoCell]
NoMeta == [date |-> 0, kind |-> NoKind]

Present == {x \in Rows : attendance[x] # NoRow}
Calendared == {x \in Rows : calendar[x] # NoCell}

Untied(x) == \A y \in Present \ {x} : x[2] = y[2] => name[x[1]] # name[y[1]]

\* standing and since are history: the rows that were there from the start on
\* and share date and name with no other; the tables that changed meanwhile.
FreshLoad ==
  [pc |-> "rows", offset |-> 0, rows |-> [x \in Rows |-> NoRow], total |-> 0,
   cells |-> Nothing, meta |-> [e \in Employees |-> NoMeta], calendarOk |-> TRUE,
   coverage |-> "pending", covered |-> {}, through |-> 0,
   standing |-> {x \in Present : Untied(x)}, since |-> {}]

RecordsInit ==
  /\ attendance \in Start
  /\ name \in [Employees -> NameSeq]
  /\ calendar = Nothing
  /\ before = NoCell
  /\ changes = 0
  /\ load = [FreshLoad EXCEPT !.pc = "idle"]

----------------------------------------------------------------------------
(* The tables *)

Changes ==
  /\ changes < MaxChanges
  /\ changes' = changes + 1

\* Promotion and bulk writes insert rows and rewrite them; none deletes.
WriteAttendance(x, s) ==
  /\ Changes
  /\ attendance[x] # s
  /\ attendance' = [attendance EXCEPT ![x] = s]
  /\ load' = [load EXCEPT !.since = @ \cup {"attendance"},
                          !.standing = {y \in @ : y = x \/ y[2] # x[2] \/ name[y[1]] # name[x[1]]}]
  /\ UNCHANGED <<name, calendar, before>>

\* A bulk write renames an employee: rows move in the order of the pages.
Rename(e, n) ==
  /\ Changes
  /\ name[e] # n
  /\ name' = [name EXCEPT ![e] = n]
  /\ load' = [load EXCEPT !.since = @ \cup {"name"}]
  /\ UNCHANGED <<attendance, calendar, before>>

\* The commit of a leave report, and the revert of the latest one.
CommitLeave(w) ==
  /\ Changes
  /\ before' = calendar
  /\ calendar' = [x \in Rows |-> IF x \in DOMAIN w THEN w[x] ELSE calendar[x]]
  /\ load' = [load EXCEPT !.since = @ \cup {"calendar"}]
  /\ UNCHANGED <<attendance, name>>

RevertLeave ==
  /\ Changes
  /\ before # NoCell
  /\ calendar' = before /\ before' = NoCell
  /\ load' = [load EXCEPT !.since = @ \cup {"calendar"}]
  /\ UNCHANGED <<attendance, name>>

----------------------------------------------------------------------------
(* Pages *)

Most(S) == CHOOSE m \in S \cup {0} : \A n \in S : n <= m

\* ORDER BY date DESC, name; and for the calendar date DESC, employee_id.
RowBefore(x, y) == x[2] > y[2] \/ (x[2] = y[2] /\ name[x[1]] < name[y[1]])
CellBefore(x, y) == x[2] > y[2] \/ (x[2] = y[2] /\ x[1] < y[1])

RowPlaces == [x \in Present |-> Cardinality({y \in Present : RowBefore(y, x)})]
CellPlaces == [x \in Calendared |-> Cardinality({y \in Calendared : CellBefore(y, x)})]

\* The answers to LIMIT PageSize OFFSET o; place: how many rows come before a
\* row.  Rows the order does not tell apart come in any order, in each request
\* anew.
PagesAt(place, o) ==
  LET T == DOMAIN place
      tied == [x \in T |-> {y \in T : place[y] = place[x]}]
      sent == [x \in T |-> Cardinality((place[x] + 1 .. place[x] + Cardinality(tied[x])) \cap (o + 1 .. o + PageSize))]
  IN {S \in SUBSET {x \in T : sent[x] > 0} : \A x \in T : Cardinality(S \cap tied[x]) = sent[x]}

----------------------------------------------------------------------------
(* The load *)

WrongNextOffset(o) == o + PageSize + 1
NextOffset(o) == o + PageSize

\* The effect of App.jsx starts a load when somebody is signed in, and again
\* after "Sync now" or a refreshed session; what a load in flight would still
\* bring is dropped (cancelled).  attendance, leave and holidays come first.
StartLoad ==
  /\ load' = FreshLoad
  /\ UNCHANGED tables

\* fetchAllPaged(fetchAttendance): on to the next page while they are full.
AttendancePage ==
  /\ load.pc = "rows"
  /\ \E page \in PagesAt(RowPlaces, load.offset) :
       LET got == [x \in Rows |-> IF x \in page THEN attendance[x] ELSE load.rows[x]] IN
       load' = IF Cardinality(page) < PageSize
               THEN [load EXCEPT !.rows = got, !.offset = 0, !.pc = "count"]
               ELSE [load EXCEPT !.rows = got, !.offset = NextOffset(@)]
  /\ UNCHANGED tables

\* GET /leave/calendar counts the rows, and selects them in a second statement.
CalendarCount ==
  /\ load.pc = "count"
  /\ load' = [load EXCEPT !.total = Cardinality(Calendared), !.pc = "cells"]
  /\ UNCHANGED tables

\* calMeta: the last calendar day of each employee.
WrongMetaWith(meta, page) ==
  [e \in Employees |->
     LET last == Most({x[2] : x \in {y \in page : y[1] = e}}) IN
     IF last > 0 THEN [date |-> last, kind |-> calendar[<<e, last>>].kind] ELSE meta[e]]
MetaWith(meta, page) ==
  [e \in Employees |->
     LET last == Most({x[2] : x \in {y \in page : y[1] = e}}) IN
     IF last > meta[e].date THEN [date |-> last, kind |-> calendar[<<e, last>>].kind] ELSE meta[e]]

\* fetchAllCalendar: stops after a short page, or with as many rows as counted.
CalendarPage ==
  /\ load.pc = "cells"
  /\ \E page \in PagesAt(CellPlaces, load.offset) :
       LET n == Cardinality(page)
           got == [load EXCEPT !.cells = [x \in Rows |-> IF x \in page THEN calendar[x] ELSE @[x]],
                               !.meta = MetaWith(@, page)]
       IN load' = IF n < PageSize \/ load.offset + n >= load.total
                  THEN [got EXCEPT !.pc = "overlay", !.offset = 0, !.total = 0]
                  ELSE [got EXCEPT !.pc = "count", !.offset = NextOffset(@)]
  /\ UNCHANGED tables

\* The overlay is given up as a whole when one of its pages fails.
CalendarFails ==
  /\ load.pc \in {"count", "cells"}
  /\ load' = [load EXCEPT !.pc = "overlay", !.offset = 0, !.total = 0, !.calendarOk = FALSE, !.cells = Nothing,
                          !.meta = [e \in Employees |-> NoMeta]]
  /\ UNCHANGED tables

\* fetchCoverage runs beside, and its endpoint counts the days of attendance
\* before it reads leave_coverage, which is the last calendar day; without it
\* the page goes on with null.
CountDays ==
  /\ load.pc # "idle" /\ load.coverage = "pending"
  /\ load' = [load EXCEPT !.coverage = "counted", !.covered = {x[2] : x \in Present}]
  /\ UNCHANGED tables

ReadThrough ==
  /\ load.coverage = "counted"
  /\ load' = [load EXCEPT !.coverage = "read", !.through = Most({x[2] : x \in Calendared})]
  /\ UNCHANGED tables

CoverageFails ==
  /\ load.pc # "idle" /\ load.coverage = "pending"
  /\ load' = [load EXCEPT !.coverage = "null"]
  /\ UNCHANGED tables

\* Promise.all: the day records and coverage are put on the page together.
ShowLoad ==
  /\ load.pc = "overlay" /\ load.coverage \in {"read", "null"}
  /\ load' = [load EXCEPT !.pc = "shown"]
  /\ UNCHANGED tables

\* A page of attendance that fails fails the load.
LoadFails ==
  /\ load.pc = "rows"
  /\ load' = [load EXCEPT !.pc = "failed"]
  /\ UNCHANGED tables

----------------------------------------------------------------------------
(* The grid *)

\* Past the last calendar day of an employee, "not employed" persists.
Carried(x) == load.meta[x[1]].kind = "not_employed" /\ load.meta[x[1]].date < x[2]

\* The record of an attendance row under its calendar cell; without a row,
\* carryRec makes one that knows at most a carried "not employed".
RecordOf(x) ==
  LET row == load.rows[x]
      cell == IF row = NoRow THEN NoCell ELSE load.cells[x]
      swiped == row # NoRow
  IN [date |-> x[2],
      checkIn |-> swiped /\ row.checkIn, checkOut |-> swiped /\ row.checkOut,
      flag |-> swiped /\ row.flag,
      kind |-> IF Carried(x) /\ cell = NoCell THEN "not_employed"
               ELSE IF cell = NoCell THEN NoKind ELSE cell.kind,
      half |-> cell # NoCell /\ cell.half, zoho |-> IF cell = NoCell THEN "none" ELSE cell.zoho,
      holiday |-> swiped /\ x[2] \in Holidays, leave |-> swiped /\ x \in Leaves]

\* Dashboard.jsx; a coverage of null counts as "no leave report" and as "trust Zoho".
PageContext ==
  [today |-> Today, weekend |-> Weekend, covered |-> load.covered,
   leaveActive |-> load.through # 0,
   leaveLoaded |-> load.through # 0 \/ (load.coverage = "read" /\ Leaves # {}),
   trustZoho |-> TrustZoho \/ load.coverage = "null"]

\* day is what the metrics request told, if it told anything.
Status(x, day) == ClassifyDay(RecordOf(x), PageContext, day)

\* The tables as the metrics endpoint reads them.
TableRecord(x) ==
  LET row == attendance[x]
      swiped == row # NoRow
      cell == calendar[x]
  IN [date |-> x[2],
      checkIn |-> swiped /\ row.checkIn, checkOut |-> swiped /\ row.checkOut,
      flag |-> swiped /\ row.flag,
      kind |-> IF cell = NoCell THEN NoKind ELSE cell.kind, half |-> cell # NoCell /\ cell.half,
      zoho |-> IF cell = NoCell THEN "none" ELSE cell.zoho,
      holiday |-> x[2] \in Holidays, leave |-> x \in Leaves]

PunchDates == {y[2] : y \in {z \in Present : ServerHasPunch(TableRecord(z))}}
Through == Most({y[2] : y \in Calendared})

Verdict(x) == ServerDay(TableRecord(x), PageContext, PunchDates, Through, x \in Exempt)

\* metrics/service.py: load_all.
LoadAll ==
  LET c == PageContext
      punched == PunchDates
      through == Through
  IN [verdict |-> [x \in Rows |-> ServerDay(TableRecord(x), c, punched, through, x \in Exempt)],
      record |-> [x \in Rows |-> TableRecord(x)], team |-> Team, dates |-> Days, today |-> Today,
      off |-> Weekend \cup Holidays, punched |-> punched, through |-> through]

----------------------------------------------------------------------------
RecordsNext ==
  \/ \E x \in Rows, s \in Swipes : WriteAttendance(x, s)
  \/ \E e \in Employees, n \in NameSeq : Rename(e, n)
  \/ (\E w \in Workbooks : CommitLeave(w)) \/ RevertLeave
  \/ StartLoad \/ AttendancePage \/ LoadFails
  \/ CalendarCount \/ CalendarPage \/ CalendarFails
  \/ CountDays \/ ReadThrough \/ CoverageFails \/ ShowLoad

RecordsSpec == RecordsInit /\ [][RecordsNext]_recordsVars
----------------------------------------------------------------------------
(* Properties *)

\* The employees of whom a row was gathered.
Seen == {x[1] : x \in {y \in Rows : load.rows[y] # NoRow}}

Gathered == load.pc \in {"count", "cells", "overlay", "shown"}

RecordsTypeOK ==
  /\ attendance \in [Rows -> Swipes \cup {NoRow}]
  /\ name \in [Employees -> NameSeq]
  /\ calendar \in [Rows -> Cell \cup {NoCell}]
  /\ before \in [Rows -> Cell \cup {NoCell}] \cup {NoCell}
  /\ changes \in 0 .. MaxChanges
  /\ load.pc \in {"idle", "rows", "count", "cells", "overlay", "shown", "failed"}
  /\ load.coverage \in {"pending", "counted", "read", "null"}
  /\ load.rows \in [Rows -> Swipes \cup {NoRow}]
  /\ load.cells \in [Rows -> Cell \cup {NoCell}]
  /\ load.standing \subseteq Rows /\ load.covered \subseteq Days
  /\ load.meta \in [Employees -> [date : Days \cup {0}, kind : Kinds \cup {NoKind}]]
  /\ load.offset \in Nat /\ load.total \in Nat /\ load.through \in Days \cup {0}

\* Paging loses no row ("never silently truncated", api.js): a row that was
\* there when the load began, shares its date and name with no other, and saw
\* no rename, is among the rows gathered, however many pages it took and
\* whatever was inserted between two of them.
LoadComplete ==
  Gathered /\ "name" \notin load.since =>
    \A x \in load.standing :
      load.rows[x] # NoRow /\ ("attendance" \notin load.since => load.rows[x] = attendance[x])

\* The overlay is whole and "not employed" is carried from the last calendar
\* day, unless a report was committed or reverted during the load: no page of
\* an earlier or later report is mixed in, whichever order pages came in.
OverlayExact ==
  load.pc \in {"overlay", "shown"} /\ load.calendarOk /\ "calendar" \notin load.since =>
    /\ load.cells = calendar
    /\ \A e \in Employees :
         LET last == Most({x[2] : x \in {y \in Calendared : y[1] = e}}) IN
         load.meta[e] = IF last = 0 THEN NoMeta ELSE [date |-> last, kind |-> calendar[<<e, last>>].kind]

\* Statuses that rest on a swipe, and those of a past day without one.
ShownSwiped == {"present", "missing_checkout", "in_progress", "worked_weekend", "worked_holiday"}
ShownUnswiped == {"absent", "absent_unverified", "no_record", "pending", "present_zoho_only"}

\* The status in the grid, decided in the browser, beside the verdict of the
\* API on the tables as they are now.  Of a day whose row the load has as it
\* stands, and whose calendar cell too if a report was committed or reverted
\* meanwhile: shown "absent", the API counts it absent, or has no swipe of
\* anybody on it, or the two read different tables (a plan exempts it,
\* a row of leave_records has leave on it, the report works on a weekend);
\* shown with a swipe, the API counts it present or not at all; and a day that
\* the API counts present for a stored time is not shown as one without a swipe.
\* An exempted day may be shown absent: see ExemptNeverAbsent.
VerdictsCompatible ==
  load.pc = "shown" =>
    \A x \in Rows :
      load.rows[x] = attendance[x] /\ ("calendar" \in load.since => load.cells[x] = calendar[x]) =>
        \A day \in {NoBackend, Verdict(x)} :
          LET shown == Status(x, day)
              verdict == Verdict(x).status
          IN /\ shown = "absent" => \/ verdict \in {"absent", "no_data"} \/ x \in Exempt
                                    \/ verdict = "on_leave" /\ x \in Leaves
                                    \/ verdict = "non_working" /\ x[2] \in Weekend
             /\ shown \in ShownSwiped => \/ verdict \in {"present", "non_working"} \/ x \in Exempt
                                         \/ verdict = "pending" /\ x[2] > Today
             /\ verdict = "present" /\ PunchCount(TableRecord(x)) > 0 => shown \notin ShownUnswiped

\* Every day has a record and a status that the pages know, and Data health,
\* Exceptions and the totals count the same days of one load: the
\* expected half days are the present and the absent ones; conflicts and
\* unverified days agree wherever they are shown (Exceptions leaves out
\* employees without a row); what is listed as an absence of somebody who ever
\* swiped is what the totals hold against them, but for the working halves of
\* half days of leave, which no list has.
ListsAgree ==
  load.pc = "shown" =>
    \A told \in {[x \in Rows |-> NoBackend], [x \in Rows |-> Verdict(x)]} :
      LET R == [x \in Rows |-> RecordOf(x)]
          c == PageContext
          S == StatusOf(R, told, c)
          never == {e \in Employees : Summary(R, S, c, e, Days).neverPunched}
          all == Totals(R, S, c, Employees, Days, FALSE)
          rated == Totals(R, S, c, Seen, Days, TRUE)
          entries == Entries(R, S, c, Seen, Days, never)
      IN /\ R \in [Rows -> Record(Days)] /\ S \in [Rows -> Statuses]
         /\ all.expected = all.present + all.absent + 2 * all.noRecord
         /\ rated.absent + 2 * rated.noRecord =
              2 * ChipCount(entries, "no_record", c)
              + Cardinality({x \in (Seen \ never) \X Days : S[x] = "half_leave" /\ DayWeight(S[x], R[x]).absent = 1})
         /\ \A panel \in QualityPanel(R, S, c, Employees, Days) :
              /\ panel.conflicts = all.conflicts /\ panel.unverified = all.unverified
              /\ panel.conflicts = ChipCount(entries, "leave_conflict", c)
         /\ \A panel \in QualityPanel(R, S, c, Seen, Days) :
              panel.unverified = ChipCount(entries, "unverified_day", c)

\* The figures of one answer add up: the past days of Overview's chart and the
\* lists of employees sum up to its cards, the attendance rate included; the
\* headcount and the rate that Teams shows of a team are those of its members;
\* "Most absent days" and the group without punches hold every absence.  The
\* days without a record that Teams shows of a team are not among them: it shows
\* 0, see TeamsShowFigures.  Without a leave report, and only then, the past
\* days in an employee's drawer and in Exceptions are those its heading counts,
\* of employees without an exempted day, and in Exceptions without the days
\* nobody swiped, which it lists and no rate counts.
FiguresAgree ==
  load.pc = "shown" =>
    \A excluded \in BOOLEAN :
      LET a == Adapted(BuildMetrics(LoadAll, excluded))
          c == PageContext
          cards == Cards(a)
          listed == Main(a) \cup NoPunches(a)
          chart == {f \in ChartDays(a, c) : f.date < Today}
          NoRecord(who) == SumFunction([f \in who |-> EmployeeRow(f).noRecord])
          R == [x \in Rows |-> RecordOf(x)]
          S == StatusOf(R, [x \in Rows |-> BackendDay(a, x[1], x[2])], c)
          entries == Entries(R, S, c, Seen, Days, {f.id : f \in NoPunches(a)})
          DaysIn(f, T) == Cardinality({d \in Days : d < Today /\ Drawer(f, S).days[d] \in T})
      IN /\ R \in [Rows -> Record(Days)] /\ S \in [Rows -> Statuses]
         /\ SumFunction([f \in chart |-> f.present]) = a.presentDays
         /\ SumFunction([f \in chart |-> f.leave]) = cards.leave
         /\ SumFunction([f \in chart |-> f.absent]) = cards.absent
         /\ SumFunction([f \in chart |-> f.unverified]) = cards.unverified
         /\ SumFunction([f \in listed |-> EmployeeRow(f).missing]) = cards.missing
         /\ Cardinality(NoPunches(a)) = cards.noPunches
         /\ cards.rate = Rate(SumFunction([f \in listed |-> EmployeeRow(f).present]),
                              SumFunction([f \in listed |-> EmployeeRow(f).expected]),
                              SumFunction([f \in listed |-> EmployeeRow(f).leave]))
         /\ SumFunction([t \in a.teams |-> TeamRow(t).headcount]) = cards.headcount
         /\ \A t \in a.teams :
              LET members == {f \in a.employees : f.team = t.team} IN
              /\ TeamRow(t).headcount = TeamHeadcount(a, t.team)
              /\ TeamRow(t).rate = Rate(SumFunction([f \in members |-> MemberRow(f).present]),
                                       SumFunction([f \in members |-> MemberRow(f).expected]),
                                       SumFunction([f \in members |-> MemberRow(f).leave]))
         /\ NoRecord(MostNoRecord(a)) + NoRecord(NoPunches(a)) = cards.absent + cards.unverified
         /\ ~c.leaveActive =>
              \A f \in listed : (\A d \in Days : <<f.id, d>> \notin Exempt) =>
                LET drawer == Drawer(f, S) IN
                /\ DaysIn(f, {"present", "missing_checkout"}) = drawer.present
                /\ DaysIn(f, {"leave"}) = EmployeeRow(f).leave
                /\ DaysIn(f, {"absent", "absent_unverified"}) = drawer.noRecord
                /\ f \in Main(a) /\ f.id \in Seen =>
                     Cardinality({x \in entries : x[1] = "no_record" /\ x[2][1] = f.id
                                                    /\ x[2][2] < Today /\ x[2][2] \in PunchDates}) = f.absent

\* What the pages show of one load, and of one answer, is one story.
ViewsAgree == ListsAgree /\ FiguresAgree

----------------------------------------------------------------------------
(* Properties the repository states and this code does not have *)

\* Teams.jsx:2-3 "All rates/statuses come from the API (/dashboard/metrics);
\* this file only renders them."
TeamsShowFigures ==
  load.pc = "shown" =>
    LET a == Adapted(BuildMetrics(LoadAll, FALSE)) IN
    \A t \in a.teams :
      /\ TeamRow(t).noRecord = t.noRecord
      /\ TeamCards(t).rate = t.rate
      /\ TeamCards(t).provisional = t.isProvisional

\* metrics.js:9 "WFH approvals count as present (approved presence override".
ExemptNeverAbsent ==
  load.pc = "shown" /\ load.since = {} => \A x \in Exempt : Status(x, Verdict(x)) # "absent"
=============================================================================
