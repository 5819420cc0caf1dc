------------------------------ MODULE Figures ------------------------------
(***************************************************************************)
(* The figures of the metrics endpoint (api/app/metrics/core.py) and what  *)
(* the pages make of them: adaptMetrics, the cards and charts of Overview,  *)
(* the teams, the lists of employees.  Hours, shifts and formats are left   *)
(* out; a list is the set of its entries, without order and cut.            *)
(*                                                                         *)
(* D is what the endpoint loaded: D.verdict[<<e, d>>] (ServerDay),          *)
(* D.record[<<e, d>>], D.team[e], D.dates, D.today, D.off (weekends and     *)
(* holidays), D.punched (dates with a swipe of anyone) and D.through.       *)
(***************************************************************************)
EXTENDS DayTotals

\* A rate is a numerator over a denominator; None of them when there is none.
NoRate == <<0, 0>>
Rate(present, expected, leave) == IF expected > leave THEN <<present, expected - leave>> ELSE NoRate

----------------------------------------------------------------------------
(* metrics/core.py: build_metrics *)

CountedStatuses == {"present", "on_leave", "absent", "unverified"}

\* Today is never counted: it is not over.
Counts(status, d, D) == status \in CountedStatuses /\ d < D.today

EmployeeFigures(D, e) ==
  LET Status(d) == D.verdict[<<e, d>>].status
      counted == {d \in D.dates : Counts(Status(d), d, D)}
      DaysIn(T) == Cardinality({d \in counted : Status(d) \in T})
  IN [id |-> e, team |-> D.team[e],
      present |-> DaysIn({"present"}), expected |-> Cardinality(counted),
      on_leave |-> DaysIn({"on_leave"}), absent |-> DaysIn({"absent"}), unverified |-> DaysIn({"unverified"}),
      no_record |-> DaysIn({"absent", "unverified"}),
      attendance_rate |-> Rate(DaysIn({"present"}), Cardinality(counted), DaysIn({"on_leave"})),
      missing |-> Cardinality({d \in D.dates : Status(d) = "present" /\ D.verdict[<<e, d>>].missing}),
      never_punched |-> ~ \E d \in D.dates \ D.off : ServerHasPunch(D.record[<<e, d>>]) /\ d <= D.today,
      days |-> [d \in D.dates |-> D.verdict[<<e, d>>]]]

WorkingDates(D) == {d \in D.dates \ D.off : d <= D.today}

DayState(D, d) ==
  IF d \notin D.punched /\ d < D.today THEN "no_data"
  ELSE IF d > D.through THEN "provisional"
  ELSE "covered"

\* One working date of the employees with figures F.
DayFigures(D, F, d) ==
  LET N(status) == Cardinality({f \in F : f.days[d].status = status})
      expected == N("present") + N("on_leave") + N("absent") + N("unverified")
  IN [date |-> d, present |-> N("present"), on_leave |-> N("on_leave"), absent |-> N("absent"),
      unverified |-> N("unverified"), rate |-> Rate(N("present"), expected, N("on_leave")), state |-> DayState(D, d)]

\* Past working dates without a swipe of anyone.
NoDataDays(D) == Cardinality({d \in WorkingDates(D) \ D.punched : d < D.today})

\* The sums over F, of which so many days are provisional and without data.
GroupFigures(F, provisional, noData) ==
  LET present == SumFunction([f \in F |-> f.present])
      leave == SumFunction([f \in F |-> f.on_leave])
  IN [headcount |-> Cardinality(F), present_days |-> present, on_leave_days |-> leave,
      absent_days |-> SumFunction([f \in F |-> f.absent]),
      unverified_days |-> SumFunction([f \in F |-> f.unverified]),
      attendance_rate |-> Rate(present, SumFunction([f \in F |-> f.expected]), leave),
      missing_checkouts |-> SumFunction([f \in F |-> f.missing]),
      no_punch_in_period |-> Cardinality({f \in F : f.never_punched}),
      provisional_days |-> provisional, no_data_days |-> noData]

TeamFigures(D, F, t) ==
  LET members == {f \in F : f.team = t}
      daily == {DayFigures(D, members, d) : d \in WorkingDates(D)}
      provisional == {f \in daily : f.date > D.through /\ f.rate # NoRate}
  IN [team |-> t, daily |-> daily, group |-> GroupFigures(members, Cardinality(provisional), NoDataDays(D))]

BuildMetrics(D, excludeNeverPunched) ==
  LET every == {EmployeeFigures(D, e) : e \in DOMAIN D.team}
      F == {f \in every : excludeNeverPunched => ~f.never_punched}
      provisional == {d \in WorkingDates(D) \cap D.punched : d > D.through}
  IN [summary |-> GroupFigures(F, Cardinality(provisional), NoDataDays(D)),
      employees |-> F,
      daily |-> {DayFigures(D, F, d) : d \in WorkingDates(D)},
      teams |-> {TeamFigures(D, F, t) : t \in {f.team : f \in F}}]

----------------------------------------------------------------------------
(* metrics.js: adaptMetrics *)

\* The fields get the names the pages read.
AdaptedEmployee(f) ==
  [id |-> f.id, team |-> f.team, present |-> f.present, expected |-> f.expected, leave |-> f.on_leave,
   noRecord |-> f.no_record, absent |-> f.absent, unverifiedCount |-> f.unverified,
   missing |-> f.missing, neverPunched |-> f.never_punched, attendanceRate |-> f.attendance_rate, days |-> f.days]

AdaptedDay(f) ==
  [date |-> f.date, state |-> f.state, rate |-> f.rate, present |-> f.present, leave |-> f.on_leave,
   absent |-> f.absent, unverified |-> f.unverified,
   expected |-> f.present + f.on_leave + f.absent + f.unverified, noRecord |-> f.absent + f.unverified]

AdaptedTeam(f) ==
  LET g == f.group IN
  [team |-> f.team, headcount |-> g.headcount, rate |-> g.attendance_rate, present |-> g.present_days,
   expected |-> g.present_days + g.on_leave_days + g.absent_days + g.unverified_days,
   noRecord |-> g.absent_days + g.unverified_days, missing |-> g.missing_checkouts,
   neverPunched |-> g.no_punch_in_period, isProvisional |-> g.provisional_days > 0,
   provisionalDays |-> g.provisional_days, noDataDays |-> g.no_data_days, daily |-> f.daily]

Adapted(api) ==
  LET s == api.summary IN
  [employees |-> {AdaptedEmployee(f) : f \in api.employees},
   daily |-> {AdaptedDay(f) : f \in api.daily}, teams |-> {AdaptedTeam(f) : f \in api.teams},
   headcount |-> s.headcount, attendanceRate |-> s.attendance_rate,
   provisionalDays |-> s.provisional_days, noDataDays |-> s.no_data_days,
   presentDays |-> s.present_days, onLeaveDays |-> s.on_leave_days, absentDays |-> s.absent_days,
   unverifiedDays |-> s.unverified_days, missingCheckouts |-> s.missing_checkouts,
   neverPunchedCount |-> s.no_punch_in_period]

----------------------------------------------------------------------------
(* What the pages read of the adapted figures a *)

\* Dashboard.jsx: backendDays, the verdict classifyDay takes over.
BackendDay(a, e, d) ==
  IF \E f \in a.employees : f.id = e THEN (CHOOSE f \in a.employees : f.id = e).days[d] ELSE NoBackend

\* FilterBar: how many people a team has.
TeamHeadcount(a, t) == Cardinality({f \in a.employees : f.team = t})

\* Overview: the cards.
Cards(a) ==
  [headcount |-> a.headcount, rate |-> a.attendanceRate, absent |-> a.absentDays, unverified |-> a.unverifiedDays,
   leave |-> a.onLeaveDays, missing |-> a.missingCheckouts, noPunches |-> a.neverPunchedCount]

\* Overview: the days of the charts, weekends left out; "Most absent days".
ChartDays(a, c) == {f \in a.daily : ~IsWeekend(f.date, c)}
MostNoRecord(a) == {f \in a.employees : ~f.neverPunched /\ f.noRecord > 0}

\* Employees: the list, and the group "No punches in this period" below it.
Main(a) == {f \in a.employees : ~f.neverPunched}
NoPunches(a) == {f \in a.employees : f.neverPunched}

\* The drawer of an employee with figures f: the heading, and the days with
\* their status.  S is what classifyDay makes of every employee and date.
Drawer(f, S) ==
  [rate |-> f.attendanceRate, present |-> f.present, expected |-> f.expected, noRecord |-> f.noRecord,
   days |-> [d \in DOMAIN f.days |-> S[<<f.id, d>>]]]

\* A row of the list, and of the member table of a team.
EmployeeRow(f) ==
  [present |-> f.present, expected |-> f.expected, leave |-> f.leave, noRecord |-> f.noRecord, missing |-> f.missing]
MemberRow(f) == [present |-> f.present, expected |-> f.expected, leave |-> f.leave, noRecord |-> f.noRecord]

\* Teams: a field that is not there counts as 0, or shows as no rate.
Or(r, field, otherwise) == IF field \in DOMAIN r THEN r[field] ELSE otherwise
NoRecordDays(t) == Or(t, "absent_days", 0) + Or(t, "unverified_days", 0)
TeamRow(t) == [headcount |-> t.headcount, rate |-> t.rate, noRecord |-> NoRecordDays(t)]

\* TeamDetail: its cards, and the note that a rate is provisional.
TeamCards(t) ==
  [headcount |-> t.headcount, rate |-> Or(t, "attendance_rate", NoRate), noRecord |-> NoRecordDays(t),
   provisional |-> Or(t, "is_provisional", FALSE)]
=============================================================================
