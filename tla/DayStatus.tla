----------------------------- MODULE DayStatus -----------------------------
(***************************************************************************)
(* The status of an employee's day, twice: as the dashboard decides it in  *)
(* the browser (frontend/src/metrics.js) and as the metrics endpoint does  *)
(* (api/app/metrics/core.py).  A date is a number.  A record is a row of    *)
(* attendance_records under the overlay of fetchDayRecords; a context is    *)
(* the "ctx" of Dashboard.jsx.  Half days count one, whole days two.        *)
(***************************************************************************)
EXTENDS Integers

Kinds == {"working", "weekend", "holiday", "not_employed", "leave", "on_duty", "unknown"}
NoKind == "none"

\* checkIn, checkOut: a time is stored; flag: the column "present"; kind and
\* half: the calendar row; zoho: zoho_presence, "none" for null; leave: an
\* approved leave_records row.
Record(Dates) ==
  [date : Dates, checkIn : BOOLEAN, checkOut : BOOLEAN, flag : BOOLEAN,
   kind : Kinds \cup {NoKind}, half : BOOLEAN, zoho : {"yes", "no", "none"},
   holiday : BOOLEAN, leave : BOOLEAN]

NoBackend == [status |-> "none", missing |-> FALSE, progress |-> FALSE]

\* covered: dates with attendance rows; day: the backend's verdict on this
\* employee's day, or NoBackend.
Context(Dates) ==
  [today : Dates, weekend : SUBSET Dates, covered : SUBSET Dates, leaveActive : BOOLEAN,
   leaveLoaded : BOOLEAN, trustZoho : BOOLEAN]

----------------------------------------------------------------------------
(* metrics.js: classifyDay *)

PunchCount(r) == (IF r.checkIn THEN 1 ELSE 0) + (IF r.checkOut THEN 1 ELSE 0)

HasPunch(r) == PunchCount(r) > 0 \/ r.flag

IsWeekend(d, c) == d \in c.weekend

\* "null": a day flagged present without any time has no status.
PunchStatus(r, c) ==
  CASE PunchCount(r) = 2 -> "present"
    [] PunchCount(r) = 1 -> IF r.date = c.today THEN "in_progress" ELSE "missing_checkout"
    [] OTHER -> "null"

\* While no leave report was ever committed.
ClassifyLegacy(r, c) ==
  IF IsWeekend(r.date, c) THEN "weekend"
  ELSE IF r.holiday THEN "holiday"
  ELSE IF c.leaveLoaded /\ r.leave THEN "leave"
  ELSE IF r.date > c.today THEN "pending"
  ELSE IF r.date = c.today /\ PunchCount(r) = 0 THEN "pending"
  ELSE IF PunchCount(r) > 0 THEN PunchStatus(r, c)
  ELSE "no_record"

\* The verdict of the metrics endpoint is taken over; "none" falls through.
ClassifyBackendLegacy(r, c, day) ==
  CASE day.status = "non_working" -> IF ~r.holiday /\ IsWeekend(r.date, c) THEN "weekend" ELSE "holiday"
    [] day.status = "pending" -> IF day.progress THEN "in_progress" ELSE "pending"
    [] day.status = "no_data" -> "no_record"
    [] day.status = "present" -> IF day.progress THEN "in_progress"
                                 ELSE IF day.missing THEN "missing_checkout" ELSE "present"
    [] day.status = "on_leave" -> "leave"
    [] day.status = "absent" -> "absent"
    [] day.status = "unverified" -> "absent_unverified"
    [] OTHER -> "none"

\* A past working day of the calendar without a swipe.
WorkingUnpunched(r, c) ==
  IF r.zoho = "yes" /\ c.trustZoho THEN "present_zoho_only"
  ELSE IF r.date \in c.covered THEN "absent"
  ELSE "absent_unverified"

\* The overlay of a committed leave report, first match first.
ClassifyOverlay(r, c) ==
  IF r.kind = "not_employed" THEN "not_employed"
  ELSE IF r.kind = "holiday" \/ r.holiday THEN IF HasPunch(r) THEN "worked_holiday" ELSE "holiday"
  ELSE IF r.kind = "weekend" THEN IF HasPunch(r) THEN "worked_weekend" ELSE "weekend"
  ELSE IF r.kind = NoKind /\ IsWeekend(r.date, c) THEN IF HasPunch(r) THEN PunchStatus(r, c) ELSE "weekend"
  ELSE IF r.date > c.today THEN "pending"
  ELSE IF r.date = c.today THEN IF HasPunch(r) THEN PunchStatus(r, c) ELSE "pending"
  ELSE IF r.kind = "leave" /\ ~r.half THEN IF HasPunch(r) \/ r.zoho = "yes" THEN "leave_conflict" ELSE "leave"
  ELSE IF r.kind = "leave" THEN "half_leave"
  ELSE IF r.kind = "on_duty" THEN "on_duty"
  ELSE IF r.kind = "working" THEN IF HasPunch(r) THEN PunchStatus(r, c) ELSE WorkingUnpunched(r, c)
  ELSE IF r.kind = "unknown" THEN "unverified"
  ELSE IF HasPunch(r) THEN PunchStatus(r, c) ELSE "absent_unverified"

\* "wfh" is left out: no record that fetchDayRecords builds has that field.
ClassifyDay(r, c, day) ==
  IF c.leaveActive THEN ClassifyOverlay(r, c)
  ELSE LET told == ClassifyBackendLegacy(r, c, day) IN
       IF told = "none" THEN ClassifyLegacy(r, c) ELSE told

Statuses ==
  {"weekend", "holiday", "leave", "present", "pending", "in_progress", "missing_checkout",
   "no_record", "absent", "absent_unverified", "unverified", "not_employed", "worked_holiday",
   "worked_weekend", "leave_conflict", "half_leave", "on_duty", "present_zoho_only", "null"}

----------------------------------------------------------------------------
(* metrics.js: weights in the rates *)

CountsAsPresent(status) ==
  status \in {"present", "missing_checkout", "present_zoho_only", "leave_conflict", "on_duty"}

CountsInDenominator(status) == CountsAsPresent(status) \/ status \in {"no_record", "absent"}

\* In half days.  absent gathers "absent", "no_record" and the working half of
\* a half leave that nothing backs.
DayWeight(status, r) ==
  CASE CountsAsPresent(status) -> [present |-> 2, expected |-> 2, absent |-> 0]
    [] status = "half_leave" -> IF HasPunch(r) \/ r.zoho = "yes"
                                THEN [present |-> 1, expected |-> 1, absent |-> 0]
                                ELSE [present |-> 0, expected |-> 1, absent |-> 1]
    [] status \in {"absent", "no_record"} -> [present |-> 0, expected |-> 2, absent |-> 2]
    [] OTHER -> [present |-> 0, expected |-> 0, absent |-> 0]

----------------------------------------------------------------------------
(* metrics/core.py: the endpoint's verdict on the same tables *)

ServerHasPunch(r) == r.checkIn \/ r.checkOut \/ r.flag

\* orgPunches: dates with a swipe of anyone; through: leave_coverage, 0 if none.
WrongServerStatus(r, c, orgPunches, through) ==
  IF IsWeekend(r.date, c) \/ r.holiday THEN "non_working"
  ELSE IF r.date > c.today THEN "pending"
  ELSE IF r.date \notin orgPunches THEN "no_data"
  ELSE IF PunchCount(r) = 2 THEN "present"
  ELSE IF r.date = c.today THEN "pending"
  ELSE IF r.kind = "leave" \/ r.leave THEN "on_leave"
  ELSE IF r.date <= through THEN "absent"
  ELSE "unverified"
ServerStatus(r, c, orgPunches, through) ==
  IF IsWeekend(r.date, c) \/ r.holiday THEN "non_working"
  ELSE IF r.date > c.today THEN "pending"
  ELSE IF r.date \notin orgPunches THEN "no_data"
  ELSE IF ServerHasPunch(r) THEN "present"
  ELSE IF r.date = c.today THEN "pending"
  ELSE IF r.kind = "leave" \/ r.leave THEN "on_leave"
  ELSE IF r.date <= through THEN "absent"
  ELSE "unverified"

\* An employee whose work-from-home plan exempts the date gets a status of its own.
ServerDay(r, c, orgPunches, through, exempt) ==
  LET status == ServerStatus(r, c, orgPunches, through) IN
  [status |-> IF exempt THEN "wfh_exempt" ELSE status,
   missing |-> status = "present" /\ PunchCount(r) = 1 /\ r.date < c.today,
   progress |-> status = "present" /\ PunchCount(r) <= 1 /\ r.date = c.today]
=============================================================================
