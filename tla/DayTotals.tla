----------------------------- MODULE DayTotals -----------------------------
(***************************************************************************)
(* What the pages count from the same day records: the totals of           *)
(* aggregate, the leave quality panel of Data health, and the list of       *)
(* Exceptions.jsx.  R gives the record of every employee and date (a row,   *)
(* or what carryRec makes), S its status, c the context.  Half days count    *)
(* one.                                                                     *)
(***************************************************************************)
EXTENDS DayStatus, FiniteSets, FiniteSetsExt

\* told: the verdicts of the API.
StatusOf(R, told, c) == [x \in DOMAIN R |-> ClassifyDay(R[x], c, told[x])]

\* metrics.js: aggregate, for one employee.
Summary(R, S, c, e, dates) ==
  LET DaysIn(T) == {d \in dates : S[<<e, d>>] \in T}
      Weight(d) == DayWeight(S[<<e, d>>], R[<<e, d>>])
      HalfAbsent == {d \in DaysIn({"half_leave"}) : Weight(d).present = 0}
  IN [present |-> SumFunction([d \in dates |-> Weight(d).present]),
      expected |-> SumFunction([d \in dates |-> Weight(d).expected]),
      noRecord |-> Cardinality(DaysIn({"no_record"})),
      absent |-> 2 * Cardinality(DaysIn({"absent"})) + Cardinality(HalfAbsent),
      unverified |-> Cardinality(DaysIn({"absent_unverified", "unverified"})),
      conflicts |-> Cardinality(DaysIn({"leave_conflict"})),
      missing |-> Cardinality(DaysIn({"missing_checkout"})),
      neverPunched |-> ~ \E d \in dates : /\ d < c.today /\ ~IsWeekend(d, c)
                                          /\ ~R[<<e, d>>].holiday /\ PunchCount(R[<<e, d>>]) > 0]

\* Over everybody, or only those who ever swiped.
Totals(R, S, c, everyone, dates, excludeNeverPunched) ==
  LET inRates == {e \in everyone : excludeNeverPunched => ~Summary(R, S, c, e, dates).neverPunched}
      Total(Of(_)) == SumFunction([e \in inRates |-> Of(Summary(R, S, c, e, dates))])
  IN [headcount |-> Cardinality(inRates),
      present |-> Total(LAMBDA s : s.present), expected |-> Total(LAMBDA s : s.expected),
      noRecord |-> Total(LAMBDA s : s.noRecord), absent |-> Total(LAMBDA s : s.absent),
      unverified |-> Total(LAMBDA s : s.unverified), conflicts |-> Total(LAMBDA s : s.conflicts)]

\* metrics.js: leaveQuality, without the samples.
LeaveQuality(R, S, c, everyone, dates) ==
  LET At(T) == {x \in everyone \X dates : S[x] \in T} IN
  [conflicts |-> Cardinality(At({"leave_conflict"})),
   unverified |-> Cardinality(At({"absent_unverified", "unverified"})),
   noLeaveData |-> {e \in everyone : \A d \in dates : R[<<e, d>>].kind = NoKind},
   zohoOnly |-> {x \in everyone \X dates : R[x].zoho = "yes" /\ ~HasPunch(R[x])},
   zohoAbsent |-> {x \in everyone \X dates : R[x].zoho = "no" /\ HasPunch(R[x]) /\ R[x].kind = "working"}]

\* Data health shows them with a leave report only.
QualityPanel(R, S, c, everyone, dates) ==
  IF c.leaveActive THEN {LeaveQuality(R, S, c, everyone, dates)} ELSE {}

\* Exceptions.jsx: buildEntries, for the employees with a row in scope; late
\* arrivals and early leavers, which are columns of the row, are left out.
WrongEntries(R, S, c, seen, dates, never) ==
  UNION {LET st == S[x] IN
         {<<type, x>> : type \in
            (IF st \in {"no_record", "absent"} THEN {"no_record"} ELSE {})
            \cup (IF st = "leave_conflict" THEN {"leave_conflict"} ELSE {})
            \cup (IF st \in {"absent_unverified", "unverified"} THEN {"unverified_day"} ELSE {})} :
         x \in seen \X dates}
Entries(R, S, c, seen, dates, never) ==
  UNION {LET st == S[x] IN
         {<<type, x>> : type \in
            (IF st \in {"no_record", "absent"} /\ x[1] \notin never THEN {"no_record"} ELSE {})
            \cup ({st} \cap {"missing_checkout", "leave_conflict"})
            \cup (IF st \in {"absent_unverified", "unverified"} THEN {"unverified_day"} ELSE {})
            \cup (IF c.leaveLoaded /\ R[x].leave /\ PunchCount(R[x]) > 0 THEN {"unmatched_leave"} ELSE {})} :
         x \in seen \X dates}

\* The chips: late arrivals apart, which types can be chosen, and their counts.
Selectable(type, c) == type \in {"leave_conflict", "unverified_day"} => c.leaveActive
ChipCount(entries, type, c) ==
  IF Selectable(type, c) THEN Cardinality({x \in entries : x[1] = type}) ELSE 0
=============================================================================
