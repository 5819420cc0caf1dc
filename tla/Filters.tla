------------------------------ MODULE Filters ------------------------------
(***************************************************************************)
(* The filters of the dashboard and the query string they are kept in       *)
(* (filters.js; update and switchTab of Dashboard.jsx).  A filter at its    *)
(* default is left out of the query string, and whatever the query string   *)
(* says is checked against the data before it is used.  Dates and months    *)
(* are numbers; a team is its slug, and slugs are taken to be distinct.     *)
(***************************************************************************)
EXTENDS Naturals, FiniteSets

CONSTANTS
  Dates, Months,      \* the calendar around the data
  MonthOf, HalfOf,    \* of a date: its month, "h1" or "h2"
  ThisMonth,          \* currentMonthKey(today)
  Teams,
  Shifts,             \* "all" and the shifts proper
  None                \* an absent parameter, no day, all teams, no answer

\* The scopes a request for figures may name.
MetricsKeys ==
  [day : Dates \cup {None}, dates : SUBSET Dates, shift : Shifts,
   teams : {None} \cup SUBSET Teams, nopunch : BOOLEAN]

ASSUME CalendarAssumption ==
  /\ Dates \subseteq Nat /\ Months \subseteq Nat /\ ThisMonth \in Months
  /\ MonthOf \in [Dates -> Months] /\ HalfOf \in [Dates -> {"h1", "h2"}]
  /\ \A m \in Months, h \in {"h1", "h2"} : \E d \in Dates : MonthOf[d] = m /\ HalfOf[d] = h
  /\ \A S \in (SUBSET Months) \ {{}} : \E m \in S : \A n \in S : n <= m
ASSUME ShiftsAssumption == "all" \in Shifts
ASSUME NoneAssumption ==
  /\ None \notin Dates /\ None \notin Months /\ None \notin Shifts /\ \A T \in SUBSET Teams : T # None
  /\ None \notin {"whole", "h1", "h2", "list", "heatmap", "roster"}
ASSUME KeysAssumption == None \notin MetricsKeys

Ranges == {"whole", "h1", "h2"}
Views == {"list", "heatmap", "roster"}

LatestOf(S) == CHOOSE x \in S : \A y \in S : y <= x

\* What a query string says: None is a parameter that is not there.
Params ==
  [month : Months \cup {None}, range : {"h1", "h2", None}, day : Dates \cup {None},
   shift : Shifts \cup {None}, teams : {None} \cup SUBSET Teams, nopunch : BOOLEAN,
   view : {"heatmap", "roster", None}]

\* What the views read.  teams = None: all of them.
FilterStates ==
  [month : Months \cup {None}, range : Ranges, day : Dates \cup {None},
   shift : Shifts, teams : {None} \cup ((SUBSET Teams) \ {{}}), nopunch : BOOLEAN, view : Views]

NoParams == [month |-> None, range |-> None, day |-> None, shift |-> None,
             teams |-> None, nopunch |-> FALSE, view |-> None]

----------------------------------------------------------------------------

\* rangeDates: every day of a month and range, future ones included.
RangeDates(m, r) == {d \in Dates : MonthOf[d] = m /\ r \in {"whole", HalfOf[d]}}

ScopeDates(f) == IF f.day # None THEN {f.day} ELSE RangeDates(f.month, f.range)

\* defaultFilters: this month if it has records, else the last that has.
DefaultMonth(have) ==
  IF ThisMonth \in have THEN ThisMonth ELSE IF have = {} THEN None ELSE LatestOf(have)

\* parseFilters: a month without records, a day out of range and a choice of
\* teams none of which is left are dropped.  have: the months with records.
ParseFilters(p, have) ==
  LET month == IF p.month \in have THEN p.month ELSE DefaultMonth(have)
      range == IF p.range \in Ranges THEN p.range ELSE "whole"
  IN [month |-> month,
      range |-> range,
      day |-> IF p.day \in RangeDates(month, range) THEN p.day ELSE None,
      shift |-> IF p.shift \in Shifts THEN p.shift ELSE "all",
      teams |-> IF p.teams = {} THEN None ELSE p.teams,
      nopunch |-> p.nopunch,
      view |-> IF p.view \in Views THEN p.view ELSE "list"]

\* serializeFilters: defaults are left out; the view is not shared.
SerializeFilters(f, have) ==
  [month |-> IF f.month = DefaultMonth(have) THEN None ELSE f.month,
   range |-> IF f.range = "whole" THEN None ELSE f.range,
   day |-> f.day,
   shift |-> IF f.shift = "all" THEN None ELSE f.shift,
   teams |-> f.teams,
   nopunch |-> f.nopunch,
   view |-> None]

\* update: from the filters in force to those asked for.  A new month takes
\* the range and the day back, unless the range was given with it.
WrongUpdate(f, asked, given, have) ==
  [SerializeFilters(asked, have) EXCEPT !.view = IF asked.view = "list" THEN None ELSE asked.view]
WholeMonth(f) == [f EXCEPT !.range = "whole", !.day = None]
Update(f, asked, given, have) ==
  LET next == IF asked.month # f.month /\ ~given THEN WholeMonth(asked) ELSE asked
  IN [SerializeFilters(next, have) EXCEPT !.view = IF next.view = "list" THEN None ELSE next.view]

\* toggleTeam of the filter bar and of the Teams page: None if nothing changes.
Toggled(f, t) ==
  LET chosen == IF f.teams = None THEN Teams ELSE f.teams
      next == IF t \in chosen THEN chosen \ {t} ELSE chosen \cup {t}
  IN IF next = {} THEN f ELSE [f EXCEPT !.teams = IF next = Teams THEN None ELSE next]

\* isDefaultFilter: nothing to reset.
IsDefault(f, have) == SerializeFilters(f, have) = NoParams

\* The scope a request for figures names: metricsKey of useDashboardMetrics.
MetricsKey(f) ==
  [day |-> f.day, dates |-> RangeDates(f.month, f.range),
   teams |-> f.teams, shift |-> f.shift, nopunch |-> f.nopunch]

DaysOf(key) == IF key.day # None THEN {key.day} ELSE key.dates
=============================================================================
