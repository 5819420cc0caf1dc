----------------------------- MODULE Dashboard -----------------------------
(***************************************************************************)
(* The dashboard in one browser tab: the controls that change the query     *)
(* string (FilterBar, Teams, Employees, Exceptions, Heatmap, DataHealth),   *)
(* the request for figures that follows it (useDashboardMetrics), and the   *)
(* roster with a date and teams of its own (RosterView of Employees).       *)
(* Answers come in any order; the last superseded request is kept so that   *)
(* its late answer can be told from the one in force.                       *)
(***************************************************************************)
EXTENDS Filters

CONSTANTS
  Pages,          \* routes of the dashboard
  Groups,         \* names of saved groups of teams
  SavedEarlier,   \* what earlier visits may have saved, teams since gone included
  WithData,       \* days that biometric data exists for
  Links,          \* query strings the dashboard may be opened with
  RosterStatuses, \* what the roster may be asked for
  MaxEdits        \* bound: uses of a control

ASSUME LinksAssumption == Links \subseteq Params /\ MaxEdits \in Nat
ASSUME DatesAssumption == \A S \in (SUBSET Dates) \ {{}} : \E d \in S : \A e \in S : e <= d
ASSUME PagesAssumption == {"overview", "employees"} \subseteq Pages /\ WithData \subseteq Dates
ASSUME StatusesAssumption == "present" \in RosterStatuses

VARIABLES
  months,         \* months that have records
  page, url,      \* the location: route and query string
  groups,         \* localStorage: the teams of the saved groups, None if not saved
  metrics,        \* hook: the key of the figures shown, None before or after a failure
  asked, late,    \* hook: the key asked for now, and one superseded, or None
  roster,         \* RosterView
  edits

vars == <<months, page, url, groups, metrics, asked, late, roster, edits>>
hook == <<metrics, asked, late>>

filters == ParseFilters(url, months)

----------------------------------------------------------------------------
(* RosterView *)

RosterKeys == (Dates \cup {None}) \X (SUBSET Teams) \X RosterStatuses

\* date, teams, status: what is asked; shown: the request whose rows are on the
\* page; late: one superseded; start: the date of its last default.
Rosters ==
  [open : BOOLEAN, start : Dates \cup {None}, date : Dates \cup {None}, teams : SUBSET Teams,
   status : RosterStatuses, shown : {None} \cup RosterKeys, loading : BOOLEAN, error : BOOLEAN,
   late : {None} \cup RosterKeys]

Closed == [open |-> FALSE, start |-> None, date |-> None, teams |-> {}, status |-> "present",
           shown |-> None, loading |-> FALSE, error |-> FALSE, late |-> None]

RosterKey(r) == <<r.date, r.teams, r.status>>

\* The last day of the figures with data, else the last day in scope.
DefaultDate(f, figures) ==
  LET have == IF figures = None THEN {} ELSE DaysOf(figures) \cap WithData
      days == IF have # {} THEN have ELSE ScopeDates(f)
  IN IF days = {} THEN None ELSE LatestOf(days)

\* The effect of a new rosterKey: what was asked before is cancelled; without a
\* date nothing is asked.
Pick(r, date, teams, status) ==
  LET superseded == IF r.loading /\ r.date # None THEN RosterKey(r) ELSE r.late
      named == [r EXCEPT !.date = date, !.teams = teams, !.status = status]
  IN IF named = r THEN r
     ELSE IF date = None THEN [named EXCEPT !.late = superseded]
     ELSE [named EXCEPT !.late = superseded, !.loading = TRUE, !.error = FALSE]

\* The roster as the location and the figures leave it: opened with the default
\* date and the chosen teams, moved to a new default date, closed.
Follow(r, p, f, figures) ==
  LET date == DefaultDate(f, figures)
      opened == [Closed EXCEPT !.open = TRUE, !.start = date,
                               !.teams = IF f.teams = None THEN {} ELSE f.teams]
  IN IF p # "employees" \/ f.view # "roster" THEN Closed
     ELSE IF ~r.open THEN Pick(opened, date, opened.teams, opened.status)
     ELSE IF date # r.start THEN Pick([r EXCEPT !.start = date], date, r.teams, r.status)
     ELSE r

----------------------------------------------------------------------------
(* useDashboardMetrics *)

\* The effect of a new key: the request before it is cancelled, the figures stay
\* until the answer.  Without days nothing is asked.
Refetch(f) ==
  IF MetricsKey(f) = MetricsKey(filters) THEN UNCHANGED hook
  ELSE /\ asked' = IF RangeDates(f.month, f.range) = {} THEN None ELSE MetricsKey(f)
       /\ late' = IF asked # None THEN asked ELSE late
       /\ UNCHANGED metrics

\* Only the answer to the request in force is shown.
WrongAccepted(key) == TRUE
Accepted(key) == key = asked

Answer(key) ==
  /\ key \in {asked, late} \ {None}
  /\ asked' = IF key = asked THEN None ELSE asked
  /\ late' = IF key = late THEN None ELSE late
  /\ metrics' = IF Accepted(key) THEN key ELSE metrics
  /\ roster' = Follow(roster, page, filters, metrics')
  /\ UNCHANGED <<months, page, url, groups, edits>>

\* An error that is not a cancellation takes the figures away.
AnswerFails ==
  /\ asked # None
  /\ asked' = None /\ metrics' = None
  /\ roster' = Follow(roster, page, filters, None)
  /\ UNCHANGED <<months, page, url, groups, late, edits>>

----------------------------------------------------------------------------
(* The controls *)

Init ==
  /\ months \in SUBSET Months
  /\ page \in Pages /\ url \in Links
  /\ groups \in [Groups -> {None} \cup SavedEarlier]
  /\ metrics = None /\ late = None
  /\ asked = IF RangeDates(filters.month, filters.range) = {} THEN None ELSE MetricsKey(filters)
  /\ roster = Follow(Closed, page, filters, None)
  /\ edits = 0

Edit == edits < MaxEdits /\ edits' = edits + 1

\* navigate: a new location, and what it makes the page fetch.
Go(p, u) ==
  LET f == ParseFilters(u, months)
  IN /\ Edit
     /\ page' = p /\ url' = u
     /\ Refetch(f)
     /\ roster' = Follow(roster, p, f, metrics)
     /\ UNCHANGED <<months, groups>>

\* A control asks for filters; given: it names a range, or resets.
Ask(want, given) == Go(page, Update(filters, want, given, months))
AskOn(p, want, given) == Go(p, Update(filters, want, given, months))

ChooseMonth(m) == m # filters.month /\ Ask([filters EXCEPT !.month = m, !.day = None], FALSE)

ChooseRange(r) == Ask([filters EXCEPT !.range = r, !.day = None], TRUE)

ChooseDay(d) ==
  /\ d \in {None} \cup RangeDates(filters.month, filters.range)
  /\ Ask([filters EXCEPT !.day = d], FALSE)

ChooseShift(s) == Ask([filters EXCEPT !.shift = s], FALSE)

ToggleNoPunch == Ask([filters EXCEPT !.nopunch = ~filters.nopunch], FALSE)

AllTeams == Ask([filters EXCEPT !.teams = None], FALSE)

\* "Clear" keeps the first of the chosen teams.
ClearTeams ==
  IF filters.teams = None THEN AllTeams
  ELSE \E t \in filters.teams : Ask([filters EXCEPT !.teams = {t}], FALSE)

ToggleTeam(t) == Toggled(filters, t) # filters /\ Ask(Toggled(filters, t), FALSE)

\* A saved group: the teams of it that still exist, possibly none.
UseGroup(g) ==
  /\ groups[g] # None
  /\ Ask([filters EXCEPT !.teams = groups[g] \cap Teams], FALSE)

SaveGroup(g) ==
  /\ Edit
  /\ groups' = [groups EXCEPT ![g] = IF filters.teams = None THEN Teams ELSE filters.teams]
  /\ UNCHANGED <<months, page, url, hook, roster>>

DeleteGroup(g) ==
  /\ groups[g] # None /\ Edit
  /\ groups' = [groups EXCEPT ![g] = None]
  /\ UNCHANGED <<months, page, url, hook, roster>>

\* "Reset" asks for the default month; it leaves the view as it is.
Reset ==
  /\ ~IsDefault(filters, months)
  /\ Ask([NoParams EXCEPT !.shift = "all", !.view = filters.view], TRUE)

\* "Reset filters" of an empty list asks for the filters in force.
ResetEmpty == Ask(filters, TRUE)

ChooseView(v) == page = "employees" /\ Ask([filters EXCEPT !.view = v], FALSE)

\* A cell of the heatmap, an entry of the exceptions, a row of the list.
OpenDay(d) == d \in ScopeDates(filters) /\ AskOn("employees", [filters EXCEPT !.day = d], FALSE)
OpenEmployee == AskOn("employees", filters, FALSE)

\* A date of the coverage strip of the data health page.
OpenDate(d) ==
  /\ MonthOf[d] \in months
  /\ AskOn("overview", [filters EXCEPT !.month = MonthOf[d], !.range = HalfOf[d], !.day = d], TRUE)

\* A tab keeps the shared filters; a plain link of a card or a table keeps none.
SwitchTab(p) == Go(p, SerializeFilters(filters, months))
FollowLink(p) == Go(p, NoParams)

\* The roster's own fields.
PickRoster(date, teams, status) ==
  /\ roster.open /\ Edit
  /\ roster' = Pick(roster, date, teams, status)
  /\ UNCHANGED <<months, page, url, groups, hook>>
PickRosterDate(d) == PickRoster(d, roster.teams, roster.status)
PickRosterTeams(T) == PickRoster(roster.date, T, roster.status)
PickRosterStatus(s) == PickRoster(roster.date, roster.teams, s)

----------------------------------------------------------------------------
(* Answers to the roster; the data loaded again *)

RosterAnswer ==
  /\ roster.loading /\ roster.date # None
  /\ roster' = [roster EXCEPT !.shown = RosterKey(roster), !.loading = FALSE]
  /\ UNCHANGED <<months, page, url, groups, hook, edits>>

RosterFails ==
  /\ roster.loading /\ roster.date # None
  /\ roster' = [roster EXCEPT !.error = TRUE, !.loading = FALSE]
  /\ UNCHANGED <<months, page, url, groups, hook, edits>>

\* The answer to a cancelled request comes after all.
WrongLateRows(r) == [r EXCEPT !.shown = r.late, !.loading = FALSE, !.late = None]
LateRows(r) == [r EXCEPT !.late = None]

RosterLate ==
  /\ roster.late # None
  /\ roster' = LateRows(roster)
  /\ UNCHANGED <<months, page, url, groups, hook, edits>>

\* The download of the rows fails: the error hides them until another request.
ExportFails ==
  /\ roster.shown # None /\ ~roster.error
  /\ roster' = [roster EXCEPT !.error = TRUE]
  /\ UNCHANGED <<months, page, url, groups, hook, edits>>

\* App loads the records again, after a sync or with a renewed session; while it
\* does the dashboard is not there, and its state starts afresh.
Reload(more) ==
  LET f == ParseFilters(url, months \cup more)
  IN /\ Edit
     /\ months' = months \cup more
     /\ metrics' = None /\ late' = None
     /\ asked' = IF RangeDates(f.month, f.range) = {} THEN None ELSE MetricsKey(f)
     /\ roster' = Follow(Closed, page, f, None)
     /\ UNCHANGED <<page, url, groups>>

Control ==
  \/ \E m \in months : ChooseMonth(m)
  \/ \E r \in Ranges : ChooseRange(r)
  \/ \E d \in Dates \cup {None} : ChooseDay(d) \/ PickRosterDate(d)
  \/ \E d \in Dates : OpenDay(d) \/ OpenDate(d)
  \/ \E s \in Shifts : ChooseShift(s)
  \/ \E t \in Teams : ToggleTeam(t)
  \/ AllTeams \/ ClearTeams \/ ToggleNoPunch \/ Reset \/ ResetEmpty \/ OpenEmployee
  \/ \E g \in Groups : UseGroup(g) \/ SaveGroup(g) \/ DeleteGroup(g)
  \/ \E v \in Views : ChooseView(v)
  \/ \E p \in Pages : SwitchTab(p) \/ FollowLink(p)
  \/ \E T \in SUBSET Teams : PickRosterTeams(T)
  \/ \E s \in RosterStatuses : PickRosterStatus(s)

Answers ==
  \/ \E key \in {asked, late} : Answer(key)
  \/ AnswerFails \/ RosterAnswer \/ RosterFails \/ RosterLate \/ ExportFails

Next == Control \/ Answers \/ \E m \in Months : Reload({m}) \/ Reload({})

Spec == Init /\ [][Next]_vars

----------------------------------------------------------------------------
(* Properties *)

\* The location, the records and the saved groups; what the hook asked and shows;
\* the roster.
LocationOK ==
  /\ months \subseteq Months /\ page \in Pages /\ url \in Params
  /\ groups \in [Groups -> {None} \cup SavedEarlier \cup SUBSET Teams]
  /\ edits \in 0..MaxEdits
HookOK == {metrics, asked, late} \subseteq {None} \cup MetricsKeys
TypeOK == LocationOK /\ HookOK /\ roster \in Rosters

\* Figures of one scope never appear under another for good: with no request in
\* flight they are those of the filters in force, or there are none.
FiguresOfScope == asked = None /\ metrics # None => metrics = MetricsKey(filters)

\* The roster shows the rows of the date, the teams and the status it names, once
\* it is neither loading nor reporting an error.
RosterOfRequest ==
  roster.open /\ roster.date # None /\ ~roster.loading /\ ~roster.error
    => roster.shown = RosterKey(roster)

\* Each control does to the filters what it says, whatever the query string
\* leaves out and the data drops.
Board == INSTANCE FilterBoard WITH chosen <- filters, have <- months
ImplementsBoard == Board!Spec
=============================================================================
