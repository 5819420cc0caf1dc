---------------------------- MODULE FilterBoard ----------------------------
(***************************************************************************)
(* What the filters promise: each control changes the filter it names and   *)
(* nothing else, except that a new month starts from the whole month.       *)
(* Query strings, defaults and checks against the data do not exist here.   *)
(***************************************************************************)
EXTENDS Filters

VARIABLES chosen, have

\* The filters a fresh visit or a shared link opens with.
Init == chosen \in FilterStates /\ have \subseteq Months

Set(f) == chosen' = f /\ UNCHANGED have

Start(view) == [month |-> DefaultMonth(have), range |-> "whole", day |-> None, shift |-> "all",
                teams |-> None, nopunch |-> FALSE, view |-> view]

Month(m) == m # chosen.month /\ Set([chosen EXCEPT !.month = m, !.range = "whole", !.day = None])

Range(r) == Set([chosen EXCEPT !.range = r, !.day = None])

Day(d) == d \in {None} \cup RangeDates(chosen.month, chosen.range) /\ Set([chosen EXCEPT !.day = d])

\* A day picked outside the filters in force: its month, its half, that day.
Jump(d) == Set([chosen EXCEPT !.month = MonthOf[d], !.range = HalfOf[d], !.day = d])

Shift(s) == Set([chosen EXCEPT !.shift = s])

\* Any team, or all of them: never no team.
TeamsTo(T) == T \in {None} \cup ((SUBSET Teams) \ {{}}) /\ Set([chosen EXCEPT !.teams = T])

NoPunch == Set([chosen EXCEPT !.nopunch = ~chosen.nopunch])

View(v) == Set([chosen EXCEPT !.view = v])

\* Reset, or a link that carries no filters.
Fresh == \E v \in {"list", chosen.view} : Set(Start(v))

\* A month gets its first records: a view of the default month may move to it,
\* and a link to one of its days comes true.
Arrive(m) ==
  /\ m \notin have
  /\ have' = have \cup {m}
  /\ \/ UNCHANGED chosen
     \/ /\ chosen.month = DefaultMonth(have)
        /\ \E d \in Dates \cup {None} : chosen' = [chosen EXCEPT !.month = m, !.day = d]

Next ==
  \/ \E m \in have : Month(m)
  \/ \E r \in Ranges : Range(r)
  \/ \E d \in Dates \cup {None} : Day(d)
  \/ \E d \in Dates : MonthOf[d] \in have /\ Jump(d)
  \/ \E s \in Shifts : Shift(s)
  \/ \E T \in {None} \cup SUBSET Teams : TeamsTo(T)
  \/ NoPunch
  \/ \E v \in Views : View(v)
  \/ Fresh
  \/ \E m \in Months : Arrive(m)

Spec == Init /\ [][Next]_<<chosen, have>>
=============================================================================
