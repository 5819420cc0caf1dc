---------------------------- MODULE MCDayRecords ----------------------------
(* Two employees who may come to share a name; a working day, a day of a        *)
(* weekend, a holiday and today; pages of three rows.  Nobody has swiped on the *)
(* working day yet, one swipe or both may come in; leave_records has leave of    *)
(* one employee on it, and a plan exempts the other on the weekend.  One report  *)
(* has a day of leave, an unknown one and a last day after which an employee is  *)
(* gone; the other works on all days that have a row, and has a half day of leave. *)
EXTENDS DayRecords, TLC

MCEmployees == {1, 2}
MCDays == 1..4

Plain == [checkIn |-> FALSE, checkOut |-> FALSE, flag |-> FALSE]
Swiped == [Plain EXCEPT !.checkOut = TRUE]
Worked == [Swiped EXCEPT !.checkIn = TRUE]
MCSwipes == {Plain, Swiped, Worked}

MCStart ==
  {(<<1, 1>> :> Plain) @@ (<<2, 1>> :> Plain) @@ (<<2, 2>> :> Plain) @@ (<<1, 3>> :> Worked)
     @@ (<<2, 4>> :> Swiped) @@ [x \in Rows |-> NoRow]}

MCLeaves == {<<1, 1>>}
MCExempt == {<<2, 2>>}
MCTeam == <<"a", "b">>

Day(k) == [kind |-> k, half |-> FALSE, zoho |-> "none"]
Half == [Day("leave") EXCEPT !.half = TRUE]
MCWorkbooks ==
  {(<<1, 1>> :> Day("leave")) @@ (<<2, 1>> :> Day("unknown")) @@ (<<2, 2>> :> Day("not_employed"))
     @@ (<<1, 2>> :> Day("working")),
   (<<1, 1>> :> Day("working")) @@ (<<2, 1>> :> Day("working")) @@ (<<2, 2>> :> Day("working"))
     @@ (<<1, 2>> :> Half)}
=============================================================================
