-------------------------- MODULE MCLeaveCalendar --------------------------
(* Small instances of LeaveCalendar for TLC. *)
EXTENDS LeaveCalendar, TLC

CONSTANTS f1, f2, s1, e1, u1, r1

X(letters) == [half |-> FALSE, base |-> letters]
Half(letters) == [half |-> TRUE, base |-> letters]

AnnualLeave == <<X("EL")>>
HalfAnnualHalfPresent == <<Half("EL"), X("P")>>

Cell(code) == [sheet |-> s1, raw |-> code]
OneDay(code) == <<e1, 1>> :> Cell(code)
MCUsable == f1 :> {s1} @@ f2 :> {s1}

\* Two workbooks whose codes for a day differ only in the halves.
MCHalfCodes == {AnnualLeave, HalfAnnualHalfPresent}
MCHalfWorkbook == f1 :> OneDay(AnnualLeave) @@ f2 :> OneDay(HalfAnnualHalfPresent)

\* Nothing is mapped at first.
MCEmptyMap == [c \in {} |-> "leave"]
=============================================================================
