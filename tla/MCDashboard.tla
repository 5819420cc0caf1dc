---------------------------- MODULE MCDashboard ----------------------------
(* Two months of two days, two teams; this month has no records yet, and a   *)
(* link may name a month or a day without records.                           *)
EXTENDS Dashboard

MCMonthOf == <<1, 1, 2, 2>>
MCHalfOf == <<"h1", "h2", "h1", "h2">>
MCDates == 1..4

MCLinks ==
  {NoParams,
   [NoParams EXCEPT !.month = 2, !.range = "h2", !.day = 3, !.teams = {}, !.view = "roster"]}

CONSTANT gone
MCSaved == {{gone}}
=============================================================================
