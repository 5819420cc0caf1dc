--------------------------- MODULE MCLeaveImport ---------------------------
(* Small instances of LeaveImport and LeaveImportLedger for TLC. *)
EXTENDS LeaveImportLedger, TLC

CONSTANTS f1, f2, f3, a, b, c, s1, s2, e1

Day(n) == <<e1, n>>
Cell(s, code) == [sheet |-> s, raw |-> code]

\* Overlapping workbooks that disagree on day 1; f1 alone reaches day 2, on a
\* second sheet, and f3 brings a third code.
MCWorkbook ==
  f1 :> (Day(1) :> Cell(s1, a) @@ Day(2) :> Cell(s2, a))
    @@ f2 :> (Day(1) :> Cell(s1, b))
    @@ f3 :> (Day(1) :> Cell(s1, c))
MCUsable == f1 :> {s1, s2} @@ f2 :> {s1} @@ f3 :> {s1}

Symmetry == Permutations(Uploaders)
=============================================================================
