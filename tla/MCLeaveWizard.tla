--------------------------- MODULE MCLeaveWizard ---------------------------
(* Two files with a sheet in common, which has errors in one of them; that   *)
(* file has an issue to tick, and the other would change too much of what is *)
(* stored if its second sheet were committed alone.                          *)
EXTENDS LeaveWizard, TLC

CONSTANTS f1, f2, s1, s2

MCSheetsOf == f1 :> {s1, s2} @@ f2 :> {s1, s2}
MCBlocked == f1 :> {s1} @@ f2 :> {}
MCNeeds == f1 :> {"dept"} @@ f2 :> {}
MCGuarded == f1 :> {} @@ f2 :> {{s2}}
=============================================================================
