-------------------------- MODULE SessionFamilies --------------------------
(***************************************************************************)
(* What refresh-token families promise: a family is opened once, by a      *)
(* login, and from the moment it is closed it stays closed.                *)
(***************************************************************************)
CONSTANT Families

VARIABLES opened, closed

Init == opened = {} /\ closed = {}

Open(f) ==
  /\ f \in Families \ opened
  /\ opened' = opened \cup {f}
  /\ UNCHANGED closed

\* Any number of open families is closed at once.
Close(S) ==
  /\ S # {} /\ S \subseteq opened \ closed
  /\ closed' = closed \cup S
  /\ UNCHANGED opened

Next == (\E f \in Families : Open(f)) \/ (\E S \in SUBSET Families : Close(S))

Spec == Init /\ [][Next]_<<opened, closed>>
=============================================================================
