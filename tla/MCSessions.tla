----------------------------- MODULE MCSessions -----------------------------
(* Small instances of Sessions for TLC. *)
EXTENDS Sessions, TLC

CONSTANT u1

Symmetry == Permutations(Requests)
=============================================================================
