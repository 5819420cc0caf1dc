--------------------------- MODULE MCWfhPolicies ---------------------------
(* Small instances of WfhPolicies for TLC. *)
EXTENDS WfhPolicies, TLC

Symmetry == Permutations(Employees) \cup Permutations(Writers)
=============================================================================
