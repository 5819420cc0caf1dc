---------------------------- MODULE LeaveLedger ----------------------------
(***************************************************************************)
(* What the leave-import service promises: the calendar is a table that    *)
(* changes by batches.  A batch is committed on top of all the batches     *)
(* that stand, it may add or overwrite days but never removes one, and     *)
(* only the last one standing can be reverted, which brings back exactly   *)
(* the table it found.  A batch may also lapse: what it wrote stays, and   *)
(* from then on nothing is promised of the days it had written.            *)
(***************************************************************************)
EXTENDS Integers

CONSTANTS Batches,   \* batch ids, integers
          Keys,      \* the days of the calendar
          Values,    \* what a day may hold
          Empty      \* no row for the day

VARIABLES table,     \* [Keys -> Values \cup {Empty}]
          lost,      \* the days that a lapsed batch wrote
          undo,      \* the rest of the table each standing batch found
          wrote      \* the days each standing batch changed

ledgerState == <<table, lost, undo, wrote>>

Rest == Keys \ lost

Init ==
  /\ table = [k \in Keys |-> Empty]
  /\ lost = {}
  /\ undo = [i \in {} |-> table]
  /\ wrote = [i \in {} |-> lost]

Commit(i) ==
  /\ \A j \in DOMAIN undo : j < i
  /\ table' \in [Keys -> Values \cup {Empty}]
  /\ \A k \in Keys : table[k] # Empty => table'[k] # Empty
  /\ undo' = [j \in DOMAIN undo \cup {i} |->
               IF j = i THEN [k \in Rest |-> table[k]] ELSE undo[j]]
  /\ wrote' = [j \in DOMAIN undo \cup {i} |->
                IF j = i THEN {k \in Keys : table'[k] # table[k]} ELSE wrote[j]]
  /\ lost' = lost

Revert(i) ==
  /\ i \in DOMAIN undo
  /\ \A j \in DOMAIN undo : j <= i
  /\ table' \in [Keys -> Values \cup {Empty}]
  /\ \A k \in Rest : table'[k] = undo[i][k]
  /\ \A k \in lost : table'[k] # table[k] => k \in wrote[i]
  /\ undo' = [j \in DOMAIN undo \ {i} |-> undo[j]]
  /\ wrote' = [j \in DOMAIN undo \ {i} |-> wrote[j]]
  /\ lost' = lost

Lapse(S) ==
  /\ S # {} /\ S \subseteq DOMAIN undo
  /\ lost' = lost \cup UNION {wrote[i] : i \in S}
  /\ undo' = [j \in DOMAIN undo \ S |-> [k \in Rest' |-> undo[j][k]]]
  /\ wrote' = [j \in DOMAIN undo \ S |-> wrote[j]]
  /\ table' = table

Next == (\E i \in Batches : Commit(i) \/ Revert(i)) \/ \E S \in SUBSET Batches : Lapse(S)

Spec == Init /\ [][Next]_ledgerState
=============================================================================
