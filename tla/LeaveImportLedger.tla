------------------------- MODULE LeaveImportLedger -------------------------
(***************************************************************************)
(* The import service implements LeaveLedger: the standing batches are the *)
(* committed imports, the lapsed ones those that a janitor expired after   *)
(* their commit, and the table each standing batch found is rebuilt from   *)
(* the audit rows of the imports committed since.                          *)
(***************************************************************************)
EXTENDS LeaveImport

\* Audit rows of day d by import i and by the committed imports above it.
AuditSince(i, d) == {a \in audit : a.day = d /\ a.batch \in Committed /\ a.batch >= i}

First(rows) == CHOOSE a \in rows : \A b \in rows : a.batch <= b.batch

\* The code of day d before import i was committed.
CodeBefore(i, d) ==
  IF AuditSince(i, d) = {} THEN calendar[d] ELSE First(AuditSince(i, d)).old

AuditedDays(i) == {d \in Days : \E a \in audit : a.batch = i /\ a.day = d}

Ledger == INSTANCE LeaveLedger WITH
  Batches <- Ids, Keys <- Days, Values <- Codes, Empty <- NoRow,
  table <- calendar, lost <- LapsedDays,
  undo <- [i \in Committed |-> [d \in Days \ LapsedDays |-> CodeBefore(i, d)]],
  wrote <- [i \in Committed |-> AuditedDays(i)]

\* Whatever requests, restarts and failures interleave, what happens to the
\* calendar is a sequence of batch commits and of reverts of the last one that
\* stands, each exact on every day but those of batches that lapsed.
ImplementsLedger == Ledger!Spec
=============================================================================
