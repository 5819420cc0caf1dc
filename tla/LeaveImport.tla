---------------------------- MODULE LeaveImport ----------------------------
(***************************************************************************)
(* The leave-workbook import service: upload, preview, commit, discard,    *)
(* revert and the janitor (api/app/routers/leave_import.py,                *)
(* api/app/leave/service.py, api/app/leave/janitor.py) over the PostgreSQL *)
(* tables of db/init.sql.                                                  *)
(*                                                                         *)
(* Every request is one READ COMMITTED transaction.  An action is a part   *)
(* of a transaction between two points where another transaction can get   *)
(* in; what a transaction has written becomes visible in its last action,  *)
(* and a transaction that is rolled back just forgets its private record.  *)
(* The statuses "parsing" and "committing" are written and overwritten     *)
(* inside one transaction, so no other transaction ever sees them, and     *)
(* nothing in the code writes "failed" to a row that is visible.           *)
(***************************************************************************)
EXTENDS Integers, FiniteSets

CONSTANTS
  Files,          \* workbooks, identified by their SHA-256
  Sheets,         \* sheet names
  Employees,
  Dates,          \* calendar dates, as positive integers
  Codes,          \* raw cell codes
  Workbook,       \* Workbook[f]: the staged rows of f, day |-> [sheet, raw]
  Usable,         \* Usable[f]: the sheets of f that are not blocked
  Mismatched,     \* files whose parse raised DEPARTMENT_MISMATCH
  Uploaders,      \* upload requests that can be in flight at once
  IdemKeys,       \* idempotency keys clients send with a commit
  Expiring,       \* imports whose 24 hours may pass
  MaxImports,     \* bound on leave_import ids handed out
  NoRow, NoFile, NoKey

Ids == 1 .. MaxImports
Days == Employees \X Dates

ASSUME BoundAssumption == MaxImports \in Nat /\ Expiring \subseteq Ids
ASSUME DatesAssumption == Dates \subseteq Nat \ {0}
ASSUME MarkerAssumption == NoRow \notin Codes /\ NoFile \notin Files /\ NoKey \notin IdemKeys
ASSUME WorkbookAssumption ==
  \A f \in Files :
    /\ Usable[f] \subseteq Sheets
    /\ DOMAIN Workbook[f] \subseteq Days
    /\ \A d \in DOMAIN Workbook[f] : /\ Workbook[f][d].sheet \in Usable[f]
                                     /\ Workbook[f][d].raw \in Codes

VARIABLES
  status, sha, base, idem,   \* leave_import columns, by id
  shown,          \* leave_import.counts and the issues derived from them, by id
  due,            \* ids whose expires_at is in the past
  names,          \* ids whose preview_names is not NULL
  nextId,         \* the SERIAL sequence of leave_import.id
  staging,        \* ids that have their rows in leave_import_staging
  calendar,       \* calendar_day.raw_code of source xls, or NoRow
  batch,          \* calendar_day.batch_id, 0 where there is no row
  audit,          \* calendar_day_change
  coverage,       \* leave_coverage.through_date of source xls, 0 for no row
  uploads,        \* the upload transactions in flight
  committer,      \* the commit transaction that holds the advisory lock
  lapsed          \* history: ids that a janitor expired while they were committed

importVars == <<sha, base, shown, nextId, lapsed>>
previewVars == <<staging, names>>
ledgerVars == <<calendar, batch, audit, coverage, idem>>
vars == <<status, importVars, due, previewVars, ledgerVars, uploads, committer>>

Statuses == {"none", "preview_ready", "committed", "discarded", "expired", "reverted"}
LiveStatuses == {"preview_ready", "committed"}
Phases == {"idle", "janitor", "parsing", "created"}
Idle == [pc |-> "idle", file |-> NoFile, doomed |-> {}, done |-> {}, at |-> 0,
         id |-> 0, base |-> 0]
Free == [op |-> "none", id |-> 0, sheets |-> {}, key |-> NoKey, confirm |-> FALSE]
NothingShown == [added |-> {}, changing |-> {}]

----------------------------------------------------------------------------
\* The operators named Wrong... are variants of the definition that follows
\* each of them, as a slip in the code would leave it; nothing uses them, they
\* serve to see that a property can fail.

\* The largest element of a set of positive integers, 0 for the empty set
\* (MAX(..), COALESCEd or tested for NULL), as a one-element set.
TopOf(S) == {m \in S \cup {0} : \A x \in S : x <= m}

Committed == {i \in Ids : status[i] = "committed"}

StoredDays(cal) == {d \in Days : cal[d] # NoRow}
DatesIn(D) == {d[2] : d \in D}

Raw(f, d) == Workbook[f][d].raw
RowsOf(f, sheets) == {d \in DOMAIN Workbook[f] : Workbook[f][d].sheet \in sheets}

\* The rows a statement on leave_import_staging finds for import i.
StagedRows(i, sheets) == IF i \in staging THEN RowsOf(sha[i], sheets) ELSE {}

\* raw_code IS DISTINCT FROM, over the rows D of file f.
Distinct(f, D) == {d \in D : calendar[d] # Raw(f, d)}
DiffOf(f) ==
  LET differ == Distinct(f, DOMAIN Workbook[f]) IN
  [added |-> differ \ StoredDays(calendar), changing |-> differ \cap StoredDays(calendar)]

\* The D9 guard: more than 5% of the stored days would change.
LargeShare(changing, stored) == 20 * Cardinality(changing) > Cardinality(stored)
LargeShown(i) == LargeShare(shown[i].changing, DOMAIN Workbook[sha[i]] \ shown[i].added)

\* What the janitor of an upload in flight holds: the rows of leave_import that
\* it has updated, and the staged rows that it has deleted.
UpdatedBy(u) == uploads[u].done
DeletedBy(u) == uploads[u].done \cup ({uploads[u].at} \ {0})

\* The row of import i is held by a janitor, or by the commit that locked it.
Locked(i) ==
  \/ \E u \in Uploaders : i \in UpdatedBy(u)
  \/ committer.op = "apply" /\ committer.id = i

\* A DELETE of the staged rows of i waits for nobody but a janitor that has
\* deleted some of them.
StagingFree(i) == i \in staging => \A u \in Uploaders : i \notin DeletedBy(u)

\* Live imports of a file, as seen by a transaction whose janitor has
\* expired the imports in "doomed".
LiveImports(f, doomed) ==
  {i \in Ids \ doomed : sha[i] = f /\ status[i] \in LiveStatuses}

Overdue == {i \in due : status[i] = "preview_ready"}

Init ==
  /\ status = [i \in Ids |-> "none"]
  /\ sha = [i \in Ids |-> NoFile]
  /\ base = [i \in Ids |-> 0]
  /\ idem = [i \in Ids |-> NoKey]
  /\ shown = [i \in Ids |-> NothingShown]
  /\ due = {} /\ names = {} /\ staging = {} /\ audit = {} /\ lapsed = {}
  /\ nextId = 1
  /\ calendar = [d \in Days |-> NoRow]
  /\ batch = [d \in Days |-> 0]
  /\ coverage = 0
  /\ uploads = [u \in Uploaders |-> Idle]
  /\ committer = Free

----------------------------------------------------------------------------
(* POST /leave/imports: one transaction, cut where another one can get in. *)

\* An upload starts: run_janitor reads the ids it is going to expire.  (Bound:
\* uploads start only while an id is left for each one in flight.)
JanitorSelect(u, f) ==
  /\ uploads[u].pc = "idle"
  /\ nextId + Cardinality({v \in Uploaders : uploads[v].pc \in {"janitor", "parsing"}})
       <= MaxImports
  /\ uploads' = [uploads EXCEPT ![u] = [Idle EXCEPT !.pc = "janitor", !.file = f,
                                                    !.doomed = Overdue]]
  /\ UNCHANGED <<status, importVars, due, previewVars, ledgerVars, committer>>

\* The loop over those ids (the SELECT has no order): DELETE the staged rows of
\* one, then UPDATE its row by id, whatever its status is by now.  Both stay
\* locked until the upload ends.
JanitorDeletes(u) ==
  LET up == uploads[u] IN
  /\ up.pc = "janitor" /\ up.at = 0
  /\ \E i \in up.doomed \ up.done :
       /\ StagingFree(i)
       /\ uploads' = [uploads EXCEPT ![u] = [up EXCEPT !.at = i]]
  /\ UNCHANGED <<status, importVars, due, previewVars, ledgerVars, committer>>

JanitorUpdates(u) ==
  LET up == uploads[u] IN
  /\ up.pc = "janitor" /\ up.at # 0
  /\ ~Locked(up.at)
  /\ uploads' = [uploads EXCEPT ![u] = [up EXCEPT !.at = 0, !.done = up.done \cup {up.at}]]
  /\ UNCHANGED <<status, importVars, due, previewVars, ledgerVars, committer>>

\* find_live_import, once the janitor is through, ends the request (and, with
\* no commit, the janitor's work) if the file is live; else parsing begins.
FindLive(u) ==
  LET up == uploads[u] IN
  /\ up.pc = "janitor" /\ up.at = 0 /\ up.done = up.doomed
  /\ uploads' = [uploads EXCEPT ![u] = IF LiveImports(up.file, up.doomed) # {}
                                       THEN Idle ELSE [up EXCEPT !.pc = "parsing"]]
  /\ UNCHANGED <<status, importVars, due, previewVars, ledgerVars, committer>>

\* create_import: base_version is read, then the row is inserted.  The
\* unique index on live hashes makes the INSERT wait for a transaction in
\* flight that inserted or is expiring a row of the same file, and fail
\* (the request is rolled back, the sequence is not) on a visible one.  (It
\* waits for a commit of the file, too: it is then inserted after the commit.)
CreateImport(u) ==
  LET up == uploads[u]
      live == LiveImports(up.file, up.doomed) IN
  /\ up.pc = "parsing"
  /\ nextId \in Ids
  /\ \A v \in Uploaders \ {u} : /\ ~(uploads[v].pc = "created" /\ uploads[v].file = up.file)
                                /\ UpdatedBy(v) \cap live = {}
  /\ nextId' = nextId + 1
  /\ \/ /\ live # {}
        /\ uploads' = [uploads EXCEPT ![u] = Idle]
     \/ /\ live = {}
        /\ \E b \in TopOf(Committed \ up.doomed) :
             uploads' = [uploads EXCEPT ![u] = [up EXCEPT !.pc = "created", !.id = nextId,
                                                          !.base = b]]
  /\ UNCHANGED <<status, sha, base, shown, lapsed, due, previewVars, ledgerVars, committer>>

WrongSwept(data, gone) == data

\* The janitor's DELETE of staged rows, and preview_names = NULL.
Swept(data, gone) == data \ gone

\* write_staging, finalize_preview (diff and guards against the calendar of
\* this moment) and the COMMIT that publishes the preview together with what
\* the janitor did at the start of the transaction.
PublishPreview(u) ==
  LET up == uploads[u] IN
  /\ up.pc = "created"
  /\ status' = [i \in Ids |-> IF i = up.id THEN "preview_ready"
                              ELSE IF i \in up.done THEN "expired" ELSE status[i]]
  /\ sha' = [sha EXCEPT ![up.id] = up.file]
  /\ base' = [base EXCEPT ![up.id] = up.base]
  /\ shown' = [shown EXCEPT ![up.id] = DiffOf(up.file)]
  /\ staging' = Swept(staging, up.done) \cup {up.id}
  /\ names' = Swept(names, up.done) \cup {up.id}
  /\ lapsed' = lapsed \cup (up.done \cap Committed)
  /\ uploads' = [uploads EXCEPT ![u] = Idle]
  /\ UNCHANGED <<nextId, due, ledgerVars, committer>>

\* The file does not parse, a statement fails, PostgreSQL picks the transaction
\* out of a deadlock, or the client's connection is cut: the whole transaction,
\* janitor included, is rolled back.
UploadFails(u) ==
  /\ uploads[u].pc # "idle"
  /\ uploads' = [uploads EXCEPT ![u] = Idle]
  /\ UNCHANGED <<status, importVars, due, previewVars, ledgerVars, committer>>

----------------------------------------------------------------------------
(* POST /leave/imports/{id}/commit                                         *)

WrongBaseCurrent(i) == TRUE

\* The preview's base_version is still the latest committed import.
BaseCurrent(i) == base[i] \in TopOf(Committed)

\* The advisory lock is free and every check of the handler up to the issue
\* codes passes; get_import takes no row lock.  A request that fails a check,
\* or replays a committed key, changes nothing and is not an action.
CommitCheck(i, sheets, key, confirm, ack) ==
  /\ committer = Free
  /\ status[i] = "preview_ready"
  /\ key = NoKey \/ \A j \in Committed : idem[j] # key
  /\ i \notin due
  /\ BaseCurrent(i)
  /\ sheets = Usable[sha[i]] \/ (sheets # {} /\ sheets \subseteq Usable[sha[i]])
  /\ LargeShown(i) => confirm
  /\ sha[i] \in Mismatched => ack
  /\ committer' = [op |-> "guard", id |-> i, sheets |-> sheets, key |-> key,
                   confirm |-> confirm]
  /\ UNCHANGED <<status, importVars, due, previewVars, ledgerVars, uploads>>

\* The preview's 24 hours have passed: the handler is about to expire it.
CommitFindsExpired(i, key) ==
  /\ committer = Free
  /\ status[i] = "preview_ready"
  /\ key = NoKey \/ \A j \in Committed : idem[j] # key
  /\ i \in due
  /\ committer' = [Free EXCEPT !.op = "expire", !.id = i]
  /\ UNCHANGED <<status, importVars, due, previewVars, ledgerVars, uploads>>

\* UPDATE leave_import SET status = 'expired' by id, and nothing else.
CommitMarksExpired ==
  /\ committer.op = "expire"
  /\ ~Locked(committer.id)
  /\ status' = [status EXCEPT ![committer.id] = "expired"]
  /\ committer' = Free
  /\ UNCHANGED <<importVars, due, previewVars, ledgerVars, uploads>>

WrongGuardAccepts(rows, confirm) == TRUE

\* The D9 guard again, on the selected rows and the calendar of this moment.
GuardAccepts(rows, confirm) ==
  LET stored == rows \cap StoredDays(calendar) IN
  LargeShare(Distinct(sha[committer.id], stored), stored) => confirm

\* overlap_guard_selected, still without a lock on the row ...
CommitGuard ==
  /\ committer.op = "guard"
  /\ GuardAccepts(StagedRows(committer.id, committer.sheets), committer.confirm)
  /\ committer' = [committer EXCEPT !.op = "lock"]
  /\ UNCHANGED <<status, importVars, due, previewVars, ledgerVars, uploads>>

\* ... which service.commit_import takes: SELECT .. FOR UPDATE waits for a
\* janitor that has updated it, and does not look at the status again.
CommitLocks ==
  /\ committer.op = "lock"
  /\ ~Locked(committer.id)
  /\ committer' = [committer EXCEPT !.op = "apply"]
  /\ UNCHANGED <<status, importVars, due, previewVars, ledgerVars, uploads>>

WrongFileFree(i) == TRUE

\* The two unique indexes of leave_import let import i become committed.
KeyFree(i, key) == key = NoKey \/ \A j \in Ids \ {i} : idem[j] # key
FileFree(i) == LiveImports(sha[i], {i}) = {}

\* Nothing that is not committed yet keeps 'committing' out of the index on
\* live hashes.
IndexSettled(i) == \A u \in Uploaders : ~(uploads[u].pc = "created" /\ uploads[u].file = sha[i])

Purge(i) == staging' = staging \ {i} /\ names' = names \ {i}

WrongUpserted(f, rows) == rows

\* ON CONFLICT .. DO UPDATE .. WHERE raw_code IS DISTINCT FROM: the rows the
\* upsert writes; the others keep their batch_id.
Upserted(f, rows) == Distinct(f, rows)

\* The rest of service.commit_import: 'committing' (the index on live hashes is
\* asked), audit, upsert, coverage, 'committed', and the staging purge, which
\* waits for a janitor that has deleted the rows; then COMMIT.
CommitApply ==
  LET i == committer.id
      rows == StagedRows(i, committer.sheets)
      changed == Distinct(sha[i], rows)
      upserted == Upserted(sha[i], rows) IN
  /\ committer.op = "apply"
  /\ IndexSettled(i) /\ StagingFree(i)
  /\ KeyFree(i, committer.key) /\ FileFree(i)
  /\ audit' = audit \cup {[batch |-> i, day |-> d, old |-> calendar[d], new |-> Raw(sha[i], d)] :
                            d \in changed}
  /\ calendar' = [d \in Days |-> IF d \in upserted THEN Raw(sha[i], d) ELSE calendar[d]]
  /\ batch' = [d \in Days |-> IF d \in upserted THEN i ELSE batch[d]]
  /\ \E through \in TopOf(DatesIn(rows)) :
       coverage' = IF through > coverage THEN through ELSE coverage
  /\ status' = [status EXCEPT ![i] = "committed"]
  /\ idem' = IF committer.key = NoKey THEN idem ELSE [idem EXCEPT ![i] = committer.key]
  /\ Purge(i)
  /\ committer' = Free
  /\ UNCHANGED <<importVars, due, uploads>>

\* The overlap guard refuses, or a unique index is violated: rolled back, and
\* the advisory lock released with it.
CommitRefused ==
  LET i == committer.id IN
  /\ \/ /\ committer.op = "guard"
        /\ ~GuardAccepts(StagedRows(i, committer.sheets), committer.confirm)
     \/ /\ committer.op = "apply"
        /\ IndexSettled(i)
        /\ ~(KeyFree(i, committer.key) /\ FileFree(i))
  /\ committer' = Free
  /\ UNCHANGED <<status, importVars, due, previewVars, ledgerVars, uploads>>

\* A statement fails, the transaction is picked out of a deadlock, or the
\* connection is cut.
CommitFails ==
  /\ committer # Free
  /\ committer' = Free
  /\ UNCHANGED <<status, importVars, due, previewVars, ledgerVars, uploads>>

----------------------------------------------------------------------------
(* POST /leave/imports/{id}/discard and .../revert                         *)

WrongDiscardable == {"preview_ready", "expired", "committed"}
Discardable == {"preview_ready", "expired"}

\* It locks the row and then deletes the staged rows, a deadlock like the one
\* of a commit if a janitor holds those; whichever of the two is picked out,
\* what is left is the other alone.
Discard(i) ==
  /\ ~Locked(i) /\ StagingFree(i)
  /\ status[i] \in Discardable
  /\ status' = [status EXCEPT ![i] = "discarded"]
  /\ Purge(i)
  /\ UNCHANGED <<importVars, due, ledgerVars, uploads, committer>>

\* The audited days of i that still hold the value i gave them; revert skips
\* the others.
Restorable(i) == {a \in audit : a.batch = i /\ calendar[a.day] = a.new}

WrongIsLatest(i) == TRUE
IsLatest(i) == i \in TopOf(Committed)

WrongCoverageFrom(cal) == {coverage}
CoverageFrom(cal) == TopOf(DatesIn(StoredDays(cal)))

NoCommitUnderWay == committer = Free

\* revert_import takes the same advisory lock, only ever undoes the committed
\* import with the largest id, and re-derives coverage from what remains.
Revert(i) ==
  /\ NoCommitUnderWay
  /\ ~Locked(i)
  /\ status[i] = "committed"
  /\ IsLatest(i)
  /\ calendar' = [d \in Days |-> IF \E a \in Restorable(i) : a.day = d
                                 THEN (CHOOSE a \in Restorable(i) : a.day = d).old
                                 ELSE calendar[d]]
  /\ batch' = [d \in Days |-> IF calendar'[d] = NoRow THEN 0 ELSE batch[d]]
  /\ coverage' \in CoverageFrom(calendar')
  /\ status' = [status EXCEPT ![i] = "reverted"]
  /\ UNCHANGED <<importVars, idem, audit, due, previewVars, uploads, committer>>

----------------------------------------------------------------------------
(* Time, and the API process                                               *)

\* expires_at, 24 hours after the upload, passes.
TimePasses(i) ==
  /\ i \in Expiring
  /\ status[i] = "preview_ready" /\ i \notin due
  /\ due' = due \cup {i}
  /\ UNCHANGED <<status, importVars, previewVars, ledgerVars, uploads, committer>>

\* The API process dies and starts again: transactions in flight are rolled
\* back and lifespan() runs the janitor with a COMMIT of its own; a janitor
\* that fails (it sweeps nothing) does not stop the start.
Restart ==
  \E swept \in {Overdue, {}} :
    /\ uploads' = [u \in Uploaders |-> Idle]
    /\ committer' = Free
    /\ status' = [i \in Ids |-> IF i \in swept THEN "expired" ELSE status[i]]
    /\ staging' = Swept(staging, swept)
    /\ names' = Swept(names, swept)
    /\ UNCHANGED <<importVars, due, ledgerVars>>

UploadStep(u) ==
  JanitorDeletes(u) \/ JanitorUpdates(u) \/ FindLive(u) \/ CreateImport(u) \/ PublishPreview(u)

\* What a client may send with a commit.
CommitRequest ==
  \E i \in Ids, key \in IdemKeys \cup {NoKey} :
    \/ CommitFindsExpired(i, key)
    \/ \E sheets \in SUBSET Sheets, confirm, ack \in BOOLEAN :
         CommitCheck(i, sheets, key, confirm, ack)

CommitReads == CommitGuard \/ CommitLocks

\* A refusal that keeps the advisory lock.
WrongCommitStep == CommitReads \/ CommitMarksExpired \/ CommitApply
CommitStep == CommitReads \/ CommitMarksExpired \/ CommitApply \/ CommitRefused

Next ==
  \/ \E u \in Uploaders, f \in Files : JanitorSelect(u, f)
  \/ \E u \in Uploaders : UploadStep(u) \/ UploadFails(u)
  \/ CommitRequest
  \/ CommitStep \/ CommitFails
  \/ \E i \in Ids : Discard(i) \/ Revert(i) \/ TimePasses(i)
  \/ Restart

Spec == Init /\ [][Next]_vars

\* Transactions that wait for each other: the next step of upload u waits for
\* upload v, for the commit in flight, or that commit for v.
UploadWaits(u, v) ==
  LET up == uploads[u] IN
  /\ u # v
  /\ \/ /\ up.pc = "janitor" /\ up.at = 0
        /\ \A i \in up.doomed \ up.done : ~StagingFree(i)
        /\ \E i \in up.doomed \ up.done : i \in DeletedBy(v)
     \/ up.pc = "janitor" /\ up.at \in UpdatedBy(v)
     \/ up.pc = "parsing" /\ UpdatedBy(v) \cap LiveImports(up.file, up.doomed) # {}
UploadWaitsForCommit(u) ==
  uploads[u].pc = "janitor" /\ committer.op = "apply" /\ uploads[u].at = committer.id
CommitWaits(v) ==
  \/ committer.op \in {"lock", "expire"} /\ committer.id \in UpdatedBy(v)
  \/ committer.op = "apply" /\ committer.id \in staging \cap DeletedBy(v)

\* The uploads S, with the commit in flight or without it, all wait for each
\* other, and nobody among them only waits for the rest.
Deadlock(S, withCommit) ==
  /\ S # {}
  /\ \A u \in S :
       /\ (\E v \in S : UploadWaits(u, v)) \/ (withCommit /\ UploadWaitsForCommit(u))
       /\ (\E v \in S : UploadWaits(v, u)) \/ (withCommit /\ CommitWaits(u))
  /\ withCommit => \E u, v \in S : CommitWaits(v) /\ UploadWaitsForCommit(u)

\* PostgreSQL rolls back one of them.
DeadlockVictim ==
  \E S \in SUBSET Uploaders, withCommit \in BOOLEAN :
    /\ Deadlock(S, withCommit)
    /\ (\E u \in S : UploadFails(u)) \/ (withCommit /\ CommitFails)

\* Every request takes its steps.  Strong fairness, because PostgreSQL grants
\* row locks in the order they were asked for: a waiter is not overtaken for
\* ever.  Its deadlock detector finds every cycle.  Nothing is assumed of
\* clients, time or other failures.
RequestFairness ==
  /\ SF_vars(CommitStep) /\ \A u \in Uploaders : SF_vars(UploadStep(u))
  /\ WF_vars(DeadlockVictim)

FairSpec == Spec /\ RequestFairness

----------------------------------------------------------------------------
(* Properties                                                              *)

DaySets == SUBSET Days
UploadRecord == [pc : Phases, file : Files \cup {NoFile}, doomed : SUBSET Ids,
                 done : SUBSET Ids, at : Ids \cup {0}, id : Ids \cup {0}, base : Ids \cup {0}]
CommitRecord == [op : {"none", "guard", "lock", "apply", "expire"}, id : Ids \cup {0},
                 sheets : SUBSET Sheets, key : IdemKeys \cup {NoKey}, confirm : BOOLEAN]
AuditRecord == [batch : Ids, day : Days, old : Codes \cup {NoRow}, new : Codes]

\* The tables and the requests in flight hold values of their types.
TypeOK ==
  /\ status \in [Ids -> Statuses]
  /\ sha \in [Ids -> Files \cup {NoFile}]
  /\ base \in [Ids -> Ids \cup {0}]
  /\ idem \in [Ids -> IdemKeys \cup {NoKey}]
  /\ shown \in [Ids -> [added : DaySets, changing : DaySets]]
  /\ due \subseteq Ids /\ names \subseteq Ids /\ staging \subseteq Ids /\ lapsed \subseteq Ids
  /\ nextId \in 1 .. MaxImports + 1
  /\ calendar \in [Days -> Codes \cup {NoRow}]
  /\ batch \in [Days -> Ids \cup {0}]
  /\ audit \subseteq AuditRecord
  /\ coverage \in Dates \cup {0}
  /\ uploads \in [Uploaders -> UploadRecord]
  /\ committer \in CommitRecord

\* leave_coverage.through_date is exactly the latest stored calendar day, and
\* there is no coverage row without a stored day: per-sheet commits, reverts
\* and commits of emptied previews never leave it ahead or behind (the comment
\* in revert_import calls the calendar max "the honest signal").
CoverageExact == coverage \in TopOf(DatesIn(StoredDays(calendar)))

\* Committed imports form a chain in id order: each was committed on top of
\* every smaller committed id, so that MAX(id), which revert_import and
\* base_version go by, really is the import that was committed last.
CommittedChain == \A i, j \in Committed : i < j => i <= base[j]

\* However uploads, discards, re-uploads and commits interleave, at most one
\* live import exists per file.
OneLivePerFile ==
  \A i, j \in Ids :
    /\ status[i] \in LiveStatuses /\ status[j] \in LiveStatuses
    /\ sha[i] = sha[j]
    => i = j

\* Person names and staged rows appear with an open preview only, and a step
\* after which they are left with anything else found them there: they go with
\* the commit, the discard and the janitor's expiry of their import.  The one
\* step that leaves them behind is the expiry by the commit handler, which
\* purges nothing (routers/leave_import.py:344, against its lines 7-8).
PreviewDataConfined ==
  [][ \A i \in staging' \cup names' :
        \/ status'[i] = "preview_ready"
        \/ /\ i \in staging \cup names /\ status'[i] = "expired"
           /\ status[i] = "expired" \/ (committer.op = "expire" /\ committer.id = i) ]_vars

\* An idempotency key never commits two imports, reverted ones included.
KeyCommitsOnce == \A i, j \in Ids : idem[i] # NoKey /\ idem[i] = idem[j] => i = j

\* What is sent twice counts once: a file in two uploads at a time, a commit in
\* retries with its key.
OnceOnly == OneLivePerFile /\ KeyCommitsOnce

\* The batch_id of a stored day names an import that audited that very day
\* (identical rows are left untouched by the upsert), also after reverts.
BatchAuditedDay ==
  \A d \in StoredDays(calendar) : \E a \in audit : a.batch = batch[d] /\ a.day = d

\* A commit that overwrites more than 5% of the stored days it touches was
\* confirmed by the client: the guard is read before the row lock is waited
\* for, yet what it counted is what the commit finds, because reverts and other
\* commits are kept out meanwhile, and a janitor or a discard takes all the
\* staged rows or none.
LargeChangeConfirmed ==
  [][ \A i \in Ids :
        /\ status[i] # "committed" /\ status'[i] = "committed"
        /\ LET stored == StagedRows(i, committer.sheets) \cap StoredDays(calendar) IN
           LargeShare({d \in stored : calendar'[d] # calendar[d]}, stored)
        => committer.confirm ]_vars

\* What committed imports recorded of day d.
StandingAudit(d) == {a \in audit : a.day = d /\ a.batch \in Committed}

\* Days written by an import that was committed and then expired by a janitor
\* that had selected it before: its codes stay, and no revert is about them.
LapsedDays == {a.day : a \in {b \in audit : b.batch \in lapsed}}

\* A stored code is the one the last committed import to audit the day gave it,
\* and a day no committed import audited is not stored: a reverted import's
\* codes never come back.
StoredByStandingImport ==
  \A d \in Days \ LapsedDays :
    IF calendar[d] = NoRow THEN StandingAudit(d) = {}
    ELSE \E a \in StandingAudit(d) : /\ a.new = calendar[d]
                                     /\ \A b \in StandingAudit(d) : b.batch <= a.batch

\* Reverting the latest commit restores every day it changed: revert_import
\* never has to skip one.
RevertSkipsNothing ==
  \A i \in Committed : i \in TopOf(Committed) =>
    \A a \in audit : a.batch = i /\ a.day \notin LapsedDays => calendar[a.day] = a.new

\* The table is what the standing imports made it, so that reverts undo exactly
\* what their import did: on every day no lapsed import wrote, whatever the
\* janitor does to other days.
RevertsExact == StoredByStandingImport /\ RevertSkipsNothing

\* A committed import stays committed until it is reverted, unless its 24 hours
\* ran out while its commit was under way (then a janitor that had selected it
\* expires it, see CommittedUntilReverted).
CommitsInTimeStand ==
  [][ \A i \in Ids :
        status[i] = "committed" =>
          \/ status'[i] \in {"committed", "reverted"}
          \/ status'[i] = "expired" /\ i \in due ]_vars

\* Every upload in flight comes to an end: no set of uploads and commits waits
\* for each other's rows and index entries for ever.
UploadsEnd == \A u \in Uploaders : uploads[u].pc # "idle" ~> uploads[u].pc = "idle"

\* The advisory lock is always given back.
CommitsEnd == committer # Free ~> committer = Free

\* Uploads and commits end, whatever rows, index entries and locks they wait for.
LeaveRequestsEnd == UploadsEnd /\ CommitsEnd

----------------------------------------------------------------------------
(* Properties the repository states and this code does not have             *)

\* Only an open preview is ever committed (leave_import.py:339-342, and the
\* test test_discard_then_commit_refused).
CommitsOpenPreviewsOnly ==
  [][ \A i \in Ids : status[i] # "committed" /\ status'[i] = "committed"
                       => status[i] = "preview_ready" ]_vars

\* The janitor expires preview_ready rows only (janitor.py:6), so that a
\* committed import stays committed until it is reverted.
CommittedUntilReverted ==
  [][ \A i \in Ids : status[i] = "committed" => status'[i] \in {"committed", "reverted"} ]_vars
=============================================================================
