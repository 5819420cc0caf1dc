------------------------- MODULE LeaveImportProofs -------------------------
(***************************************************************************)
(* Theorems about LeaveImport and LeaveCalendar, for every set of files,    *)
(* days, uploads, keys, code maps and reprocesses, and every bound.         *)
(***************************************************************************)
EXTENDS LeaveImportLedger, LeaveCalendar, FiniteSetTheorems, WellFoundedInduction, TLAPS

\* An upload in flight has a file and, once it has inserted its row, a real id;
\* its janitor works through the existing imports it has selected, one at a
\* time, and is through with all of them before the file is parsed.
UploadOK(up) ==
  /\ \A i \in up.doomed : status[i] # "none"
  /\ up.done \subseteq up.doomed /\ up.at \in up.doomed \cup {0}
  /\ up.pc # "idle" => up.file \in Files
  /\ up.pc \in {"parsing", "created"} => up.done = up.doomed
  /\ up.pc = "created" => up.id \in Ids

\* The rows every reference leads to exist: staged rows and visible imports
\* have a workbook, and requests in flight are about imports that exist.
RefsOK ==
  /\ \A i \in Ids : status[i] # "none" => sha[i] \in Files
  /\ \A i \in staging : status[i] # "none"
  /\ \A u \in Uploaders : UploadOK(uploads[u])
  /\ committer.op # "none" => committer.id \in Ids /\ status[committer.id] # "none"

TypeInv == TypeOK /\ RefsOK

USE DEF Ids, Days, Phases, Statuses, DaySets, UploadRecord, CommitRecord, AuditRecord

LEMMA TopOfType == ASSUME NEW S, NEW T, S \subseteq T PROVE TopOf(S) \subseteq T \cup {0}
  BY DEF TopOf

LEMMA RowsType ==
  ASSUME NEW f \in Files, NEW sheets
  PROVE  /\ RowsOf(f, sheets) \subseteq Days
         /\ \A d \in RowsOf(f, sheets) : Raw(f, d) \in Codes
  BY WorkbookAssumption DEF RowsOf, Raw

LEMMA DatesType == ASSUME NEW D, D \subseteq Days PROVE DatesIn(D) \subseteq Dates
  BY DEF DatesIn

LEMMA TypeInit == Init => TypeInv
  BY BoundAssumption DEF Init, TypeInv, TypeOK, RefsOK, UploadOK, Idle, Free, NothingShown

\* Steps that change nothing but one upload.
LEMMA UploadAlone ==
  ASSUME TypeInv, NEW u \in Uploaders, NEW r \in UploadRecord, UploadOK(r),
         uploads' = [uploads EXCEPT ![u] = r],
         UNCHANGED <<status, importVars, due, previewVars, ledgerVars, committer>>
  PROVE  TypeInv'
<1>1. \A v \in Uploaders : uploads'[v] = IF v = u THEN r ELSE uploads[v]
  BY DEF TypeInv, TypeOK
<1>2. uploads' \in [Uploaders -> UploadRecord]
  BY DEF TypeInv, TypeOK
<1>3. \A up : UploadOK(up)' = UploadOK(up)
  BY DEF UploadOK
<1>4. \A v \in Uploaders : UploadOK(uploads'[v])
  BY <1>1 DEF TypeInv, RefsOK
<1>5. \A v \in Uploaders : UploadOK(uploads[v])'
  BY <1>3, <1>4 DEF UploadOK
<1> QED BY <1>2, <1>5 DEF TypeInv, TypeOK, RefsOK, importVars, previewVars, ledgerVars

LEMMA IdleOK == TypeInv => Idle \in UploadRecord /\ UploadOK(Idle)
  BY DEF Idle, UploadOK

LEMMA UploadsOK == ASSUME TypeInv, NEW u \in Uploaders
                   PROVE  uploads[u] \in UploadRecord /\ UploadOK(uploads[u])
  BY DEF TypeInv, TypeOK, RefsOK

LEMMA JanitorSelectType ==
  ASSUME TypeInv, NEW u \in Uploaders, NEW f \in Files, JanitorSelect(u, f)
  PROVE  TypeInv'
<1> DEFINE r == [Idle EXCEPT !.pc = "janitor", !.file = f, !.doomed = Overdue]
<1>1. r \in UploadRecord /\ UploadOK(r)
  BY DEF Idle, UploadOK, Overdue, TypeInv, TypeOK
<1> QED BY <1>1, UploadAlone DEF JanitorSelect

JanitorStep(u) == JanitorDeletes(u) \/ JanitorUpdates(u) \/ FindLive(u)

\* What the janitor of an upload in flight, and the upload itself before it
\* inserts its row, may turn into.
LEMMA JanitorSteps ==
  ASSUME TypeInv, NEW u \in Uploaders, JanitorStep(u)
  PROVE  \E r \in UploadRecord :
           /\ UploadOK(r) /\ r.pc # "created" /\ uploads' = [uploads EXCEPT ![u] = r]
           /\ r.doomed \subseteq uploads[u].doomed
           /\ UNCHANGED <<status, importVars, due, previewVars, ledgerVars, committer>>
<1> DEFINE up == uploads[u]
<1>0. up \in UploadRecord /\ UploadOK(up)
  BY UploadsOK
<1>1. CASE JanitorDeletes(u)
  <2>1. PICK i \in up.doomed \ up.done : uploads' = [uploads EXCEPT ![u] = [up EXCEPT !.at = i]]
    BY <1>1 DEF JanitorDeletes
  <2>2. [up EXCEPT !.at = i] \in UploadRecord /\ UploadOK([up EXCEPT !.at = i])
    BY <1>0, <1>1 DEF JanitorDeletes, UploadOK
  <2> QED BY <1>0, <1>1, <2>1, <2>2 DEF JanitorDeletes
<1>2. CASE JanitorUpdates(u)
  <2> DEFINE r == [up EXCEPT !.at = 0, !.done = up.done \cup {up.at}]
  <2>1. r \in UploadRecord /\ UploadOK(r) /\ r.pc = "janitor" /\ r.doomed = up.doomed
    BY <1>0, <1>2 DEF JanitorUpdates, UploadOK
  <2> QED BY <1>2, <2>1 DEF JanitorUpdates
<1>3. CASE FindLive(u)
  <2>1. [up EXCEPT !.pc = "parsing"] \in UploadRecord /\ UploadOK([up EXCEPT !.pc = "parsing"])
    BY <1>0, <1>3 DEF FindLive, UploadOK
  <2>2. Idle.pc # "created" /\ Idle.doomed = {}
    BY DEF Idle
  <2> QED BY <1>0, <1>3, <2>1, <2>2, IdleOK DEF FindLive
<1> QED BY <1>1, <1>2, <1>3 DEF JanitorStep

LEMMA JanitorStepsType ==
  ASSUME TypeInv, NEW u \in Uploaders, JanitorStep(u)
  PROVE  TypeInv'
  BY JanitorSteps, UploadAlone

\* What the insertion of its row makes of an upload.
LEMMA CreateImportStep ==
  ASSUME TypeInv, NEW u \in Uploaders, CreateImport(u)
  PROVE  /\ nextId \in Ids /\ nextId' = nextId + 1
         /\ \/ uploads' = [uploads EXCEPT ![u] = Idle]
            \/ \E r \in UploadRecord :
                 /\ UploadOK(r) /\ r.pc = "created" /\ r.id = nextId
                 /\ r.base \in TopOf(Committed \ uploads[u].doomed)
                 /\ r.file = uploads[u].file /\ r.doomed = uploads[u].doomed
                 /\ LiveImports(r.file, r.doomed) = {}
                 /\ \A v \in Uploaders \ {u} : uploads[v].pc = "created" => uploads[v].file # r.file
                 /\ uploads' = [uploads EXCEPT ![u] = r]
         /\ UNCHANGED <<status, sha, base, shown, lapsed, due, previewVars, ledgerVars, committer>>
<1> DEFINE up == uploads[u]
<1>0. up \in UploadRecord /\ UploadOK(up)
  BY UploadsOK
<1>1. nextId \in Ids /\ nextId' = nextId + 1
      /\ UNCHANGED <<status, sha, base, shown, lapsed, due, previewVars, ledgerVars, committer>>
  BY DEF CreateImport
<1>2. CASE uploads' = [uploads EXCEPT ![u] = Idle]
  BY <1>1, <1>2
<1>3. CASE \E b \in TopOf(Committed \ up.doomed) :
             uploads' = [uploads EXCEPT ![u] = [up EXCEPT !.pc = "created", !.id = nextId, !.base = b]]
           /\ LiveImports(up.file, up.doomed) = {}
  <2>1. PICK b \in TopOf(Committed \ up.doomed) :
             uploads' = [uploads EXCEPT ![u] = [up EXCEPT !.pc = "created", !.id = nextId, !.base = b]]
    BY <1>3
  <2> DEFINE r == [up EXCEPT !.pc = "created", !.id = nextId, !.base = b]
  <2>2. b \in Ids \cup {0}
    BY TopOfType DEF Committed
  <2>3. r \in UploadRecord /\ r.pc = "created" /\ r.id = nextId /\ r.base = b
        /\ r.file = up.file /\ r.doomed = up.doomed /\ r.done = up.done /\ r.at = up.at
    BY <1>0, <1>1, <2>2
  <2>4. up.pc = "parsing"
        /\ \A v \in Uploaders \ {u} : uploads[v].pc = "created" => uploads[v].file # up.file
    BY DEF CreateImport
  <2>5. uploads' = [uploads EXCEPT ![u] = r] /\ b \in TopOf(Committed \ r.doomed)
    BY <2>1, <2>3
  <2> HIDE DEF r
  <2>6. UploadOK(r)
    BY <1>0, <1>1, <2>3, <2>4 DEF UploadOK
  <2>7. LiveImports(r.file, r.doomed) = {} /\ r.base \in TopOf(Committed \ up.doomed)
        /\ \A v \in Uploaders \ {u} : uploads[v].pc = "created" => uploads[v].file # r.file
    BY <1>3, <2>3, <2>4, <2>5
  <2> QED BY <1>1, <2>3, <2>5, <2>6, <2>7, Zenon
<1> QED BY <1>1, <1>2, <1>3 DEF CreateImport

LEMMA CreateImportType ==
  ASSUME TypeInv, NEW u \in Uploaders, CreateImport(u)
  PROVE  TypeInv'
<1>1. nextId' \in 1 .. MaxImports + 1
  <2>1. nextId \in Ids /\ nextId' = nextId + 1
    BY DEF CreateImport
  <2> QED BY <2>1, BoundAssumption
<1>2. PICK r \in UploadRecord : UploadOK(r) /\ uploads' = [uploads EXCEPT ![u] = r]
  BY CreateImportStep, IdleOK
<1>3. \A v \in Uploaders : uploads'[v] = IF v = u THEN r ELSE uploads[v]
  BY <1>2 DEF TypeInv, TypeOK
<1>4. UNCHANGED <<status, sha, base, shown, lapsed, due, previewVars, ledgerVars, committer>>
  BY CreateImportStep
<1>5. \A v \in Uploaders : UploadOK(uploads[v])'
  BY <1>2, <1>3, <1>4 DEF TypeInv, RefsOK, UploadOK
<1>6. uploads' \in [Uploaders -> UploadRecord]
  BY <1>2 DEF TypeInv, TypeOK
<1> QED BY <1>1, <1>4, <1>5, <1>6 DEF TypeInv, TypeOK, RefsOK, previewVars, ledgerVars

LEMMA PublishPreviewType ==
  ASSUME TypeInv, NEW u \in Uploaders, PublishPreview(u)
  PROVE  TypeInv'
<1> DEFINE up == uploads[u]
<1>1. /\ up.file \in Files /\ up.id \in Ids /\ up.doomed \subseteq Ids /\ up.base \in Ids \cup {0}
      /\ up.done = up.doomed /\ \A i \in up.doomed : status[i] # "none"
  BY UploadsOK DEF PublishPreview, UploadOK
<1>2. DiffOf(up.file) \in [added : DaySets, changing : DaySets]
  <2>1. DOMAIN Workbook[up.file] \subseteq Days
    BY <1>1, WorkbookAssumption
  <2>2. Distinct(up.file, DOMAIN Workbook[up.file]) \subseteq Days
    BY <2>1 DEF Distinct
  <2> QED BY <2>2 DEF DiffOf
<1>3. uploads' = [uploads EXCEPT ![u] = Idle]
      /\ UNCHANGED <<nextId, due, ledgerVars, committer>>
      /\ status' = [i \in Ids |-> IF i = up.id THEN "preview_ready"
                                  ELSE IF i \in up.done THEN "expired" ELSE status[i]]
      /\ sha' = [sha EXCEPT ![up.id] = up.file]
      /\ staging' \subseteq staging \cup {up.id} /\ names' \subseteq names \cup {up.id}
      /\ lapsed' = lapsed \cup (up.done \cap Committed)
  BY DEF PublishPreview, Swept
<1>4. /\ status' \in [Ids -> Statuses]
      /\ sha' \in [Ids -> Files \cup {NoFile}]
      /\ base' \in [Ids -> Ids \cup {0}]
      /\ shown' \in [Ids -> [added : DaySets, changing : DaySets]]
  BY <1>1, <1>2 DEF PublishPreview, TypeInv, TypeOK
<1>5. uploads' \in [Uploaders -> UploadRecord]
  BY <1>3, IdleOK DEF TypeInv, TypeOK
<1>6. TypeOK'
  BY <1>1, <1>3, <1>4, <1>5 DEF TypeInv, TypeOK, ledgerVars, Committed
<1> HIDE DEF up
<1>7. \A i \in Ids : status[i] # "none" => status'[i] # "none"
  BY <1>3
<1>8. \A i \in Ids : status'[i] # "none" => sha'[i] \in Files
  <2> SUFFICES ASSUME NEW i \in Ids, status'[i] # "none" PROVE sha'[i] \in Files
    OBVIOUS
  <2>1. CASE i = up.id
    BY <1>1, <1>3, <2>1 DEF TypeInv, TypeOK
  <2>2. CASE i # up.id
    <3>1. status[i] # "none" /\ sha'[i] = sha[i]
      BY <1>1, <1>3, <2>2 DEF TypeInv, TypeOK
    <3> QED BY <3>1 DEF TypeInv, RefsOK
  <2> QED BY <2>1, <2>2
<1>9. \A i \in staging' : status'[i] # "none"
  <2>1. \A i \in staging : i \in Ids /\ status[i] # "none"
    BY DEF TypeInv, TypeOK, RefsOK
  <2>2. status'[up.id] # "none"
    BY <1>1, <1>3
  <2> QED BY <1>3, <1>7, <2>1, <2>2
<1>10. \A v \in Uploaders : UploadOK(uploads[v])'
  <2> SUFFICES ASSUME NEW v \in Uploaders PROVE UploadOK(uploads[v])'
    OBVIOUS
  <2>1. uploads'[v] \in {uploads[v], Idle}
    BY <1>3 DEF TypeInv, TypeOK
  <2>2. UploadOK(uploads'[v]) /\ uploads'[v] \in UploadRecord
    BY <2>1, UploadsOK, IdleOK
  <2> QED BY <1>7, <2>2 DEF UploadOK
<1>11. committer.op # "none" => committer.id \in Ids /\ status'[committer.id] # "none"
  BY <1>7 DEF TypeInv, RefsOK
<1> QED BY <1>3, <1>6, <1>8, <1>9, <1>10, <1>11 DEF TypeInv, RefsOK

LEMMA UploadFailsType ==
  ASSUME TypeInv, NEW u \in Uploaders, UploadFails(u)
  PROVE  TypeInv'
  BY UploadAlone, IdleOK DEF UploadFails

\* Steps that leave the uploads alone and take no import away.
LEMMA UploadsKept ==
  ASSUME TypeInv, uploads' = uploads, \A i \in Ids : status[i] # "none" => status'[i] # "none"
  PROVE  \A u \in Uploaders : UploadOK(uploads[u])'
<1> SUFFICES ASSUME NEW u \in Uploaders PROVE UploadOK(uploads[u])'
  OBVIOUS
<1>1. uploads'[u] = uploads[u] /\ uploads[u] \in UploadRecord /\ UploadOK(uploads[u])
  BY UploadsOK
<1> QED BY <1>1 DEF UploadOK

\* The steps of a commit that write nothing.
LEMMA CommitOnlyReads ==
  ASSUME CommitRequest \/ CommitReads \/ CommitRefused \/ CommitFails
  PROVE  UNCHANGED <<status, importVars, due, previewVars, ledgerVars, uploads>>
<1>1. CASE CommitRequest
  BY <1>1 DEF CommitRequest, CommitFindsExpired, CommitCheck
<1>2. CASE CommitReads
  BY <1>2 DEF CommitReads, CommitGuard, CommitLocks
<1>3. CASE CommitRefused \/ CommitFails
  BY <1>3 DEF CommitRefused, CommitFails
<1> QED BY <1>1, <1>2, <1>3

LEMMA CommitRequestType ==
  ASSUME TypeInv, CommitRequest
  PROVE  TypeInv'
<1>1. UNCHANGED <<status, importVars, due, previewVars, ledgerVars, uploads>>
  BY CommitOnlyReads
<1>2. PICK i \in Ids, key \in IdemKeys \cup {NoKey} :
        \/ CommitFindsExpired(i, key)
        \/ \E sheets \in SUBSET Sheets, confirm, ack \in BOOLEAN :
             CommitCheck(i, sheets, key, confirm, ack)
  BY DEF CommitRequest
<1>3. committer' \in CommitRecord /\ committer'.id = i /\ status[i] # "none"
  <2>1. CASE CommitFindsExpired(i, key)
    BY <2>1 DEF CommitFindsExpired, Free
  <2>2. CASE \E sheets \in SUBSET Sheets, confirm, ack \in BOOLEAN :
               CommitCheck(i, sheets, key, confirm, ack)
    BY <2>2 DEF CommitCheck
  <2>3. QED
    BY <1>2, <2>1, <2>2
<1>4. \A u \in Uploaders : UploadOK(uploads[u])'
  BY <1>1, UploadsKept
<1> QED BY <1>1, <1>3, <1>4 DEF TypeInv, TypeOK, RefsOK, importVars, previewVars, ledgerVars

LEMMA CommitMarksExpiredType ==
  ASSUME TypeInv, CommitMarksExpired
  PROVE  TypeInv'
<1>1. /\ status' = [status EXCEPT ![committer.id] = "expired"] /\ committer' = Free
      /\ UNCHANGED <<importVars, due, previewVars, ledgerVars, uploads>>
  BY DEF CommitMarksExpired
<1>2. /\ status' \in [Ids -> Statuses]
      /\ \A i \in Ids : status[i] # "none" <=> status'[i] # "none"
  <2>1. committer.id \in Ids /\ status[committer.id] # "none"
    BY DEF CommitMarksExpired, TypeInv, RefsOK
  <2>2. QED
    BY <1>1, <2>1 DEF TypeInv, TypeOK
<1>3. committer' \in CommitRecord /\ committer'.op = "none"
  BY <1>1 DEF Free
<1>4. \A u \in Uploaders : UploadOK(uploads[u])'
  BY <1>1, <1>2, UploadsKept
<1> QED BY <1>1, <1>2, <1>3, <1>4 DEF TypeInv, TypeOK, RefsOK, importVars, previewVars, ledgerVars

\* Steps of a commit that change nothing but its record.
LEMMA CommitReadsType ==
  ASSUME TypeInv, CommitReads
  PROVE  TypeInv'
<1>1. \E op \in {"lock", "apply"} : committer' = [committer EXCEPT !.op = op]
  BY DEF CommitReads, CommitGuard, CommitLocks
<1>2. /\ committer.op # "none"
      /\ UNCHANGED <<status, importVars, due, previewVars, ledgerVars, uploads>>
  BY DEF CommitReads, CommitGuard, CommitLocks
<1>3. committer' \in CommitRecord /\ committer'.id = committer.id
  BY <1>1 DEF TypeInv, TypeOK
<1>4. \A u \in Uploaders : UploadOK(uploads[u])'
  BY <1>2, UploadsKept
<1> QED BY <1>2, <1>3, <1>4 DEF TypeInv, TypeOK, RefsOK, importVars, previewVars, ledgerVars

LEMMA CommitEndsType ==
  ASSUME TypeInv, CommitRefused \/ CommitFails
  PROVE  TypeInv'
<1>1. committer' = Free /\ UNCHANGED <<status, importVars, due, previewVars, ledgerVars, uploads>>
  BY DEF CommitRefused, CommitFails
<1>2. \A u \in Uploaders : UploadOK(uploads[u])'
  BY <1>1, UploadsKept
<1> QED BY <1>1, <1>2 DEF TypeInv, TypeOK, RefsOK, Free, importVars, previewVars, ledgerVars

\* The rows a commit writes are days with codes.
LEMMA CommitRows ==
  ASSUME TypeInv, committer.op # "none"
  PROVE  LET rows == StagedRows(committer.id, committer.sheets) IN
         /\ rows \subseteq Days
         /\ \A d \in rows : Raw(sha[committer.id], d) \in Codes
<1>1. CASE committer.id \in staging
  <2>1. sha[committer.id] \in Files
    BY <1>1 DEF TypeInv, TypeOK, RefsOK
  <2>2. QED
    BY <1>1, <2>1, RowsType DEF StagedRows
<1>2. CASE committer.id \notin staging
  BY <1>2 DEF StagedRows
<1>3. QED
  BY <1>1, <1>2

LEMMA CommitApplyType ==
  ASSUME TypeInv, CommitApply
  PROVE  TypeInv'
<1> DEFINE i == committer.id
           rows == StagedRows(i, committer.sheets)
           changed == Distinct(sha[i], rows)
<1>1. /\ committer.op = "apply" /\ i \in Ids
      /\ rows \subseteq Days /\ \A d \in rows : Raw(sha[i], d) \in Codes
  BY CommitRows DEF CommitApply, TypeInv, RefsOK
<1>2. changed \subseteq rows /\ Upserted(sha[i], rows) \subseteq rows
  BY DEF Distinct, Upserted
<1> HIDE DEF changed, rows, i
<1>3. audit' \subseteq AuditRecord
  BY <1>1, <1>2 DEF CommitApply, TypeInv, TypeOK, rows, changed, i
<1>4. calendar' \in [Days -> Codes \cup {NoRow}] /\ batch' \in [Days -> Ids \cup {0}]
  BY <1>1, <1>2 DEF CommitApply, TypeInv, TypeOK, rows, i
<1>5. coverage' \in Dates \cup {0}
  <2>1. TopOf(DatesIn(rows)) \subseteq Dates \cup {0}
    BY <1>1, DatesType, TopOfType
  <2>2. PICK through \in TopOf(DatesIn(rows)) : coverage' \in {through, coverage}
    BY DEF CommitApply, rows, i
  <2>3. QED
    BY <2>1, <2>2 DEF TypeInv, TypeOK
<1>6. /\ status' = [status EXCEPT ![i] = "committed"]
      /\ idem' = IF committer.key = NoKey THEN idem ELSE [idem EXCEPT ![i] = committer.key]
      /\ staging' = staging \ {i} /\ names' = names \ {i}
      /\ committer' = Free
      /\ UNCHANGED <<importVars, due, uploads>>
  BY DEF CommitApply, Purge, i
<1>7. idem' \in [Ids -> IdemKeys \cup {NoKey}]
  BY <1>1, <1>6 DEF TypeInv, TypeOK
<1>8. RefsOK'
  <2>1. \A j \in Ids : status[j] # "none" <=> status'[j] # "none"
    BY <1>1, <1>6 DEF TypeInv, TypeOK, RefsOK, i
  <2>2. staging' \subseteq staging /\ committer'.op = "none" /\ uploads' = uploads /\ sha' = sha
    BY <1>6 DEF importVars, Free
  <2>3. \A u \in Uploaders : UploadOK(uploads[u])'
    BY <2>1, <2>2, UploadsKept
  <2> QED BY <2>1, <2>2, <2>3 DEF TypeInv, TypeOK, RefsOK
<1>9. TypeOK'
  BY <1>1, <1>3, <1>4, <1>5, <1>6, <1>7 DEF TypeInv, TypeOK, importVars, Free
<1>10. QED
  BY <1>8, <1>9 DEF TypeInv

LEMMA DiscardType ==
  ASSUME TypeInv, NEW i \in Ids, Discard(i)
  PROVE  TypeInv'
<1>1. /\ status' = [status EXCEPT ![i] = "discarded"] /\ status[i] # "none"
      /\ staging' \subseteq staging /\ names' \subseteq names
      /\ UNCHANGED <<importVars, due, ledgerVars, uploads, committer>>
  BY DEF Discard, Discardable, Purge
<1>2. \A j \in Ids : status[j] # "none" <=> status'[j] # "none"
  BY <1>1 DEF TypeInv, TypeOK
<1>3. \A u \in Uploaders : UploadOK(uploads[u])'
  BY <1>1, <1>2, UploadsKept
<1> QED BY <1>1, <1>2, <1>3 DEF TypeInv, TypeOK, RefsOK, importVars, ledgerVars

LEMMA RevertType ==
  ASSUME TypeInv, NEW i \in Ids, Revert(i)
  PROVE  TypeInv'
<1>1. calendar' \in [Days -> Codes \cup {NoRow}]
  <2> DEFINE undone(d) == CHOOSE a \in Restorable(i) : a.day = d
  <2>1. \A d \in Days : (\E a \in Restorable(i) : a.day = d) => undone(d) \in Restorable(i)
    OBVIOUS
  <2>2. \A a \in Restorable(i) : a.old \in Codes \cup {NoRow}
    BY DEF Restorable, TypeInv, TypeOK
  <2>3. calendar' = [d \in Days |-> IF \E a \in Restorable(i) : a.day = d
                                    THEN undone(d).old ELSE calendar[d]]
    BY DEF Revert
  <2> HIDE DEF undone
  <2>4. QED
    BY <2>1, <2>2, <2>3 DEF TypeInv, TypeOK
<1>2. batch' \in [Days -> Ids \cup {0}]
  BY DEF Revert, TypeInv, TypeOK
<1>3. coverage' \in Dates \cup {0}
  BY DatesType, TopOfType DEF Revert, CoverageFrom, StoredDays
<1>4. /\ status' = [status EXCEPT ![i] = "reverted"] /\ status[i] # "none"
      /\ UNCHANGED <<importVars, idem, audit, due, previewVars, uploads, committer>>
  BY DEF Revert
<1>5. \A j \in Ids : status[j] # "none" <=> status'[j] # "none"
  BY <1>4 DEF TypeInv, TypeOK
<1>6. \A u \in Uploaders : UploadOK(uploads[u])'
  BY <1>4, <1>5, UploadsKept
<1> QED BY <1>1, <1>2, <1>3, <1>4, <1>5, <1>6 DEF TypeInv, TypeOK, RefsOK, importVars, previewVars

LEMMA ClockType ==
  ASSUME TypeInv, Restart \/ \E i \in Ids : TimePasses(i)
  PROVE  TypeInv'
<1>1. CASE Restart
  <2>1. PICK swept \in {Overdue, {}} :
          /\ uploads' = [u \in Uploaders |-> Idle]
          /\ committer' = Free
          /\ status' = [i \in Ids |-> IF i \in swept THEN "expired" ELSE status[i]]
          /\ staging' = Swept(staging, swept)
          /\ names' = Swept(names, swept)
          /\ UNCHANGED <<importVars, due, ledgerVars>>
    BY <1>1, Zenon DEF Restart
  <2>2. \A i \in Ids : status[i] # "none" <=> status'[i] # "none"
    BY <2>1 DEF Overdue
  <2>3. \A u \in Uploaders : UploadOK(uploads[u])'
    BY <2>1 DEF Idle, UploadOK
  <2>4. staging' \subseteq staging /\ names' \subseteq names
    BY <2>1 DEF Swept
  <2>5. uploads' \in [Uploaders -> UploadRecord] /\ status' \in [Ids -> Statuses]
    BY <2>1, IdleOK DEF TypeInv, TypeOK
  <2> QED BY <2>1, <2>2, <2>3, <2>4, <2>5 DEF TypeInv, TypeOK, RefsOK, Free, importVars, ledgerVars
<1>2. CASE \E i \in Ids : TimePasses(i)
  <2>1. \A u \in Uploaders : UploadOK(uploads[u])'
    BY <1>2, UploadsKept DEF TimePasses
  <2> QED BY <1>2, <2>1 DEF TypeInv, TypeOK, RefsOK, TimePasses, importVars, previewVars, ledgerVars
<1>3. QED
  BY <1>1, <1>2

LEMMA StutterType ==
  ASSUME TypeInv, UNCHANGED vars
  PROVE  TypeInv'
<1>1. \A u \in Uploaders : UploadOK(uploads[u])'
  BY UploadsKept DEF vars
<1> QED BY <1>1 DEF TypeInv, TypeOK, RefsOK, vars, importVars, previewVars, ledgerVars

LEMMA NextType == TypeInv /\ [Next]_vars => TypeInv'
  BY JanitorSelectType, JanitorStepsType, CreateImportType, PublishPreviewType, UploadFailsType,
     CommitRequestType, CommitReadsType, CommitMarksExpiredType, CommitEndsType, CommitApplyType,
     DiscardType, RevertType, ClockType, StutterType
     DEF Next, UploadStep, JanitorStep, CommitStep

LEMMA TypeInvariance == Spec => []TypeInv
  BY TypeInit, NextType, PTL DEF Spec

\* The tables and the requests in flight always hold values of their types, and
\* staged rows, janitors and commits in flight are about imports that exist and
\* whose workbook is known.
THEOREM TypeCorrect == Spec => [](TypeOK /\ RefsOK)
  BY TypeInvariance DEF TypeInv

----------------------------------------------------------------------------
(* Coverage                                                                *)

LEMMA TopOfUnion ==
  ASSUME NEW S, NEW R, S \subseteq Nat, R \subseteq Nat,
         NEW m \in TopOf(S), NEW t \in TopOf(R)
  PROVE  (IF t > m THEN t ELSE m) \in TopOf(S \cup R)
  BY DEF TopOf

LEMMA CommitApplyCoverage ==
  ASSUME TypeInv, CoverageExact, CommitApply
  PROVE  CoverageExact'
<1> DEFINE i == committer.id
           rows == StagedRows(i, committer.sheets)
<1>1. rows \subseteq Days /\ \A d \in rows : Raw(sha[i], d) \in Codes
  BY CommitRows DEF CommitApply
<1> HIDE DEF rows, i
<1>2. calendar' = [d \in Days |-> IF d \in Upserted(sha[i], rows) THEN Raw(sha[i], d)
                                  ELSE calendar[d]]
  BY DEF CommitApply, rows, i
<1>3. StoredDays(calendar') = StoredDays(calendar) \cup rows
  BY <1>1, <1>2, MarkerAssumption DEF StoredDays, Upserted, Distinct
<1>4. DatesIn(StoredDays(calendar')) = DatesIn(StoredDays(calendar)) \cup DatesIn(rows)
  BY <1>3 DEF DatesIn
<1>5. DatesIn(StoredDays(calendar)) \subseteq Nat /\ DatesIn(rows) \subseteq Nat
  BY <1>1, DatesType, DatesAssumption DEF StoredDays
<1>6. PICK through \in TopOf(DatesIn(rows)) :
        coverage' = IF through > coverage THEN through ELSE coverage
  BY DEF CommitApply, rows, i
<1>7. QED
  BY <1>4, <1>5, <1>6, TopOfUnion DEF CoverageExact

LEMMA RevertCoverage ==
  ASSUME NEW i \in Ids, Revert(i)
  PROVE  CoverageExact'
  BY DEF Revert, CoverageFrom, CoverageExact

\* Commits and reverts alone write the calendar and what goes with it.
LEMMA LedgerAlone ==
  ASSUME [Next]_vars
  PROVE  CommitApply \/ (\E i \in Ids : Revert(i)) \/ UNCHANGED ledgerVars
<1>1. ASSUME NEW u \in Uploaders, (\E f \in Files : JanitorSelect(u, f)) \/ UploadStep(u)
                                  \/ UploadFails(u)
      PROVE  UNCHANGED ledgerVars
  BY <1>1 DEF UploadStep, JanitorSelect, JanitorDeletes, JanitorUpdates, FindLive, CreateImport,
              PublishPreview, UploadFails
<1>2. CommitRequest \/ CommitReads \/ CommitMarksExpired \/ CommitRefused \/ CommitFails
        => UNCHANGED ledgerVars
  BY DEF CommitRequest, CommitFindsExpired, CommitCheck, CommitReads, CommitGuard, CommitLocks,
         CommitMarksExpired, CommitRefused, CommitFails
<1>3. ASSUME NEW i \in Ids, Discard(i) \/ TimePasses(i) PROVE UNCHANGED ledgerVars
  BY <1>3 DEF Discard, TimePasses
<1>4. Restart \/ UNCHANGED vars => UNCHANGED ledgerVars
  BY DEF Restart, vars, ledgerVars
<1> QED BY <1>1, <1>2, <1>3, <1>4 DEF Next, CommitStep

LEMMA NextCoverage == TypeInv /\ CoverageExact /\ [Next]_vars => CoverageExact'
<1> SUFFICES ASSUME TypeInv, CoverageExact, [Next]_vars
             PROVE  CoverageExact'
  OBVIOUS
<1>1. CASE CommitApply
  BY <1>1, CommitApplyCoverage
<1>2. CASE \E i \in Ids : Revert(i)
  BY <1>2, RevertCoverage
<1>3. CASE UNCHANGED ledgerVars
  BY <1>3 DEF CoverageExact, StoredDays, ledgerVars
<1>4. QED
  BY <1>1, <1>2, <1>3, LedgerAlone

\* leave_coverage.through_date always is the latest stored calendar day.
THEOREM CoverageIsExact == Spec => []CoverageExact
<1>1. Init => CoverageExact
  BY DEF Init, CoverageExact, StoredDays, DatesIn, TopOf
<1>2. QED
  BY <1>1, NextCoverage, TypeInvariance, PTL DEF Spec

----------------------------------------------------------------------------
(* Commit order                                                            *)

\* What the chain rests on: an import is younger than its base_version, an id
\* is handed out once, and while a commit request holds the advisory lock no
\* import above the base_version it checked becomes committed.
Committing == committer.op \in {"guard", "lock", "apply"}

ChainInv ==
  /\ CommittedChain
  /\ \A i \in Ids : status[i] # "none" => i < nextId /\ base[i] < i
  /\ \A u \in Uploaders : uploads[u].pc = "created" =>
       /\ uploads[u].id < nextId /\ uploads[u].base < uploads[u].id
       /\ status[uploads[u].id] = "none"
       /\ \A v \in Uploaders \ {u} : uploads[v].pc = "created" => uploads[v].id # uploads[u].id
  /\ Committing => \A i \in Committed : i <= base[committer.id]

\* Steps that commit nothing and publish no preview.
LEMMA ChainFrame ==
  ASSUME TypeInv, ChainInv, base' = base, nextId' = nextId, Committed' \subseteq Committed,
         \A i \in Ids : status[i] = "none" <=> status'[i] = "none",
         \A v \in Uploaders : uploads'[v] = uploads[v] \/ uploads'[v].pc # "created",
         Committing' => Committing /\ committer'.id = committer.id
  PROVE  ChainInv'
<1>1. CommittedChain'
  BY DEF ChainInv, CommittedChain
<1>2. \A i \in Ids : status'[i] # "none" => i < nextId' /\ base'[i] < i
  BY DEF ChainInv
<1>3. \A v \in Uploaders : uploads'[v].pc = "created" => uploads'[v] = uploads[v]
  OBVIOUS
<1>4. ASSUME NEW u \in Uploaders, uploads'[u].pc = "created"
      PROVE  /\ uploads'[u].id < nextId' /\ uploads'[u].base < uploads'[u].id
             /\ status'[uploads'[u].id] = "none"
             /\ \A v \in Uploaders \ {u} :
                  uploads'[v].pc = "created" => uploads'[v].id # uploads'[u].id
  BY <1>3, <1>4, UploadsOK DEF ChainInv, UploadOK
<1>5. Committing' => \A i \in Committed' : i <= base'[committer'.id]
  BY DEF ChainInv
<1>6. QED
  BY <1>1, <1>2, <1>4, <1>5 DEF ChainInv

\* Steps of an upload that inserts no row and publishes nothing.
LEMMA OtherUploadSteps ==
  ASSUME TypeInv, NEW u \in Uploaders,
         (\E f \in Files : JanitorSelect(u, f)) \/ JanitorStep(u) \/ UploadFails(u)
  PROVE  /\ \A v \in Uploaders : uploads'[v] = uploads[v] \/ uploads'[v].pc # "created"
         /\ UNCHANGED <<status, importVars, due, previewVars, ledgerVars, committer>>
<1>1. ASSUME NEW f \in Files, JanitorSelect(u, f)
      PROVE  \E r : uploads' = [uploads EXCEPT ![u] = r] /\ r.pc # "created"
  <2>1. [Idle EXCEPT !.pc = "janitor", !.file = f, !.doomed = Overdue].pc = "janitor"
    BY DEF Idle
  <2> QED BY <1>1, <2>1 DEF JanitorSelect
<1>2. JanitorStep(u) => \E r : uploads' = [uploads EXCEPT ![u] = r] /\ r.pc # "created"
  BY JanitorSteps
<1>3. UploadFails(u) => uploads' = [uploads EXCEPT ![u] = Idle] /\ Idle.pc # "created"
  BY DEF UploadFails, Idle
<1>4. \E r : uploads' = [uploads EXCEPT ![u] = r] /\ r.pc # "created"
  BY <1>1, <1>2, <1>3
<1>5. \A v \in Uploaders : uploads'[v] = uploads[v] \/ uploads'[v].pc # "created"
  BY <1>4 DEF TypeInv, TypeOK
<1> QED BY <1>5, JanitorSteps DEF JanitorSelect, UploadFails

LEMMA FrameSteps ==
  ASSUME TypeInv, ChainInv,
         \/ \E u \in Uploaders :
              (\E f \in Files : JanitorSelect(u, f)) \/ JanitorStep(u) \/ UploadFails(u)
         \/ \E i \in Ids, key \in IdemKeys \cup {NoKey} : CommitFindsExpired(i, key)
         \/ CommitReads \/ CommitMarksExpired \/ CommitRefused \/ CommitFails
         \/ \E i \in Ids : Discard(i) \/ Revert(i) \/ TimePasses(i)
         \/ Restart \/ UNCHANGED vars
  PROVE  ChainInv'
<1>1. ASSUME NEW u \in Uploaders,
             (\E f \in Files : JanitorSelect(u, f)) \/ JanitorStep(u) \/ UploadFails(u)
      PROVE  ChainInv'
  <2>1. UNCHANGED <<status, base, nextId, committer>>
    BY <1>1, OtherUploadSteps DEF importVars
  <2> QED BY <1>1, <2>1, OtherUploadSteps, ChainFrame DEF Committed, Committing
<1>2. ASSUME \/ \E i \in Ids, key \in IdemKeys \cup {NoKey} : CommitFindsExpired(i, key)
             \/ CommitReads \/ CommitRefused \/ CommitFails
      PROVE  ChainInv'
  <2>1. UNCHANGED <<status, base, nextId, uploads>>
        /\ (Committing' => Committing /\ committer'.id = committer.id)
    <3>1. CASE \E i \in Ids, key \in IdemKeys \cup {NoKey} : CommitFindsExpired(i, key)
      BY <3>1 DEF CommitFindsExpired, Free, Committing, importVars
    <3>2. CASE CommitRefused \/ CommitFails
      BY <3>2 DEF CommitRefused, CommitFails, Free, Committing, importVars
    <3>3. CASE CommitReads
      <4>1. committer.op \in {"guard", "lock"}
            /\ \E op \in {"lock", "apply"} : committer' = [committer EXCEPT !.op = op]
        BY <3>3 DEF CommitReads, CommitGuard, CommitLocks
      <4>2. committer'.id = committer.id
        BY <4>1 DEF TypeInv, TypeOK
      <4> QED BY <3>3, <4>1, <4>2 DEF CommitReads, CommitGuard, CommitLocks, Committing, importVars
    <3> QED BY <1>2, <3>1, <3>2, <3>3
  <2>2. QED
    BY <2>1, ChainFrame DEF Committed
<1>3. ASSUME CommitMarksExpired PROVE ChainInv'
  <2>1. UNCHANGED <<base, nextId, uploads>> /\ ~Committing'
    BY <1>3 DEF CommitMarksExpired, Free, Committing, importVars
  <2>2. /\ status' = [status EXCEPT ![committer.id] = "expired"]
        /\ committer.id \in Ids /\ status[committer.id] # "none"
    BY <1>3 DEF CommitMarksExpired, TypeInv, RefsOK
  <2>3. Committed' \subseteq Committed
        /\ \A i \in Ids : status[i] = "none" <=> status'[i] = "none"
    BY <2>2 DEF Committed, TypeInv, TypeOK
  <2>4. QED
    BY <2>1, <2>3, ChainFrame
<1>4. ASSUME NEW i \in Ids, Discard(i) \/ Revert(i) PROVE ChainInv'
  <2>1. UNCHANGED <<base, nextId, uploads, committer>>
    BY <1>4 DEF Discard, Revert, importVars
  <2>2. /\ status[i] # "none"
        /\ status' = [status EXCEPT ![i] = "discarded"] \/ status' = [status EXCEPT ![i] = "reverted"]
    BY <1>4 DEF Discard, Revert, Discardable
  <2>3. Committed' \subseteq Committed
        /\ \A j \in Ids : status[j] = "none" <=> status'[j] = "none"
    BY <2>2 DEF Committed, TypeInv, TypeOK
  <2>4. QED
    BY <2>1, <2>3, ChainFrame DEF Committing
<1>5. ASSUME Restart PROVE ChainInv'
  <2>1. UNCHANGED <<base, nextId>> /\ ~Committing'
        /\ \A v \in Uploaders : uploads'[v].pc # "created"
    BY <1>5 DEF Restart, Free, Idle, Committing, importVars
  <2>2. Committed' \subseteq Committed
        /\ \A i \in Ids : status[i] = "none" <=> status'[i] = "none"
    BY <1>5 DEF Restart, Overdue, Committed
  <2>3. QED
    BY <2>1, <2>2, ChainFrame
<1>6. ASSUME (\E i \in Ids : TimePasses(i)) \/ UNCHANGED vars PROVE ChainInv'
  <2>1. UNCHANGED <<status, base, nextId, uploads, committer>>
    BY <1>6 DEF TimePasses, vars, importVars
  <2>2. QED
    BY <2>1, ChainFrame DEF Committed, Committing
<1>7. QED
  BY <1>1, <1>2, <1>3, <1>4, <1>5, <1>6

LEMMA CreateImportChain ==
  ASSUME TypeInv, ChainInv, NEW u \in Uploaders, CreateImport(u)
  PROVE  ChainInv'
<1>1. /\ nextId \in Ids /\ nextId' = nextId + 1
      /\ UNCHANGED <<status, base, committer>>
  BY DEF CreateImport
<1>2. PICK r : /\ uploads' = [uploads EXCEPT ![u] = r]
               /\ r.pc = "created" => r.id = nextId /\ r.base \in TopOf(Committed \ uploads[u].doomed)
  <2>1. Idle.pc # "created"
    BY DEF Idle
  <2> QED BY <2>1, CreateImportStep, Zenon
<1>3. \A b \in TopOf(Committed \ uploads[u].doomed) : b \in Nat /\ b < nextId
  BY <1>1, BoundAssumption DEF TopOf, Committed, ChainInv
<1>4. r.pc = "created" => r.id = nextId /\ r.base \in Nat /\ r.base < nextId
  BY <1>2, <1>3
<1>5. \A v \in Uploaders : uploads'[v] = IF v = u THEN r ELSE uploads[v]
  BY <1>2 DEF TypeInv, TypeOK
<1>6. status[nextId] = "none"
  BY <1>1, BoundAssumption DEF ChainInv
<1>7. CommittedChain'
  BY <1>1 DEF ChainInv, CommittedChain, Committed
<1>8. \A i \in Ids : status'[i] # "none" => i < nextId' /\ base'[i] < i
  BY <1>1, BoundAssumption DEF ChainInv
<1>9. ASSUME NEW v \in Uploaders, uploads'[v].pc = "created"
      PROVE  /\ uploads'[v].id < nextId' /\ uploads'[v].base < uploads'[v].id
             /\ status'[uploads'[v].id] = "none"
             /\ \A w \in Uploaders \ {v} :
                  uploads'[w].pc = "created" => uploads'[w].id # uploads'[v].id
  <2>1. \A w \in Uploaders : uploads[w].pc = "created" => uploads[w].id \in Ids
                                                         /\ uploads[w].id < nextId
    BY UploadsOK DEF ChainInv, UploadOK
  <2>2. CASE v = u
    BY <1>1, <1>4, <1>5, <1>6, <1>9, <2>1, <2>2, BoundAssumption
  <2>3. CASE v # u
    BY <1>1, <1>4, <1>5, <1>9, <2>1, <2>3, BoundAssumption DEF ChainInv
  <2>4. QED
    BY <2>2, <2>3
<1>10. Committing' => \A i \in Committed' : i <= base'[committer'.id]
  BY <1>1 DEF ChainInv, Committed, Committing
<1>11. QED
  BY <1>7, <1>8, <1>9, <1>10 DEF ChainInv

LEMMA PublishPreviewChain ==
  ASSUME TypeInv, ChainInv, NEW u \in Uploaders, PublishPreview(u)
  PROVE  ChainInv'
<1> DEFINE new == uploads[u].id
<1>1. /\ new \in Ids /\ status[new] = "none" /\ new < nextId /\ uploads[u].base < new
      /\ \A i \in uploads[u].done : status[i] # "none"
      /\ UNCHANGED <<nextId, committer>>
  BY UploadsOK DEF PublishPreview, ChainInv, UploadOK
<1>2. /\ base'[new] = uploads[u].base /\ \A i \in Ids \ {new} : base'[i] = base[i]
      /\ status'[new] = "preview_ready"
      /\ \A i \in Ids \ {new} : status'[i] \in {status[i], "expired"}
      /\ \A i \in Ids \ {new} : status[i] = "none" => status'[i] = "none"
  BY <1>1 DEF PublishPreview, TypeInv, TypeOK
<1>3. \A v \in Uploaders : uploads'[v].pc = "created" => v # u /\ uploads'[v] = uploads[v]
  BY DEF PublishPreview, TypeInv, TypeOK, Idle
<1> HIDE DEF new
<1>4. Committed' \subseteq Committed \ {new} /\ \A i \in Committed' : base'[i] = base[i]
  BY <1>2 DEF Committed
<1>5. CommittedChain'
  BY <1>4 DEF ChainInv, CommittedChain
<1>6. \A i \in Ids : status'[i] # "none" => i < nextId' /\ base'[i] < i
  BY <1>1, <1>2 DEF ChainInv, PublishPreview
<1>7. ASSUME NEW v \in Uploaders, uploads'[v].pc = "created"
      PROVE  /\ uploads'[v].id < nextId' /\ uploads'[v].base < uploads'[v].id
             /\ status'[uploads'[v].id] = "none"
             /\ \A w \in Uploaders \ {v} :
                  uploads'[w].pc = "created" => uploads'[w].id # uploads'[v].id
  <2>1. uploads[u].pc = "created" /\ uploads[v].pc = "created" /\ v # u
    BY <1>3, <1>7 DEF PublishPreview
  <2>2. uploads[v].id \in Ids \ {new} /\ status[uploads[v].id] = "none"
    BY <2>1, UploadsOK DEF ChainInv, UploadOK, new
  <2>3. QED
    BY <1>1, <1>2, <1>3, <1>7, <2>2 DEF ChainInv
<1>8. ASSUME Committing' PROVE \A i \in Committed' : i <= base'[committer'.id]
  <2>1. committer.id \in Ids \ {new} /\ Committing
    BY <1>1, <1>8 DEF Committing, TypeInv, RefsOK
  <2>2. QED
    BY <1>1, <1>2, <1>4, <1>8, <2>1 DEF ChainInv
<1>9. QED
  BY <1>5, <1>6, <1>7, <1>8 DEF ChainInv

\* The base_version check establishes the last conjunct of ChainInv.
LEMMA CommitCheckChain ==
  ASSUME TypeInv, ChainInv, NEW i \in Ids, NEW sheets, NEW key, NEW confirm, NEW ack,
         CommitCheck(i, sheets, key, confirm, ack)
  PROVE  ChainInv'
<1>1. UNCHANGED <<status, base, nextId, uploads>> /\ committer'.id = i
  BY DEF CommitCheck, importVars
<1>2. \A j \in Committed : j <= base[i]
  BY DEF CommitCheck, BaseCurrent, TopOf
<1>3. QED
  BY <1>1, <1>2 DEF ChainInv, CommittedChain, Committed

\* A commit puts the import on top of all the committed ones.
LEMMA CommitApplyChain ==
  ASSUME TypeInv, ChainInv, CommitApply
  PROVE  ChainInv'
<1> DEFINE i == committer.id
<1>1. /\ i \in Ids /\ status[i] # "none" /\ committer.op = "apply"
      /\ status' = [status EXCEPT ![i] = "committed"]
      /\ UNCHANGED <<base, nextId, uploads>> /\ ~Committing' /\ Committing
  BY DEF CommitApply, Free, Committing, importVars, TypeInv, RefsOK
<1>2. /\ \A j \in Committed : j <= base[i]
      /\ base[i] < i /\ base \in [Ids -> Ids \cup {0}]
  BY <1>1 DEF ChainInv, TypeInv, TypeOK
<1> HIDE DEF i
<1>3. Committed' = Committed \cup {i}
  BY <1>1 DEF Committed, TypeInv, TypeOK
<1>4. \A j \in Committed : j \in Ids /\ j < i
  BY <1>1, <1>2, BoundAssumption DEF Committed
<1>5. CommittedChain'
  BY <1>1, <1>2, <1>3, <1>4, BoundAssumption DEF ChainInv, CommittedChain
<1>6. \A j \in Ids : status'[j] = "none" <=> status[j] = "none"
  BY <1>1 DEF TypeInv, TypeOK
<1>7. QED
  BY <1>1, <1>5, <1>6, UploadsOK DEF ChainInv, UploadOK

LEMMA NextChain == TypeInv /\ ChainInv /\ [Next]_vars => ChainInv'
  BY FrameSteps, CreateImportChain, PublishPreviewChain, CommitCheckChain, CommitApplyChain
     DEF Next, UploadStep, JanitorStep, CommitRequest, CommitStep

\* Committed imports always form a chain in id order, each committed on top of
\* every smaller one: MAX(id) among them is the one committed last.
THEOREM CommitsInIdOrder == Spec => []CommittedChain
<1>1. Init => ChainInv
  BY DEF Init, ChainInv, CommittedChain, Committed, Committing, Idle, Free
<1>2. ChainInv => CommittedChain
  BY DEF ChainInv
<1>3. QED
  BY <1>1, <1>2, NextChain, TypeInvariance, PTL DEF Spec

----------------------------------------------------------------------------
(* What is sent twice                                                      *)

\* An upload that has inserted its row saw no live import of its file but those
\* its janitor expires, and no other upload inserts one meanwhile: both would
\* be in the unique index.
FileReserved ==
  \A u \in Uploaders : uploads[u].pc = "created" =>
    /\ LiveImports(uploads[u].file, uploads[u].doomed) = {}
    /\ \A v \in Uploaders \ {u} : uploads[v].pc = "created" => uploads[v].file # uploads[u].file

OnceInv == OnceOnly /\ FileReserved

\* Steps that make no import live, take no key and insert no row.
LEMMA OnceFrame ==
  ASSUME TypeInv, OnceInv, UNCHANGED <<sha, idem>>,
         \A i \in Ids : status'[i] \in LiveStatuses => status[i] \in LiveStatuses,
         \A v \in Uploaders : uploads'[v] = uploads[v] \/ uploads'[v].pc # "created"
  PROVE  OnceInv'
<1>1. OneLivePerFile' /\ KeyCommitsOnce'
  BY DEF OnceInv, OnceOnly, OneLivePerFile, KeyCommitsOnce
<1>2. FileReserved'
  <2> SUFFICES ASSUME NEW u \in Uploaders, uploads'[u].pc = "created"
               PROVE  /\ \A i \in Ids \ uploads'[u].doomed :
                            ~(sha'[i] = uploads'[u].file /\ status'[i] \in LiveStatuses)
                      /\ \A v \in Uploaders \ {u} :
                           uploads'[v].pc = "created" => uploads'[v].file # uploads'[u].file
    BY DEF FileReserved, LiveImports
  <2>1. uploads'[u] = uploads[u]
    OBVIOUS
  <2>2. LiveImports(uploads[u].file, uploads[u].doomed) = {}
    BY <2>1 DEF OnceInv, FileReserved
  <2>3. \A i \in Ids \ uploads'[u].doomed :
          ~(sha'[i] = uploads'[u].file /\ status'[i] \in LiveStatuses)
    BY <2>1, <2>2 DEF LiveImports
  <2>4. \A v \in Uploaders \ {u} :
          uploads'[v].pc = "created" => uploads'[v].file # uploads'[u].file
    BY <2>1 DEF OnceInv, FileReserved
  <2> QED BY <2>3, <2>4
<1> QED BY <1>1, <1>2 DEF OnceInv, OnceOnly

LEMMA CreateImportOnce ==
  ASSUME TypeInv, OnceInv, NEW u \in Uploaders, CreateImport(u)
  PROVE  OnceInv'
<1>1. UNCHANGED <<status, sha, idem>>
  BY DEF CreateImport, ledgerVars
<1>2. CASE uploads' = [uploads EXCEPT ![u] = Idle]
  BY <1>1, <1>2, OnceFrame DEF TypeInv, TypeOK, Idle
<1>3. ASSUME NEW r, uploads' = [uploads EXCEPT ![u] = r], LiveImports(r.file, r.doomed) = {},
             \A v \in Uploaders \ {u} : uploads[v].pc = "created" => uploads[v].file # r.file
      PROVE  OnceInv'
  <2>1. \A v \in Uploaders : uploads'[v] = IF v = u THEN r ELSE uploads[v]
    BY <1>3 DEF TypeInv, TypeOK
  <2>2. \A f, D : LiveImports(f, D)' = LiveImports(f, D)
    BY <1>1 DEF LiveImports
  <2>3. FileReserved'
    <3> SUFFICES ASSUME NEW v \in Uploaders, uploads'[v].pc = "created"
                 PROVE  /\ LiveImports(uploads'[v].file, uploads'[v].doomed) = {}
                        /\ \A w \in Uploaders \ {v} :
                             uploads'[w].pc = "created" => uploads'[w].file # uploads'[v].file
      BY <2>2 DEF FileReserved
    <3>1. CASE v = u
      BY <1>3, <2>1, <3>1
    <3>2. CASE v # u
      BY <1>3, <2>1, <3>2 DEF OnceInv, FileReserved
    <3> QED BY <3>1, <3>2
  <2>4. OnceOnly'
    BY <1>1 DEF OnceInv, OnceOnly, OneLivePerFile, KeyCommitsOnce
  <2> QED BY <2>3, <2>4 DEF OnceInv
<1> QED BY <1>2, <1>3, CreateImportStep

\* The row that becomes visible is the only live one of its file.
LEMMA PublishPreviewOnce ==
  ASSUME TypeInv, OnceInv, NEW u \in Uploaders, PublishPreview(u)
  PROVE  OnceInv'
<1> DEFINE new == uploads[u].id  file == uploads[u].file  doomed == uploads[u].doomed
<1>1. /\ new \in Ids /\ uploads[u].pc = "created" /\ idem' = idem
      /\ sha' = [sha EXCEPT ![new] = file]
      /\ \A i \in Ids : status'[i] = IF i = new THEN "preview_ready"
                                     ELSE IF i \in doomed THEN "expired" ELSE status[i]
      /\ \A v \in Uploaders : uploads'[v].pc = "created" => v # u /\ uploads'[v] = uploads[v]
  BY UploadsOK DEF PublishPreview, UploadOK, TypeInv, TypeOK, Idle, ledgerVars
<1>2. \A i \in Ids : sha'[i] = IF i = new THEN file ELSE sha[i]
  BY <1>1 DEF TypeInv, TypeOK
<1>3. LiveImports(file, doomed) = {}
  BY <1>1 DEF OnceInv, FileReserved
<1> HIDE DEF new, file, doomed
<1>4. \A i \in Ids \ {new} : status'[i] \in LiveStatuses =>
        i \notin doomed /\ status[i] \in LiveStatuses /\ sha'[i] = sha[i] /\ sha[i] # file
  BY <1>1, <1>2, <1>3 DEF LiveImports, LiveStatuses
<1>5. OneLivePerFile'
  BY <1>1, <1>2, <1>4 DEF OnceInv, OnceOnly, OneLivePerFile
<1>6. KeyCommitsOnce'
  BY <1>1 DEF OnceInv, OnceOnly, KeyCommitsOnce
<1>7. FileReserved'
  <2> SUFFICES ASSUME NEW v \in Uploaders, uploads'[v].pc = "created"
               PROVE  /\ \A i \in Ids \ uploads'[v].doomed :
                            ~(sha'[i] = uploads'[v].file /\ status'[i] \in LiveStatuses)
                      /\ \A w \in Uploaders \ {v} :
                           uploads'[w].pc = "created" => uploads'[w].file # uploads'[v].file
    BY DEF FileReserved, LiveImports
  <2>1. v # u /\ uploads'[v] = uploads[v] /\ uploads[v].pc = "created"
    BY <1>1
  <2>2. uploads[v].file # file /\ LiveImports(uploads[v].file, uploads[v].doomed) = {}
    BY <1>1, <2>1 DEF OnceInv, FileReserved, file
  <2>3. \A i \in Ids \ uploads'[v].doomed :
          ~(sha'[i] = uploads'[v].file /\ status'[i] \in LiveStatuses)
    BY <1>2, <1>4, <2>1, <2>2 DEF LiveImports
  <2>4. \A w \in Uploaders \ {v} : uploads'[w].pc = "created" => uploads'[w].file # uploads'[v].file
    BY <1>1, <2>1 DEF OnceInv, FileReserved
  <2> QED BY <2>3, <2>4
<1> QED BY <1>5, <1>6, <1>7 DEF OnceInv, OnceOnly

\* Both unique indexes are asked, and the one on files waits for uploads.
LEMMA CommitApplyOnce ==
  ASSUME TypeInv, OnceInv, CommitApply
  PROVE  OnceInv'
<1> DEFINE i == committer.id  key == committer.key
<1>1. /\ i \in Ids /\ UNCHANGED <<sha, uploads>>
      /\ status' = [status EXCEPT ![i] = "committed"]
      /\ \A u \in Uploaders : ~(uploads[u].pc = "created" /\ uploads[u].file = sha[i])
      /\ KeyFree(i, key) /\ LiveImports(sha[i], {i}) = {}
      /\ idem' = IF key = NoKey THEN idem ELSE [idem EXCEPT ![i] = key]
  BY DEF CommitApply, FileFree, IndexSettled, importVars, TypeInv, RefsOK
<1> HIDE DEF i, key
<1>2. \A j \in Ids : status'[j] = IF j = i THEN "committed" ELSE status[j]
  BY <1>1 DEF TypeInv, TypeOK
<1>3. \A j \in Ids \ {i} : status[j] \in LiveStatuses => sha[j] # sha[i]
  BY <1>1 DEF LiveImports
<1>4. OneLivePerFile'
  BY <1>1, <1>2, <1>3 DEF OnceInv, OnceOnly, OneLivePerFile
<1>5. \A j \in Ids : idem'[j] = IF j = i /\ key # NoKey THEN key ELSE idem[j]
  BY <1>1 DEF TypeInv, TypeOK
<1>6. KeyCommitsOnce'
  BY <1>1, <1>5 DEF KeyFree, OnceInv, OnceOnly, KeyCommitsOnce
<1>7. FileReserved'
  BY <1>1, <1>2 DEF OnceInv, FileReserved, LiveImports
<1> QED BY <1>4, <1>6, <1>7 DEF OnceInv, OnceOnly

LEMMA NextOnce == TypeInv /\ OnceInv /\ [Next]_vars => OnceInv'
<1> SUFFICES ASSUME TypeInv, OnceInv, [Next]_vars PROVE OnceInv'
  OBVIOUS
<1>1. ASSUME NEW u \in Uploaders,
             (\E f \in Files : JanitorSelect(u, f)) \/ JanitorStep(u) \/ UploadFails(u)
      PROVE  OnceInv'
  BY <1>1, OtherUploadSteps, OnceFrame DEF importVars, ledgerVars
<1>2. ASSUME CommitRequest \/ CommitReads \/ CommitRefused \/ CommitFails
             \/ (\E i \in Ids : TimePasses(i)) \/ UNCHANGED vars
      PROVE  OnceInv'
  <2>1. UNCHANGED <<status, sha, idem, uploads>>
    BY <1>2, CommitOnlyReads DEF TimePasses, vars, importVars, ledgerVars
  <2> QED BY <2>1, OnceFrame
<1>3. ASSUME CommitMarksExpired \/ \E i \in Ids : Discard(i) \/ Revert(i)
      PROVE  OnceInv'
  <2>1. UNCHANGED <<sha, idem, uploads>>
    BY <1>3 DEF CommitMarksExpired, Discard, Revert, importVars, ledgerVars
  <2>2. \A j \in Ids : status'[j] = status[j] \/ status'[j] \in {"expired", "discarded", "reverted"}
    <3>1. CommitMarksExpired => status' = [status EXCEPT ![committer.id] = "expired"]
      BY DEF CommitMarksExpired
    <3>2. \A i \in Ids : Discard(i) => status' = [status EXCEPT ![i] = "discarded"]
      BY DEF Discard
    <3>3. \A i \in Ids : Revert(i) => status' = [status EXCEPT ![i] = "reverted"]
      BY DEF Revert
    <3> QED BY <1>3, <3>1, <3>2, <3>3 DEF TypeInv, TypeOK
  <2>3. \A j \in Ids : status'[j] \in LiveStatuses => status[j] \in LiveStatuses
    BY <2>2 DEF LiveStatuses
  <2> QED BY <2>1, <2>3, OnceFrame
<1>4. ASSUME Restart PROVE OnceInv'
  <2>1. /\ UNCHANGED <<sha, idem>>
        /\ \A v \in Uploaders : uploads'[v].pc # "created"
        /\ \A j \in Ids : status'[j] \in LiveStatuses => status[j] \in LiveStatuses
    BY <1>4 DEF Restart, Idle, importVars, ledgerVars, LiveStatuses
  <2> QED BY <2>1, OnceFrame
<1> QED BY <1>1, <1>2, <1>3, <1>4, CreateImportOnce, PublishPreviewOnce, CommitApplyOnce
        DEF Next, UploadStep, JanitorStep, CommitStep

\* For any number of uploads at once and any workbooks: a file has one live
\* import at most, and a key commits one import only.
THEOREM TwiceCountsOnce == Spec => []OnceOnly
<1>1. Init => OnceInv
  BY DEF Init, OnceInv, OnceOnly, OneLivePerFile, KeyCommitsOnce, FileReserved, Idle, LiveStatuses
<1>2. OnceInv => OnceOnly
  BY DEF OnceInv
<1> QED BY <1>1, <1>2, NextOnce, TypeInvariance, PTL DEF Spec

----------------------------------------------------------------------------
(* Preview data                                                            *)

\* What a step may leave of preview data.
Confined ==
  \A i \in staging' \cup names' :
    \/ status'[i] = "preview_ready"
    \/ /\ i \in staging \cup names /\ status'[i] = "expired"
       /\ status[i] = "expired" \/ (committer.op = "expire" /\ committer.id = i)

\* Staged rows and names belong to open and expired previews.
PreviewInv == \A i \in staging \cup names : status[i] \in {"preview_ready", "expired"}

\* Steps that keep or purge preview data, and leave the status of what keeps it.
LEMMA PreviewFrame ==
  ASSUME TypeInv, PreviewInv,
         \A i \in staging' \cup names' : i \in staging \cup names /\ status'[i] = status[i]
  PROVE  Confined
  BY DEF PreviewInv, Confined

LEMMA NextPreviewData == TypeInv /\ PreviewInv /\ [Next]_vars => Confined
<1> SUFFICES ASSUME TypeInv, PreviewInv, [Next]_vars PROVE Confined
  OBVIOUS
<1>0. staging \subseteq Ids /\ names \subseteq Ids
  BY DEF TypeInv, TypeOK
<1>1. ASSUME NEW u \in Uploaders, PublishPreview(u) PROVE Confined
  <2>1. /\ uploads[u].id \in Ids
        /\ \A i \in Ids : status'[i] = IF i = uploads[u].id THEN "preview_ready"
                                       ELSE IF i \in uploads[u].done THEN "expired" ELSE status[i]
        /\ staging' = (staging \ uploads[u].done) \cup {uploads[u].id}
        /\ names' = (names \ uploads[u].done) \cup {uploads[u].id}
    BY <1>1, UploadsOK DEF PublishPreview, Swept, UploadOK
  <2> QED BY <1>0, <2>1 DEF PreviewInv, Confined
<1>2. ASSUME CommitApply \/ \E i \in Ids : Discard(i)
      PROVE  Confined
  <2>1. PICK i, s : status' = [status EXCEPT ![i] = s] /\ staging' = staging \ {i} /\ names' = names \ {i}
    BY <1>2 DEF CommitApply, Discard, Purge
  <2>2. \A j \in Ids \ {i} : status'[j] = status[j]
    BY <2>1 DEF TypeInv, TypeOK
  <2> QED BY <1>0, <2>1, <2>2, PreviewFrame
<1>3. ASSUME NEW i \in Ids, Revert(i) PROVE Confined
  <2>1. /\ i \notin staging \cup names /\ UNCHANGED <<staging, names>>
        /\ \A j \in Ids \ {i} : status'[j] = status[j]
    BY <1>3 DEF Revert, previewVars, PreviewInv, TypeInv, TypeOK
  <2> QED BY <1>0, <2>1, PreviewFrame
<1>4. ASSUME CommitMarksExpired PROVE Confined
  <2>1. /\ UNCHANGED <<staging, names>> /\ committer.op = "expire"
        /\ \A j \in Ids : status'[j] = IF j = committer.id THEN "expired" ELSE status[j]
    BY <1>4 DEF CommitMarksExpired, previewVars, TypeInv, TypeOK
  <2> QED BY <1>0, <2>1 DEF PreviewInv, Confined
<1>5. ASSUME Restart PROVE Confined
  <2>1. PICK swept : /\ status' = [i \in Ids |-> IF i \in swept THEN "expired" ELSE status[i]]
                     /\ staging' = staging \ swept /\ names' = names \ swept
    BY <1>5 DEF Restart, Swept
  <2> QED BY <1>0, <2>1, PreviewFrame
<1>6. ASSUME NEW u \in Uploaders,
             (\E f \in Files : JanitorSelect(u, f)) \/ JanitorStep(u) \/ UploadFails(u) \/ CreateImport(u)
      PROVE  UNCHANGED <<status, staging, names>>
  BY <1>6, OtherUploadSteps DEF CreateImport, previewVars
<1>7. CommitRequest \/ CommitReads \/ CommitRefused \/ CommitFails \/ (\E i \in Ids : TimePasses(i))
      \/ UNCHANGED vars
      => UNCHANGED <<status, staging, names>>
  BY CommitOnlyReads DEF TimePasses, vars, previewVars
<1>8. UNCHANGED <<status, staging, names>> => Confined
  BY PreviewFrame
<1> QED BY <1>1, <1>2, <1>3, <1>4, <1>5, <1>6, <1>7, <1>8 DEF Next, UploadStep, JanitorStep, CommitStep

\* Whatever is committed, discarded, reverted and swept in whichever order, the
\* names and rows of an upload go when its preview closes, with the one
\* exception of the expiry by the commit handler.
THEOREM PreviewDataIsConfined == Spec => PreviewDataConfined
<1>1. Init => PreviewInv
  BY DEF Init, PreviewInv
<1>2. TypeInv /\ PreviewInv /\ [Next]_vars => PreviewInv'
  BY NextPreviewData DEF Confined, PreviewInv
<1>3. TypeInv /\ PreviewInv /\ [Next]_vars
      => \A i \in staging' \cup names' :
           \/ status'[i] = "preview_ready"
           \/ /\ i \in staging \cup names /\ status'[i] = "expired"
              /\ status[i] = "expired" \/ (committer.op = "expire" /\ committer.id = i)
  BY NextPreviewData DEF Confined
<1> QED BY <1>1, <1>2, <1>3, TypeInvariance, PTL DEF Spec, PreviewDataConfined

----------------------------------------------------------------------------
(* Batches and the overlap guard                                           *)

\* A commit is the only step that makes an import committed.
LEMMA CommitsAlone ==
  ASSUME TypeInv, [Next]_vars, NEW i \in Ids, status[i] # "committed", status'[i] = "committed"
  PROVE  CommitApply /\ i = committer.id
<1>1. ASSUME NEW u \in Uploaders, (\E f \in Files : JanitorSelect(u, f)) \/ UploadStep(u)
                                  \/ UploadFails(u)
      PROVE  FALSE
  BY <1>1, OtherUploadSteps DEF UploadStep, JanitorStep, CreateImport, PublishPreview
<1>2. CommitRequest \/ CommitReads \/ CommitRefused \/ CommitFails \/ (\E j \in Ids : TimePasses(j))
        \/ UNCHANGED vars
      => FALSE
  BY CommitOnlyReads DEF TimePasses, vars
<1>3. ~CommitMarksExpired /\ ~\E j \in Ids : Discard(j) \/ Revert(j)
  BY DEF CommitMarksExpired, Discard, Revert, TypeInv, TypeOK
<1>4. ~Restart
  BY DEF Restart
<1>5. CommitApply => i = committer.id
  BY DEF CommitApply, TypeInv, TypeOK
<1> QED BY <1>1, <1>2, <1>3, <1>4, <1>5 DEF Next, CommitStep

\* What a commit does to the calendar and to what is kept of it.
LEMMA CommitWrites ==
  ASSUME TypeInv, CommitApply
  PROVE  /\ committer.id \in Ids
         /\ LET i == committer.id
                rows == StagedRows(i, committer.sheets)
                changed == Distinct(sha[i], rows)
            IN /\ rows \subseteq Days /\ \A d \in rows : Raw(sha[i], d) \in Codes
               /\ \A d \in Days : /\ calendar'[d] = IF d \in changed THEN Raw(sha[i], d) ELSE calendar[d]
                                  /\ batch'[d] = IF d \in changed THEN i ELSE batch[d]
               /\ audit' = audit \cup {[batch |-> i, day |-> d, old |-> calendar[d],
                                        new |-> Raw(sha[i], d)] : d \in changed}
               /\ status' = [status EXCEPT ![i] = "committed"]
  BY CommitRows DEF CommitApply, Upserted, TypeInv, RefsOK

\* What a revert does to a day of the calendar.
LEMMA RevertWrites ==
  ASSUME TypeInv, NEW i \in Ids, Revert(i)
  PROVE  \A d \in Days :
           \/ calendar'[d] = calendar[d] /\ ~\E a \in Restorable(i) : a.day = d
           \/ \E a \in Restorable(i) : a.day = d /\ calendar'[d] = a.old
<1> SUFFICES ASSUME NEW d \in Days, \E a \in Restorable(i) : a.day = d
             PROVE  \E a \in Restorable(i) : a.day = d /\ calendar'[d] = a.old
  BY DEF Revert
<1> DEFINE a == CHOOSE x \in Restorable(i) : x.day = d
<1>1. a \in Restorable(i) /\ a.day = d
  OBVIOUS
<1>2. calendar'[d] = a.old
  BY DEF Revert
<1> QED BY <1>1, <1>2

LEMMA NextBatch == TypeInv /\ BatchAuditedDay /\ [Next]_vars => BatchAuditedDay'
<1> SUFFICES ASSUME TypeInv, BatchAuditedDay, [Next]_vars PROVE BatchAuditedDay'
  OBVIOUS
<1>1. ASSUME CommitApply PROVE BatchAuditedDay'
  <2> DEFINE i == committer.id
             rows == StagedRows(i, committer.sheets)
             changed == Distinct(sha[i], rows)
             entry(d) == [batch |-> i, day |-> d, old |-> calendar[d], new |-> Raw(sha[i], d)]
  <2>1. /\ \A d \in Days : /\ calendar'[d] = IF d \in changed THEN Raw(sha[i], d) ELSE calendar[d]
                           /\ batch'[d] = IF d \in changed THEN i ELSE batch[d]
        /\ audit' = audit \cup {entry(d) : d \in changed}
    BY <1>1, CommitWrites
  <2> SUFFICES ASSUME NEW d \in Days, calendar'[d] # NoRow
               PROVE  \E a \in audit' : a.batch = batch'[d] /\ a.day = d
    BY DEF BatchAuditedDay, StoredDays
  <2>2. CASE d \in changed
    <3>1. entry(d) \in audit' /\ entry(d).batch = i /\ entry(d).day = d
      BY <2>1, <2>2
    <3> HIDE DEF entry
    <3> QED BY <2>1, <2>2, <3>1
  <2>3. CASE d \notin changed
    BY <2>1, <2>3 DEF BatchAuditedDay, StoredDays
  <2> QED BY <2>2, <2>3
<1>2. ASSUME NEW i \in Ids, Revert(i) PROVE BatchAuditedDay'
  <2>1. audit' = audit /\ \A d \in Days : calendar'[d] # NoRow => batch'[d] = batch[d]
    BY <1>2 DEF Revert
  <2>2. \A a \in Restorable(i) : calendar[a.day] # NoRow
    BY MarkerAssumption DEF Restorable, TypeInv, TypeOK
  <2>3. \A d \in Days : calendar'[d] # NoRow => calendar[d] # NoRow
    BY <1>2, <2>2, RevertWrites
  <2> QED BY <2>1, <2>3 DEF BatchAuditedDay, StoredDays
<1>3. UNCHANGED <<calendar, batch, audit>> => BatchAuditedDay'
  BY DEF BatchAuditedDay, StoredDays
<1> QED BY <1>1, <1>2, <1>3, LedgerAlone DEF ledgerVars

\* The batch of a stored day always is one that audited that day, for any
\* sequence of commits of parts of workbooks and of reverts.
THEOREM BatchesAuditTheirDays == Spec => []BatchAuditedDay
<1>1. Init => BatchAuditedDay
  BY DEF Init, BatchAuditedDay, StoredDays
<1> QED BY <1>1, NextBatch, TypeInvariance, PTL DEF Spec

\* While a commit holds the advisory lock, what its guard accepted stays so.
GuardKept ==
  committer.op \in {"lock", "apply"} =>
    GuardAccepts(StagedRows(committer.id, committer.sheets), committer.confirm)

LEMMA NothingIsLarge == ~LargeShare({}, {})
  BY FS_EmptySet DEF LargeShare

\* Steps that keep the calendar, the commit in flight and its workbook, and
\* take all of its staged rows or none.
LEMMA GuardFrame ==
  ASSUME GuardKept, UNCHANGED <<calendar, committer>>,
         committer.op \in {"lock", "apply"} =>
           /\ sha'[committer.id] = sha[committer.id]
           /\ committer.id \in staging' => committer.id \in staging
  PROVE  GuardKept'
<1> SUFFICES ASSUME committer.op \in {"lock", "apply"} PROVE GuardKept'
  BY DEF GuardKept
<1> DEFINE id == committer.id  sheets == committer.sheets
<1>1. /\ sha'[id] = sha[id] /\ (id \in staging' => id \in staging)
      /\ committer' = committer /\ calendar' = calendar
      /\ GuardAccepts(StagedRows(id, sheets), committer.confirm)
  BY DEF GuardKept
<1>2. CASE id \in staging'
  <2>1. StagedRows(id, sheets)' = StagedRows(id, sheets)
    BY <1>1, <1>2 DEF StagedRows
  <2> QED BY <1>1, <2>1 DEF GuardKept, GuardAccepts, Distinct, StoredDays
<1>3. CASE id \notin staging'
  <2>1. StagedRows(id, sheets)' = {}
    BY <1>1, <1>3 DEF StagedRows
  <2>2. GuardAccepts(StagedRows(id, sheets), committer.confirm)'
    <3>1. Distinct(sha[id], {})' = {}
      BY DEF Distinct
    <3> QED BY <1>1, <2>1, <3>1, NothingIsLarge DEF GuardAccepts
  <2> QED BY <1>1, <2>2 DEF GuardKept
<1> QED BY <1>2, <1>3

LEMMA NextGuard == TypeInv /\ ChainInv /\ GuardKept /\ [Next]_vars => GuardKept'
<1> SUFFICES ASSUME TypeInv, ChainInv, GuardKept, [Next]_vars PROVE GuardKept'
  OBVIOUS
<1>0. committer.op # "none" => committer.id \in Ids /\ status[committer.id] # "none"
  BY DEF TypeInv, RefsOK
<1>1. ASSUME NEW u \in Uploaders, PublishPreview(u) PROVE GuardKept'
  <2>1. /\ status[uploads[u].id] = "none" /\ sha' = [sha EXCEPT ![uploads[u].id] = uploads[u].file]
        /\ staging' \subseteq staging \cup {uploads[u].id} /\ UNCHANGED <<calendar, committer>>
    BY <1>1 DEF PublishPreview, Swept, ChainInv, ledgerVars
  <2>2. committer.op # "none" => /\ sha'[committer.id] = sha[committer.id]
                                 /\ committer.id \in staging' => committer.id \in staging
    BY <1>0, <2>1 DEF TypeInv, TypeOK
  <2> QED BY <2>1, <2>2, GuardFrame
<1>2. ASSUME NEW u \in Uploaders,
             (\E f \in Files : JanitorSelect(u, f)) \/ JanitorStep(u) \/ UploadFails(u) \/ CreateImport(u)
      PROVE  UNCHANGED <<sha, staging, calendar, committer>>
  BY <1>2, OtherUploadSteps DEF CreateImport, importVars, previewVars, ledgerVars
<1>3. ASSUME NEW i \in Ids, Discard(i) \/ TimePasses(i)
      PROVE  UNCHANGED <<sha, calendar, committer>> /\ staging' \subseteq staging
  BY <1>3 DEF Discard, TimePasses, Purge, importVars, previewVars, ledgerVars
<1>4. CASE CommitGuard
  <2>1. /\ committer' = [committer EXCEPT !.op = "lock"] /\ UNCHANGED <<sha, staging, calendar>>
        /\ GuardAccepts(StagedRows(committer.id, committer.sheets), committer.confirm)
    BY <1>4 DEF CommitGuard, importVars, previewVars, ledgerVars
  <2>2. /\ committer'.id = committer.id /\ committer'.sheets = committer.sheets
        /\ committer'.confirm = committer.confirm
    BY <2>1 DEF TypeInv, TypeOK
  <2> QED BY <2>1, <2>2 DEF GuardKept, GuardAccepts, StagedRows, Distinct, StoredDays
<1>5. CASE CommitLocks
  <2>1. /\ committer' = [committer EXCEPT !.op = "apply"] /\ UNCHANGED <<sha, staging, calendar>>
        /\ GuardAccepts(StagedRows(committer.id, committer.sheets), committer.confirm)
    BY <1>5 DEF CommitLocks, GuardKept, importVars, previewVars, ledgerVars
  <2>2. /\ committer'.id = committer.id /\ committer'.sheets = committer.sheets
        /\ committer'.confirm = committer.confirm
    BY <2>1 DEF TypeInv, TypeOK
  <2> QED BY <2>1, <2>2 DEF GuardKept, GuardAccepts, StagedRows, Distinct, StoredDays
<1>6. CommitRequest => committer'.op \notin {"lock", "apply"}
  <2>1. \A i, key : CommitFindsExpired(i, key) => committer'.op = "expire"
    BY DEF CommitFindsExpired, Free
  <2>2. \A i, sheets, key, confirm, ack :
          CommitCheck(i, sheets, key, confirm, ack) => committer'.op = "guard"
    BY DEF CommitCheck
  <2> QED BY <2>1, <2>2 DEF CommitRequest
<1>7. CommitMarksExpired \/ CommitApply \/ CommitRefused \/ CommitFails \/ Restart
      => committer'.op \notin {"lock", "apply"}
  BY DEF CommitMarksExpired, CommitApply, CommitRefused, CommitFails, Restart, Free
<1>8. \A i \in Ids : Revert(i) => committer'.op \notin {"lock", "apply"}
  BY DEF Revert, NoCommitUnderWay, Free
<1>9. UNCHANGED vars => UNCHANGED <<sha, staging, calendar, committer>>
  BY DEF vars, importVars, previewVars, ledgerVars
<1>10. UNCHANGED <<sha, calendar, committer>> /\ staging' \subseteq staging => GuardKept'
  BY GuardFrame
<1>11. committer'.op \notin {"lock", "apply"} => GuardKept'
  BY DEF GuardKept
<1> QED BY <1>1, <1>2, <1>3, <1>4, <1>5, <1>6, <1>7, <1>8, <1>9, <1>10, <1>11
        DEF Next, UploadStep, JanitorStep, CommitStep, CommitReads

\* For any workbooks, selections and interleavings: a commit that overwrites
\* more than 5% of the stored days it touches was confirmed, although its guard
\* read the calendar and the staged rows before it waited for the row lock.
THEOREM LargeChangesAreConfirmed == Spec => LargeChangeConfirmed
<1>1. TypeInv /\ GuardKept /\ [Next]_vars
      => \A i \in Ids :
           /\ status[i] # "committed" /\ status'[i] = "committed"
           /\ LET stored == StagedRows(i, committer.sheets) \cap StoredDays(calendar) IN
              LargeShare({d \in stored : calendar'[d] # calendar[d]}, stored)
           => committer.confirm
  <2> SUFFICES ASSUME TypeInv, GuardKept, [Next]_vars, NEW i \in Ids, status[i] # "committed",
                      status'[i] = "committed",
                      LET stored == StagedRows(i, committer.sheets) \cap StoredDays(calendar) IN
                      LargeShare({d \in stored : calendar'[d] # calendar[d]}, stored)
               PROVE  committer.confirm
    OBVIOUS
  <2>1. CommitApply /\ i = committer.id
    BY CommitsAlone
  <2> DEFINE rows == StagedRows(i, committer.sheets)
             stored == rows \cap StoredDays(calendar)
  <2>2. /\ rows \subseteq Days
        /\ \A d \in Days : calendar'[d] = IF d \in Distinct(sha[i], rows) THEN Raw(sha[i], d) ELSE calendar[d]
    BY <2>1, CommitWrites
  <2>3. {d \in stored : calendar'[d] # calendar[d]} = Distinct(sha[i], stored)
    BY <2>2 DEF Distinct
  <2>4. GuardAccepts(rows, committer.confirm)
    BY <2>1 DEF CommitApply, GuardKept
  <2> QED BY <2>1, <2>3, <2>4 DEF GuardAccepts
<1>2. Init => ChainInv /\ GuardKept
  BY DEF Init, ChainInv, CommittedChain, Committed, Committing, GuardKept, Idle, Free
<1> QED BY <1>1, <1>2, NextGuard, NextChain, TypeInvariance, PTL DEF Spec, LargeChangeConfirmed

----------------------------------------------------------------------------
(* The ledger                                                              *)

\* What a janitor or a commit handler is about to expire is overdue.
DueInv ==
  /\ \A u \in Uploaders : uploads[u].doomed \subseteq due
  /\ committer.op = "expire" => committer.id \in due

\* An import is audited when it is committed, a day at most once.  The import a
\* commit request is about was never committed, also if it has been discarded
\* or expired meanwhile; and what has lapsed is never committed again.
AuditedOnce ==
  /\ \A a \in audit : status[a.batch] \in {"committed", "reverted", "expired", "discarded"}
  /\ \A a, b \in audit : a.batch = b.batch /\ a.day = b.day => a = b
  /\ \A i \in lapsed : status[i] \in {"expired", "discarded"}
  /\ committer.op # "none" =>
       /\ status[committer.id] \in {"preview_ready", "expired", "discarded"}
       /\ committer.id \notin lapsed
       /\ \A a \in audit : a.batch # committer.id

\* code is what the last of these audit rows wrote; there is none without one.
LastWritten(rows, code) ==
  IF rows = {} THEN code = NoRow
  ELSE \E a \in rows : a.new = code /\ \A b \in rows : b.batch <= a.batch

Earlier(a) == {b \in StandingAudit(a.day) : b.batch < a.batch}

SoundDays == Days \ LapsedDays

\* On every day no lapsed import wrote, the calendar has what the last standing
\* import wrote, and each of them remembers what the one before it wrote.
Stacked ==
  /\ \A d \in SoundDays : LastWritten(StandingAudit(d), calendar[d])
  /\ \A d \in SoundDays : \A a \in StandingAudit(d) : LastWritten(Earlier(a), a.old)

LedgerInv == AuditedOnce /\ Stacked

LEMMA NextDue == TypeInv /\ DueInv /\ [Next]_vars => DueInv'
<1> SUFFICES ASSUME TypeInv, DueInv, [Next]_vars PROVE DueInv'
  OBVIOUS
<1>0. Overdue \subseteq due /\ Idle.doomed = {} /\ Free.op = "none"
  BY DEF Overdue, Idle, Free
<1>1. ASSUME NEW u \in Uploaders, (\E f \in Files : JanitorSelect(u, f)) \/ UploadStep(u) \/ UploadFails(u)
      PROVE  DueInv'
  <2>1. UNCHANGED <<due, committer>>
    BY <1>1, OtherUploadSteps DEF UploadStep, JanitorStep, CreateImport, PublishPreview
  <2>2. (\E f \in Files : JanitorSelect(u, f)) => \E r : uploads' = [uploads EXCEPT ![u] = r] /\ r.doomed = Overdue
    <3>1. \A f : [Idle EXCEPT !.pc = "janitor", !.file = f, !.doomed = Overdue].doomed = Overdue
      BY DEF Idle
    <3> QED BY <3>1 DEF JanitorSelect
  <2>3. JanitorStep(u) => \E r : uploads' = [uploads EXCEPT ![u] = r] /\ r.doomed \subseteq uploads[u].doomed
    BY JanitorSteps
  <2>4. CreateImport(u) => \E r : uploads' = [uploads EXCEPT ![u] = r] /\ r.doomed \subseteq uploads[u].doomed
    BY <1>0, CreateImportStep
  <2>5. PublishPreview(u) \/ UploadFails(u) => uploads' = [uploads EXCEPT ![u] = Idle]
    BY DEF PublishPreview, UploadFails
  <2>6. \E r : uploads' = [uploads EXCEPT ![u] = r] /\ r.doomed \subseteq due
    BY <1>0, <1>1, <2>2, <2>3, <2>4, <2>5 DEF DueInv, UploadStep, JanitorStep
  <2>7. \A v \in Uploaders : uploads'[v].doomed \subseteq due
    BY <2>6 DEF DueInv, TypeInv, TypeOK
  <2> QED BY <2>1, <2>7 DEF DueInv
<1>2. ASSUME CommitRequest PROVE DueInv'
  <2>1. \A i, key : CommitFindsExpired(i, key) => i \in due /\ committer'.id = i
    BY DEF CommitFindsExpired, Free
  <2>2. \A i, sheets, key, confirm, ack :
          CommitCheck(i, sheets, key, confirm, ack) => committer'.op = "guard"
    BY DEF CommitCheck
  <2>3. committer'.op = "expire" => committer'.id \in due
    BY <1>2, <2>1, <2>2 DEF CommitRequest
  <2> QED BY <1>2, <2>3, CommitOnlyReads DEF DueInv
<1>3. ASSUME CommitReads PROVE DueInv'
  <2>1. \E op \in {"lock", "apply"} : committer' = [committer EXCEPT !.op = op]
    BY <1>3 DEF CommitReads, CommitGuard, CommitLocks
  <2>2. committer'.op # "expire"
    BY <2>1 DEF TypeInv, TypeOK
  <2> QED BY <1>3, <2>2, CommitOnlyReads DEF DueInv
<1>4. CommitMarksExpired \/ CommitApply \/ CommitRefused \/ CommitFails => DueInv'
  BY <1>0 DEF CommitMarksExpired, CommitApply, CommitRefused, CommitFails, DueInv
<1>5. ASSUME NEW i \in Ids, Discard(i) \/ Revert(i) \/ TimePasses(i) PROVE DueInv'
  <2>1. UNCHANGED <<uploads, committer>> /\ due \subseteq due'
    BY <1>5 DEF Discard, Revert, TimePasses
  <2> QED BY <2>1 DEF DueInv
<1>6. Restart => DueInv'
  BY <1>0 DEF Restart, DueInv
<1>7. UNCHANGED vars => DueInv'
  BY DEF vars, DueInv
<1> QED BY <1>1, <1>2, <1>3, <1>4, <1>5, <1>6, <1>7 DEF Next, CommitStep

\* Whatever requests and restarts interleave: nothing but a revert takes back a
\* commit, or a janitor if the 24 hours ran out while the commit was under way.
THEOREM CommitsStand == Spec => CommitsInTimeStand
<1>1. ASSUME TypeInv, ChainInv, DueInv, [Next]_vars, NEW i \in Ids, status[i] = "committed"
      PROVE  \/ status'[i] \in {"committed", "reverted"}
             \/ status'[i] = "expired" /\ i \in due
  <2>1. CASE UNCHANGED status
    BY <1>1, <2>1
  <2>2. ASSUME NEW u \in Uploaders, PublishPreview(u)
        PROVE  status'[i] = "committed" \/ (status'[i] = "expired" /\ i \in due)
    <3>1. status[uploads[u].id] = "none" /\ uploads[u].done \subseteq due
      BY <1>1, <2>2, UploadsOK DEF PublishPreview, ChainInv, DueInv, UploadOK
    <3> QED BY <1>1, <2>2, <3>1 DEF PublishPreview
  <2>3. CommitMarksExpired => status'[i] = "committed" \/ (status'[i] = "expired" /\ i \in due)
    BY <1>1 DEF CommitMarksExpired, DueInv, TypeInv, TypeOK
  <2>4. CommitApply => status'[i] = "committed"
    BY <1>1 DEF CommitApply, TypeInv, TypeOK
  <2>5. \A j \in Ids : Discard(j) \/ Revert(j) => status'[i] \in {"committed", "reverted"}
    BY <1>1 DEF Discard, Discardable, Revert, TypeInv, TypeOK
  <2>6. Restart => status'[i] = "committed"
    BY <1>1 DEF Restart, Overdue
  <2>7. ASSUME NEW u \in Uploaders,
               (\E f \in Files : JanitorSelect(u, f)) \/ JanitorStep(u) \/ UploadFails(u) \/ CreateImport(u)
        PROVE  UNCHANGED status
    BY <1>1, <2>7, OtherUploadSteps DEF CreateImport
  <2>8. CommitRequest \/ CommitReads \/ CommitRefused \/ CommitFails \/ (\E j \in Ids : TimePasses(j))
        \/ UNCHANGED vars
        => UNCHANGED status
    BY CommitOnlyReads DEF TimePasses, vars
  <2> QED BY <1>1, <2>1, <2>2, <2>3, <2>4, <2>5, <2>6, <2>7, <2>8 DEF Next, UploadStep, JanitorStep, CommitStep
<1>2. TypeInv /\ ChainInv /\ DueInv /\ [Next]_vars
      => \A i \in Ids :
           status[i] = "committed" =>
             \/ status'[i] \in {"committed", "reverted"}
             \/ status'[i] = "expired" /\ i \in due
  BY <1>1
<1>3. Init => ChainInv /\ DueInv
  BY DEF Init, ChainInv, CommittedChain, Committed, Committing, DueInv, Idle, Free
<1> QED BY <1>2, <1>3, NextChain, NextDue, TypeInvariance, PTL DEF Spec, CommitsInTimeStand

\* What the steps that neither commit nor revert do to statuses; a committed
\* import they take out of the table has lapsed.
LEMMA OtherStatus ==
  ASSUME TypeInv, ChainInv, AuditedOnce, [Next]_vars, ~CommitApply, ~\E i \in Ids : Revert(i)
  PROVE  /\ \A i \in Ids : \/ status'[i] = status[i]
                           \/ status[i] = "none" /\ status'[i] = "preview_ready"
                           \/ status[i] # "none" /\ status'[i] \in {"expired", "discarded"}
         /\ lapsed' = lapsed \cup (Committed \ Committed') /\ Committed' \subseteq Committed
         /\ UNCHANGED <<calendar, audit>>
<1> DEFINE Moves(i) == \/ status'[i] = status[i]
                       \/ status[i] = "none" /\ status'[i] = "preview_ready"
                       \/ status[i] # "none" /\ status'[i] \in {"expired", "discarded"}
           Goal == /\ \A i \in Ids : Moves(i)
                   /\ lapsed' = lapsed \cup (Committed \ Committed') /\ Committed' \subseteq Committed
<1>0. UNCHANGED <<calendar, audit>>
  BY LedgerAlone DEF ledgerVars
<1>1. UNCHANGED <<status, lapsed>> => Goal
  BY DEF Committed
<1>2. ASSUME NEW u \in Uploaders, PublishPreview(u) PROVE Goal
  <2>1. /\ status[uploads[u].id] = "none" /\ uploads[u].id \in Ids
        /\ \A i \in uploads[u].done : i \in Ids /\ status[i] # "none"
        /\ \A i \in Ids : status'[i] = IF i = uploads[u].id THEN "preview_ready"
                                       ELSE IF i \in uploads[u].done THEN "expired" ELSE status[i]
        /\ lapsed' = lapsed \cup (uploads[u].done \cap Committed)
    BY <1>2, UploadsOK DEF PublishPreview, ChainInv, UploadOK
  <2>2. \A i \in Ids : Moves(i)
    BY <2>1
  <2>3. Committed \ Committed' = uploads[u].done \cap Committed /\ Committed' \subseteq Committed
    BY <2>1 DEF Committed
  <2> QED BY <2>1, <2>2, <2>3
<1>3. ASSUME CommitMarksExpired \/ \E i \in Ids : Discard(i) PROVE Goal
  <2>1. PICK i \in Ids, s \in {"expired", "discarded"} :
          /\ status' = [status EXCEPT ![i] = s] /\ lapsed' = lapsed
          /\ status[i] \in {"preview_ready", "expired", "discarded"}
    BY <1>3 DEF CommitMarksExpired, Discard, Discardable, AuditedOnce, TypeInv, RefsOK, importVars
  <2>2. \A j \in Ids : Moves(j)
    BY <2>1 DEF TypeInv, TypeOK
  <2>3. Committed' = Committed
    BY <2>1 DEF Committed, TypeInv, TypeOK
  <2> QED BY <2>1, <2>2, <2>3
<1>4. ASSUME Restart PROVE Goal
  <2>1. /\ lapsed' = lapsed
        /\ \A i \in Ids : status'[i] = status[i] \/ (status[i] = "preview_ready" /\ status'[i] = "expired")
    BY <1>4 DEF Restart, Overdue, importVars
  <2> QED BY <2>1 DEF Committed
<1>5. ASSUME NEW u \in Uploaders,
             (\E f \in Files : JanitorSelect(u, f)) \/ JanitorStep(u) \/ UploadFails(u) \/ CreateImport(u)
      PROVE  UNCHANGED <<status, lapsed>>
  BY <1>5, OtherUploadSteps DEF CreateImport, importVars
<1>6. CommitRequest \/ CommitReads \/ CommitRefused \/ CommitFails \/ (\E j \in Ids : TimePasses(j))
      \/ UNCHANGED vars
      => UNCHANGED <<status, lapsed>>
  BY CommitOnlyReads DEF TimePasses, vars, importVars
<1>7. Goal
  <2> HIDE DEF Goal
  <2> QED BY <1>1, <1>2, <1>3, <1>4, <1>5, <1>6 DEF Next, UploadStep, JanitorStep, CommitStep
<1> QED BY <1>0, <1>7

\* A commit request in flight stays about an import that was never committed.
LEMMA NextRequest ==
  ASSUME TypeInv, ChainInv, AuditedOnce, [Next]_vars, committer'.op # "none"
  PROVE  /\ status'[committer'.id] \in {"preview_ready", "expired", "discarded"}
         /\ committer'.id \notin lapsed'
         /\ \A a \in audit' : a.batch # committer'.id
<1>0. Free.op = "none"
  BY DEF Free
<1>1. ~CommitApply /\ ~CommitMarksExpired /\ ~CommitRefused /\ ~CommitFails /\ ~Restart
      /\ ~\E i \in Ids : Revert(i)
  BY <1>0 DEF CommitApply, CommitMarksExpired, CommitRefused, CommitFails, Restart, Revert,
              NoCommitUnderWay
<1>2. CASE CommitRequest
  <2>1. \A i, key : CommitFindsExpired(i, key) => committer'.id = i /\ status[i] = "preview_ready"
    BY DEF CommitFindsExpired, Free
  <2>2. \A i, sheets, key, confirm, ack :
          CommitCheck(i, sheets, key, confirm, ack) => committer'.id = i /\ status[i] = "preview_ready"
    BY DEF CommitCheck
  <2>3. status[committer'.id] = "preview_ready"
    BY <1>2, <2>1, <2>2 DEF CommitRequest
  <2>4. UNCHANGED <<status, lapsed, audit>>
    BY <1>2, CommitOnlyReads DEF importVars, ledgerVars
  <2>5. committer'.id \notin lapsed /\ \A a \in audit : a.batch # committer'.id
    BY <2>3 DEF AuditedOnce
  <2> QED BY <2>3, <2>4, <2>5
<1>3. CASE ~CommitRequest
  <2>1. committer.op # "none" /\ committer'.id = committer.id
    <3>1. CASE CommitReads
      <4>1. /\ \E op : committer' = [committer EXCEPT !.op = op]
            /\ committer.op # "none"
        BY <3>1 DEF CommitReads, CommitGuard, CommitLocks
      <4> QED BY <4>1 DEF TypeInv, TypeOK
    <3>2. CASE ~CommitReads
      <4>1. ASSUME NEW u \in Uploaders,
                   (\E f \in Files : JanitorSelect(u, f)) \/ UploadStep(u) \/ UploadFails(u)
            PROVE  committer' = committer
        BY <4>1, OtherUploadSteps DEF UploadStep, JanitorStep, CreateImport, PublishPreview
      <4>2. (\E i \in Ids : Discard(i) \/ TimePasses(i)) \/ UNCHANGED vars => committer' = committer
        BY DEF Discard, TimePasses, vars
      <4>3. committer' = committer
        BY <1>1, <1>3, <3>2, <4>1, <4>2 DEF Next, CommitStep
      <4> QED BY <4>3
    <3> QED BY <3>1, <3>2
  <2> DEFINE id == committer.id
  <2>2. /\ id \in Ids /\ status[id] \in {"preview_ready", "expired", "discarded"}
        /\ id \notin lapsed /\ \A a \in audit : a.batch # id
    BY <2>1 DEF AuditedOnce, TypeInv, RefsOK
  <2>3. status'[id] \in {"preview_ready", "expired", "discarded"} /\ audit' = audit
        /\ lapsed' = lapsed \cup (Committed \ Committed')
    BY <1>1, <2>2, OtherStatus
  <2>4. id \notin Committed
    BY <2>2 DEF Committed
  <2> HIDE DEF id
  <2>5. id \notin lapsed' /\ \A a \in audit' : a.batch # id
    BY <2>2, <2>3, <2>4
  <2> QED BY <2>1, <2>3, <2>5 DEF id
<1> QED BY <1>2, <1>3

\* The day that a commit changes, and the audit rows that stand after it.
LEMMA StandingAfterCommit ==
  ASSUME TypeInv, ChainInv, AuditedOnce, CommitApply
  PROVE  LET i == committer.id
             changed == Distinct(sha[i], StagedRows(i, committer.sheets))
             entry(d) == [batch |-> i, day |-> d, old |-> calendar[d], new |-> Raw(sha[i], d)]
         IN /\ Committed' = Committed \cup {i} /\ \A j \in Committed : j < i
            /\ \A a \in audit : a.batch # i
            /\ LapsedDays' = LapsedDays
            /\ \A d \in Days :
                 StandingAudit(d)' = IF d \in changed THEN StandingAudit(d) \cup {entry(d)}
                                     ELSE StandingAudit(d)
<1> DEFINE i == committer.id
           changed == Distinct(sha[i], StagedRows(i, committer.sheets))
           entry(d) == [batch |-> i, day |-> d, old |-> calendar[d], new |-> Raw(sha[i], d)]
<1>1. /\ i \in Ids /\ changed \subseteq Days
      /\ audit' = audit \cup {entry(d) : d \in changed}
      /\ status' = [status EXCEPT ![i] = "committed"]
  BY CommitWrites DEF Distinct
<1>2. Committed' = Committed \cup {i}
  BY <1>1 DEF Committed, TypeInv, TypeOK
<1>3. \A j \in Committed : j < i
  <2>1. base[i] < i /\ \A j \in Committed : j <= base[i]
    BY <1>1 DEF CommitApply, ChainInv, Committing, TypeInv, RefsOK
  <2>2. base[i] \in Int /\ Committed \subseteq Int
    BY <1>1, BoundAssumption DEF Committed, TypeInv, TypeOK
  <2> QED BY <1>1, <2>1, <2>2, BoundAssumption
<1>4. \A a \in audit : a.batch # i
  BY DEF CommitApply, AuditedOnce
<1>5. \A d : entry(d).batch = i /\ entry(d).day = d
  OBVIOUS
<1>7. i \notin lapsed /\ lapsed' = lapsed
  BY DEF CommitApply, AuditedOnce, importVars
<1> HIDE DEF i, changed, entry
<1>8. {b \in audit' : b.batch \in lapsed'} = {b \in audit : b.batch \in lapsed}
  BY <1>1, <1>5, <1>7
<1>9. LapsedDays' = LapsedDays
  BY <1>8 DEF LapsedDays
<1>6. ASSUME NEW d \in Days
      PROVE  StandingAudit(d)' = IF d \in changed THEN StandingAudit(d) \cup {entry(d)}
                                 ELSE StandingAudit(d)
  BY <1>1, <1>2, <1>4, <1>5 DEF StandingAudit
<1> QED BY <1>2, <1>3, <1>4, <1>6, <1>9 DEF i, changed, entry

\* The audit rows that stand after a revert, and the one of the day it undoes.
LEMMA StandingAfterRevert ==
  ASSUME TypeInv, AuditedOnce, Stacked, NEW i \in Ids, Revert(i)
  PROVE  /\ i \in Committed /\ Committed' = Committed \ {i} /\ \A j \in Committed : j <= i
         /\ LapsedDays' = LapsedDays
         /\ \A d \in Days : StandingAudit(d)' = {a \in StandingAudit(d) : a.batch # i}
         /\ \A d \in SoundDays :
              \/ /\ \A a \in StandingAudit(d) : a.batch # i
                 /\ calendar'[d] = calendar[d]
              \/ \E a \in StandingAudit(d) :
                   a.batch = i /\ a.new = calendar[d] /\ calendar'[d] = a.old
<1>1. /\ audit' = audit /\ status' = [status EXCEPT ![i] = "reverted"] /\ lapsed' = lapsed
      /\ i \in Committed /\ \A j \in Committed : j <= i
  BY DEF Revert, IsLatest, TopOf, Committed, importVars
<1>2. Committed' = Committed \ {i}
  BY <1>1 DEF Committed, TypeInv, TypeOK
<1>3. ASSUME NEW d \in Days PROVE StandingAudit(d)' = {a \in StandingAudit(d) : a.batch # i}
  BY <1>1, <1>2 DEF StandingAudit
<1>4. ASSUME NEW d \in SoundDays, NEW r \in StandingAudit(d), r.batch = i
      PROVE  r.new = calendar[d] /\ calendar'[d] = r.old
  <2>1. PICK a \in StandingAudit(d) : a.new = calendar[d] /\ \A b \in StandingAudit(d) : b.batch <= a.batch
    BY <1>4 DEF Stacked, LastWritten
  <2>2. a.batch \in Ids /\ i <= a.batch /\ a.batch <= i
    BY <1>1, <1>4, <2>1 DEF StandingAudit, Committed
  <2>3. a.batch = i
    BY <2>2, BoundAssumption
  <2>4. a = r
    BY <1>4, <2>3 DEF AuditedOnce, StandingAudit
  <2>5. \A b \in Restorable(i) : b.day = d => b = r
    BY <1>4 DEF Restorable, AuditedOnce, StandingAudit
  <2>6. r \in Restorable(i) /\ r.day = d
    BY <1>4, <2>1, <2>4 DEF Restorable, StandingAudit
  <2> QED BY <2>1, <2>4, <2>5, <2>6, RevertWrites DEF SoundDays
<1>5. ASSUME NEW d \in Days, \A a \in StandingAudit(d) : a.batch # i
      PROVE  calendar'[d] = calendar[d]
  <2>1. \A a \in Restorable(i) : a.day # d
    BY <1>1, <1>5 DEF Restorable, StandingAudit
  <2> QED BY <2>1, RevertWrites
<1>6. LapsedDays' = LapsedDays
  BY <1>1 DEF LapsedDays
<1> QED BY <1>1, <1>2, <1>3, <1>4, <1>5, <1>6 DEF SoundDays

LEMMA CommitStacks ==
  ASSUME TypeInv, ChainInv, AuditedOnce, Stacked, CommitApply
  PROVE  Stacked'
<1> DEFINE i == committer.id
           changed == Distinct(sha[i], StagedRows(i, committer.sheets))
           entry(d) == [batch |-> i, day |-> d, old |-> calendar[d], new |-> Raw(sha[i], d)]
<1>1. /\ \A j \in Committed : j < i
      /\ \A d \in Days : StandingAudit(d)' = IF d \in changed THEN StandingAudit(d) \cup {entry(d)}
                                             ELSE StandingAudit(d)
      /\ \A d \in Days : calendar'[d] = IF d \in changed THEN Raw(sha[i], d) ELSE calendar[d]
      /\ i \in Ids /\ SoundDays' = SoundDays /\ SoundDays \subseteq Days
  BY StandingAfterCommit, CommitWrites DEF SoundDays
<1>2. \A d : /\ entry(d).batch = i /\ entry(d).day = d
             /\ entry(d).old = calendar[d] /\ entry(d).new = Raw(sha[i], d)
  OBVIOUS
<1> HIDE DEF i, changed, entry
<1>3. \A d \in Days : \A a \in StandingAudit(d) : a.batch \in Committed /\ a.day = d
  BY DEF StandingAudit
<1>4. \A j \in Committed : j \in Int /\ j < i /\ i \in Int
  BY <1>1, BoundAssumption DEF Committed
<1>5. \A d \in SoundDays : LastWritten(StandingAudit(d)', calendar'[d])
  <2> SUFFICES ASSUME NEW d \in SoundDays PROVE LastWritten(StandingAudit(d)', calendar'[d])
    OBVIOUS
  <2>1. CASE d \in changed
    <3>1. \A b \in StandingAudit(d) \cup {entry(d)} : b.batch <= entry(d).batch
      BY <1>1, <1>2, <1>3, <1>4, BoundAssumption
    <3> QED BY <1>1, <1>2, <2>1, <3>1 DEF LastWritten
  <2>2. CASE d \notin changed
    BY <1>1, <2>2 DEF Stacked
  <2> QED BY <2>1, <2>2
<1>6. \A d \in SoundDays : \A a \in StandingAudit(d)' :
        LastWritten({b \in StandingAudit(d)' : b.batch < a.batch}, a.old)
  <2> SUFFICES ASSUME NEW d \in SoundDays, NEW a \in StandingAudit(d)'
               PROVE  LastWritten({b \in StandingAudit(d)' : b.batch < a.batch}, a.old)
    OBVIOUS
  <2>1. CASE a \in StandingAudit(d)
    <3>1. {b \in StandingAudit(d)' : b.batch < a.batch} = Earlier(a)
      BY <1>1, <1>2, <1>3, <1>4, <2>1 DEF Earlier
    <3> QED BY <2>1, <3>1 DEF Stacked
  <2>2. CASE a = entry(d) /\ d \in changed
    <3>1. {b \in StandingAudit(d)' : b.batch < a.batch} = StandingAudit(d)
      BY <1>1, <1>2, <1>3, <1>4, <2>2, BoundAssumption
    <3> QED BY <1>2, <2>2, <3>1 DEF Stacked
  <2> QED BY <1>1, <2>1, <2>2
<1>7. \A d \in Days : \A a \in StandingAudit(d)' : a.day = d
  BY DEF StandingAudit
<1> QED BY <1>1, <1>5, <1>6, <1>7 DEF Stacked, Earlier

LEMMA RevertStacks ==
  ASSUME TypeInv, AuditedOnce, Stacked, NEW i \in Ids, Revert(i)
  PROVE  Stacked'
<1>1. /\ \A j \in Committed : j <= i
      /\ SoundDays' = SoundDays /\ SoundDays \subseteq Days
      /\ \A d \in SoundDays :
           /\ StandingAudit(d)' = {a \in StandingAudit(d) : a.batch # i}
           /\ \/ (\A a \in StandingAudit(d) : a.batch # i) /\ calendar'[d] = calendar[d]
              \/ \E a \in StandingAudit(d) :
                   a.batch = i /\ a.new = calendar[d] /\ calendar'[d] = a.old
  BY StandingAfterRevert DEF SoundDays
<1>2. \A d \in Days : \A a \in StandingAudit(d) : a.day = d /\ a.batch \in Int /\ a.batch <= i
  BY <1>1, BoundAssumption DEF StandingAudit, Committed
<1>3. \A d \in Days : \A a \in StandingAudit(d) :
        a.batch = i => {b \in StandingAudit(d) : b.batch # i} = Earlier(a)
  BY <1>2, BoundAssumption DEF Earlier
<1>4. \A d \in SoundDays : LastWritten(StandingAudit(d)', calendar'[d])
  <2> SUFFICES ASSUME NEW d \in SoundDays PROVE LastWritten(StandingAudit(d)', calendar'[d])
    OBVIOUS
  <2>1. CASE \A a \in StandingAudit(d) : a.batch # i
    <3>1. {a \in StandingAudit(d) : a.batch # i} = StandingAudit(d)
      BY <2>1
    <3>2. StandingAudit(d)' = StandingAudit(d)
      BY <1>1, <3>1
    <3>3. calendar'[d] = calendar[d]
      BY <1>1, <2>1
    <3> QED BY <3>2, <3>3 DEF Stacked
  <2>2. CASE \E a \in StandingAudit(d) : a.batch = i /\ calendar'[d] = a.old
    <3>1. PICK a \in StandingAudit(d) : a.batch = i /\ calendar'[d] = a.old
      BY <2>2
    <3>2. StandingAudit(d)' = Earlier(a)
      BY <1>1, <1>3, <3>1
    <3> QED BY <3>1, <3>2 DEF Stacked
  <2> QED BY <1>1, <2>1, <2>2
<1>5. \A d \in SoundDays : \A a \in StandingAudit(d)' :
        LastWritten({b \in StandingAudit(d)' : b.batch < a.batch}, a.old)
  <2> SUFFICES ASSUME NEW d \in SoundDays, NEW a \in StandingAudit(d)'
               PROVE  LastWritten({b \in StandingAudit(d)' : b.batch < a.batch}, a.old)
    OBVIOUS
  <2>1. a \in StandingAudit(d) /\ a.batch # i
    BY <1>1
  <2>2. {b \in StandingAudit(d)' : b.batch < a.batch} = Earlier(a)
    BY <1>1, <1>2, <2>1, BoundAssumption DEF Earlier
  <2> QED BY <2>1, <2>2 DEF Stacked
<1>6. \A d \in Days : \A a \in StandingAudit(d)' : a.day = d
  BY DEF StandingAudit
<1> QED BY <1>1, <1>4, <1>5, <1>6 DEF Stacked, Earlier

\* The days of the imports in S.
DaysOf(S) == {a.day : a \in {b \in audit : b.batch \in S}}

\* Steps that are neither commits nor reverts take no standing audit row of a
\* sound day away.
LEMMA LedgerFrame ==
  ASSUME TypeInv, ChainInv, AuditedOnce, [Next]_vars, ~CommitApply, ~\E i \in Ids : Revert(i)
  PROVE  /\ UNCHANGED <<calendar, audit>> /\ Committed' \subseteq Committed
         /\ LapsedDays' = LapsedDays \cup DaysOf(Committed \ Committed')
         /\ \A d \in SoundDays' : d \in SoundDays /\ StandingAudit(d)' = StandingAudit(d)
<1>1. UNCHANGED <<calendar, audit>> /\ Committed' \subseteq Committed
      /\ lapsed' = lapsed \cup (Committed \ Committed')
  BY OtherStatus
<1>2. {b \in audit' : b.batch \in lapsed'}
        = {b \in audit : b.batch \in lapsed} \cup {b \in audit : b.batch \in Committed \ Committed'}
  BY <1>1
<1>3. LapsedDays' = LapsedDays \cup DaysOf(Committed \ Committed')
  BY <1>2 DEF LapsedDays, DaysOf
<1>4. ASSUME NEW d \in SoundDays' PROVE d \in SoundDays /\ StandingAudit(d)' = StandingAudit(d)
  <2>1. d \in Days /\ d \notin LapsedDays /\ d \notin DaysOf(Committed \ Committed')
    BY <1>3, <1>4 DEF SoundDays
  <2>2. \A a \in audit : a.day = d => a.batch \notin Committed \ Committed'
    BY <2>1 DEF DaysOf
  <2>3. \A a \in audit : a.day = d => (a.batch \in Committed' <=> a.batch \in Committed)
    BY <1>1, <2>2
  <2>4. StandingAudit(d)' = StandingAudit(d)
    BY <1>1, <2>3 DEF StandingAudit
  <2> QED BY <2>1, <2>4 DEF SoundDays
<1> QED BY <1>1, <1>3, <1>4

LEMMA NextAudit ==
  ASSUME TypeInv, ChainInv, AuditedOnce, [Next]_vars
  PROVE  AuditedOnce'
<1> DEFINE Was == {"committed", "reverted", "expired", "discarded"}
<1>0. audit \subseteq AuditRecord /\ \A a \in audit : a.batch \in Ids /\ status[a.batch] \in Was
  BY DEF TypeInv, TypeOK, AuditedOnce
<1>1. CASE ~CommitApply /\ ~\E i \in Ids : Revert(i)
  <2>1. /\ audit' = audit
        /\ \A i \in Ids : \/ status'[i] = status[i]
                          \/ status[i] = "none" /\ status'[i] = "preview_ready"
                          \/ status[i] # "none" /\ status'[i] \in {"expired", "discarded"}
        /\ lapsed' = lapsed \cup (Committed \ Committed')
    BY <1>1, OtherStatus
  <2>2. \A a \in audit' : status'[a.batch] \in Was
    BY <1>0, <2>1
  <2>3. \A i \in lapsed' : status'[i] \in {"expired", "discarded"}
    <3>1. lapsed \subseteq Ids
      BY DEF TypeInv, TypeOK
    <3>2. \A i \in lapsed : status'[i] \in {"expired", "discarded"}
      BY <2>1, <3>1 DEF AuditedOnce
    <3>3. \A i \in Committed \ Committed' : status'[i] \in {"expired", "discarded"}
      BY <2>1 DEF Committed
    <3> QED BY <2>1, <3>2, <3>3
  <2> HIDE DEF Was
  <2>4. \A a, b \in audit' : a.batch = b.batch /\ a.day = b.day => a = b
    BY <2>1 DEF AuditedOnce
  <2> QED BY <2>2, <2>3, <2>4, NextRequest DEF AuditedOnce, Was
<1>2. CASE CommitApply
  <2> DEFINE i == committer.id
             changed == Distinct(sha[i], StagedRows(i, committer.sheets))
             entry(d) == [batch |-> i, day |-> d, old |-> calendar[d], new |-> Raw(sha[i], d)]
  <2>1. /\ audit' = audit \cup {entry(d) : d \in changed}
        /\ \A a \in audit : a.batch # i
        /\ i \in Ids /\ status' = [status EXCEPT ![i] = "committed"]
    BY <1>2, CommitWrites, StandingAfterCommit
  <2>2. \A d : entry(d).batch = i /\ entry(d).day = d
    OBVIOUS
  <2>3. \A j \in Ids : status'[j] = IF j = i THEN "committed" ELSE status[j]
    BY <2>1 DEF TypeInv, TypeOK
  <2>4. lapsed' = lapsed /\ i \notin lapsed /\ lapsed \subseteq Ids /\ committer'.op = "none"
    BY <1>2 DEF CommitApply, Free, importVars, AuditedOnce, TypeInv, TypeOK
  <2> HIDE DEF i, changed, entry
  <2>5. \A a \in audit' : status'[a.batch] \in Was
    BY <1>0, <2>1, <2>2, <2>3
  <2>6. \A a, b \in audit' : a.batch = b.batch /\ a.day = b.day => a = b
    BY <2>1, <2>2 DEF AuditedOnce
  <2>7. \A j \in lapsed' : status'[j] \in {"expired", "discarded"}
    BY <2>3, <2>4 DEF AuditedOnce
  <2> QED BY <2>4, <2>5, <2>6, <2>7 DEF AuditedOnce
<1>3. ASSUME NEW i \in Ids, Revert(i) PROVE AuditedOnce'
  <2>1. /\ UNCHANGED <<audit, lapsed, committer>> /\ committer.op = "none" /\ status[i] = "committed"
        /\ \A j \in Ids : status'[j] = IF j = i THEN "reverted" ELSE status[j]
        /\ lapsed \subseteq Ids
    BY <1>3 DEF Revert, NoCommitUnderWay, Free, importVars, TypeInv, TypeOK
  <2>2. \A a \in audit' : status'[a.batch] \in Was
    BY <1>0, <2>1
  <2>3. \A j \in lapsed' : status'[j] \in {"expired", "discarded"}
    BY <2>1 DEF AuditedOnce
  <2> QED BY <2>1, <2>2, <2>3 DEF AuditedOnce
<1> QED BY <1>1, <1>2, <1>3

LEMMA NextLedger == TypeInv /\ ChainInv /\ LedgerInv /\ [Next]_vars => LedgerInv'
<1> SUFFICES ASSUME TypeInv, ChainInv, LedgerInv, [Next]_vars PROVE LedgerInv'
  OBVIOUS
<1>1. AuditedOnce'
  BY NextAudit DEF LedgerInv
<1>2. ASSUME ~CommitApply, ~\E i \in Ids : Revert(i) PROVE Stacked'
  <2>1. /\ calendar' = calendar
        /\ \A d \in SoundDays' : d \in SoundDays /\ StandingAudit(d)' = StandingAudit(d)
    BY <1>2, LedgerFrame DEF LedgerInv
  <2>2. \A d : \A a \in StandingAudit(d) : a.day = d
    BY DEF StandingAudit
  <2>3. ASSUME NEW d \in SoundDays'
        PROVE  /\ LastWritten(StandingAudit(d), calendar[d])'
               /\ \A a \in StandingAudit(d)' : LastWritten(Earlier(a)', a.old)
    <3>1. StandingAudit(d)' = StandingAudit(d) /\ calendar'[d] = calendar[d] /\ d \in SoundDays
      BY <2>1, <2>3
    <3>2. \A a \in StandingAudit(d) : Earlier(a)' = Earlier(a)
      BY <2>2, <3>1 DEF Earlier
    <3> QED BY <3>1, <3>2 DEF LedgerInv, Stacked, LastWritten
  <2> QED BY <2>3 DEF Stacked
<1>3. Stacked'
  BY <1>2, CommitStacks, RevertStacks DEF LedgerInv
<1> QED BY <1>1, <1>3 DEF LedgerInv

LEMMA LedgerInvariance == Spec => [](TypeInv /\ ChainInv /\ LedgerInv)
<1>1. Init => ChainInv
  BY DEF Init, ChainInv, CommittedChain, Committed, Committing, Idle, Free
<1>2. Init => LedgerInv
  BY DEF Init, LedgerInv, AuditedOnce, Stacked, LastWritten, StandingAudit, SoundDays, Free
<1> QED BY <1>1, <1>2, TypeInit, NextType, NextChain, NextLedger, PTL DEF Spec

\* For any sequence of commits, reverts, discards, janitors and restarts: on
\* every day no lapsed import wrote, the calendar is what the committed imports
\* made it, and a revert never has to skip a day.
THEOREM RevertsAreExact == Spec => []RevertsExact
<1>1. TypeInv /\ LedgerInv => StoredByStandingImport
  <2>1. TypeInv => \A d \in Days : \A a \in StandingAudit(d) : a.new # NoRow
    BY MarkerAssumption DEF TypeInv, TypeOK, StandingAudit
  <2> QED BY <2>1 DEF LedgerInv, Stacked, SoundDays, LastWritten, StoredByStandingImport
<1>2. TypeInv /\ LedgerInv => RevertSkipsNothing
  <2> SUFFICES ASSUME TypeInv, LedgerInv, NEW i \in Committed, i \in TopOf(Committed),
                      NEW a \in audit, a.batch = i, a.day \notin LapsedDays
               PROVE  calendar[a.day] = a.new
    BY DEF RevertSkipsNothing
  <2>1. a \in StandingAudit(a.day) /\ a.day \in SoundDays
    BY DEF StandingAudit, SoundDays, TypeInv, TypeOK
  <2>2. PICK b \in StandingAudit(a.day) : b.new = calendar[a.day] /\ i <= b.batch
    BY <2>1 DEF LedgerInv, Stacked, LastWritten
  <2>3. b.batch \in Committed /\ b.batch <= i /\ i \in Int /\ b.batch \in Int
    BY BoundAssumption DEF TopOf, StandingAudit, Committed
  <2>4. b.batch = i
    BY <2>2, <2>3
  <2>5. a = b
    BY <2>4 DEF LedgerInv, AuditedOnce, StandingAudit
  <2> QED BY <2>2, <2>5
<1> QED BY <1>1, <1>2, LedgerInvariance, PTL DEF RevertsExact

----------------------------------------------------------------------------
(* The refinement of LeaveLedger                                           *)

LEMMA Smallest ==
  ASSUME NEW S, S \subseteq Nat, S # {}
  PROVE  \E m \in S : \A k \in S : m <= k
<1>1. PICK m \in S : \A k \in S : ~(<<k, m>> \in OpToRel(<, Nat))
  BY NatLessThanWellFounded, WFMin, Zenon
<1>2. \A k \in S : ~(k < m)
  BY <1>1 DEF OpToRel
<1> QED BY <1>2

\* Audit rows of different imports, as those of one day are.
ByBatch(rows) ==
  /\ \A a \in rows : a.batch \in Nat
  /\ \A a, b \in rows : a.batch = b.batch => a = b

LEMMA FirstExists ==
  ASSUME NEW rows, ByBatch(rows), rows # {}
  PROVE  First(rows) \in rows /\ \A b \in rows : First(rows).batch <= b.batch
<1> DEFINE batches == {a.batch : a \in rows}
<1>0. batches \subseteq Nat /\ batches # {}
  BY DEF ByBatch
<1>1. \E m \in batches : \A k \in batches : m <= k
  <2> HIDE DEF batches
  <2> QED BY <1>0, Smallest
<1>2. \E a \in rows : \A b \in rows : a.batch <= b.batch
  BY <1>1
<1> QED BY <1>2 DEF First

LEMMA FirstIs ==
  ASSUME NEW rows, ByBatch(rows), NEW r \in rows, \A b \in rows : r.batch <= b.batch
  PROVE  First(rows) = r
<1>1. First(rows) \in rows /\ First(rows).batch <= r.batch /\ r.batch <= First(rows).batch
  BY FirstExists
<1> QED BY <1>1 DEF ByBatch

\* Later rows do not change which is the first.
LEMMA FirstOfMore ==
  ASSUME NEW rows, NEW more, ByBatch(rows), ByBatch(more), rows \subseteq more, rows # {},
         \A a \in rows, b \in more \ rows : a.batch <= b.batch
  PROVE  First(more) = First(rows)
<1>1. First(rows) \in rows /\ \A b \in rows : First(rows).batch <= b.batch
  BY FirstExists
<1> QED BY <1>1, FirstIs

LEMMA StandingByBatch ==
  ASSUME TypeInv, AuditedOnce, NEW d \in Days
  PROVE  /\ ByBatch(StandingAudit(d)) /\ \A j : AuditSince(j, d) \subseteq StandingAudit(d)
         /\ \A a \in StandingAudit(d) : a.batch \in Committed
         /\ \A j : AuditSince(j, d) = {a \in StandingAudit(d) : a.batch >= j}
<1>1. \A a \in StandingAudit(d) : a.batch \in Nat
  BY BoundAssumption DEF StandingAudit, Committed
<1> QED BY <1>1 DEF StandingAudit, AuditSince, ByBatch, AuditedOnce

\* A commit adds what it found, and leaves what the others found.
LEMMA CommitKeepsBefore ==
  ASSUME TypeInv, ChainInv, LedgerInv, CommitApply, NEW i \in Ids, i = committer.id, NEW d \in Days
  PROVE  /\ CodeBefore(i, d)' = calendar[d]
         /\ \A j \in Committed : CodeBefore(j, d)' = CodeBefore(j, d)
<1> DEFINE changed == Distinct(sha[i], StagedRows(i, committer.sheets))
           e == [batch |-> i, day |-> d, old |-> calendar[d], new |-> Raw(sha[i], d)]
<1>1. /\ i \in Ids /\ \A j \in Committed : j < i
      /\ StandingAudit(d)' = IF d \in changed THEN StandingAudit(d) \cup {e} ELSE StandingAudit(d)
      /\ d \notin changed => calendar'[d] = calendar[d]
      /\ \A a \in StandingAudit(d) : a.batch \in Committed /\ a.batch # i
  BY CommitWrites, StandingAfterCommit, StandingByBatch DEF LedgerInv
<1>2. e.batch = i /\ e.day = d /\ e.old = calendar[d]
  OBVIOUS
<1>3. ByBatch(StandingAudit(d)) /\ \A j : AuditSince(j, d) = {a \in StandingAudit(d) : a.batch >= j}
  BY StandingByBatch DEF LedgerInv
<1>4. \A j : AuditSince(j, d)' = {a \in StandingAudit(d)' : a.batch >= j}
  BY DEF AuditSince, StandingAudit
<1>5. i \in Nat /\ \A j \in Committed : j \in Nat /\ j < i
  BY <1>1, BoundAssumption DEF Committed
<1> HIDE DEF changed, e
<1>6. AuditSince(i, d)' = IF d \in changed THEN {e} ELSE {}
  <2>1. \A a \in StandingAudit(d) : ~(a.batch >= i)
    BY <1>1, <1>5
  <2>2. e.batch >= i
    BY <1>2, <1>5
  <2>3. CASE d \in changed
    <3>1. StandingAudit(d)' = StandingAudit(d) \cup {e}
      BY <1>1, <2>3
    <3>2. {a \in StandingAudit(d)' : a.batch >= i} = {e}
      BY <2>1, <2>2, <3>1
    <3> QED BY <1>4, <2>3, <3>2
  <2>4. CASE d \notin changed
    <3>1. StandingAudit(d)' = StandingAudit(d)
      BY <1>1, <2>4
    <3>2. {a \in StandingAudit(d)' : a.batch >= i} = {}
      BY <2>1, <3>1
    <3> QED BY <1>4, <2>4, <3>2
  <2> QED BY <2>3, <2>4
<1>7. First({e}) = e
  BY <1>2, <1>5, FirstIs DEF ByBatch
<1>8. CodeBefore(i, d)' = calendar[d]
  BY <1>1, <1>2, <1>6, <1>7 DEF CodeBefore
<1>9. ASSUME NEW j \in Committed PROVE CodeBefore(j, d)' = CodeBefore(j, d)
  <2>1. AuditSince(j, d)' = IF d \in changed THEN AuditSince(j, d) \cup {e} ELSE AuditSince(j, d)
    <3>1. e.batch >= j
      BY <1>2, <1>5
    <3>2. CASE d \in changed
      <4>1. StandingAudit(d)' = StandingAudit(d) \cup {e}
        BY <1>1, <3>2
      <4>2. {a \in StandingAudit(d)' : a.batch >= j} = {a \in StandingAudit(d) : a.batch >= j} \cup {e}
        BY <3>1, <4>1
      <4> QED BY <1>3, <1>4, <3>2, <4>2
    <3>3. CASE d \notin changed
      <4>1. StandingAudit(d)' = StandingAudit(d)
        BY <1>1, <3>3
      <4> QED BY <1>3, <1>4, <3>3, <4>1
    <3> QED BY <3>2, <3>3
  <2>2. CASE d \notin changed
    BY <1>1, <2>1, <2>2 DEF CodeBefore
  <2>3. CASE d \in changed /\ AuditSince(j, d) = {}
    BY <1>2, <1>7, <2>1, <2>3 DEF CodeBefore
  <2>4. CASE d \in changed /\ AuditSince(j, d) # {}
    <3>1. ByBatch(AuditSince(j, d)) /\ ByBatch(AuditSince(j, d) \cup {e})
      BY <1>1, <1>2, <1>3, <1>5 DEF ByBatch
    <3>2. \A a \in AuditSince(j, d) : a.batch <= e.batch
      BY <1>1, <1>2, <1>3, <1>5
    <3>3. First(AuditSince(j, d) \cup {e}) = First(AuditSince(j, d))
      BY <2>4, <3>1, <3>2, FirstOfMore
    <3> QED BY <2>1, <2>4, <3>3 DEF CodeBefore
  <2> QED BY <2>2, <2>3, <2>4
<1> QED BY <1>8, <1>9

\* A revert brings back what its import found, and leaves what the others found.
LEMMA RevertKeepsBefore ==
  ASSUME TypeInv, LedgerInv, NEW i \in Ids, Revert(i), NEW d \in SoundDays
  PROVE  /\ calendar'[d] = CodeBefore(i, d)
         /\ \A j \in Committed \ {i} : CodeBefore(j, d)' = CodeBefore(j, d)
<1>1. /\ i \in Committed /\ \A j \in Committed : j <= i
      /\ StandingAudit(d)' = {a \in StandingAudit(d) : a.batch # i}
      /\ \/ (\A a \in StandingAudit(d) : a.batch # i) /\ calendar'[d] = calendar[d]
         \/ \E a \in StandingAudit(d) : a.batch = i /\ calendar'[d] = a.old
  BY StandingAfterRevert DEF LedgerInv, SoundDays
<1>2. /\ ByBatch(StandingAudit(d)) /\ \A j : AuditSince(j, d) = {a \in StandingAudit(d) : a.batch >= j}
      /\ \A a \in StandingAudit(d) : a.batch \in Committed
  BY StandingByBatch DEF LedgerInv, SoundDays
<1>3. \A j : AuditSince(j, d)' = {a \in StandingAudit(d)' : a.batch >= j}
  BY DEF AuditSince, StandingAudit
<1>4. \A j \in Committed : j \in Nat /\ j <= i /\ i \in Nat
  BY <1>1, BoundAssumption DEF Committed
<1>5. CASE \A a \in StandingAudit(d) : a.batch # i
  <2>1. calendar'[d] = calendar[d]
    BY <1>1, <1>5
  <2>2. {a \in StandingAudit(d) : a.batch # i} = StandingAudit(d)
    BY <1>5
  <2>3. \A j : AuditSince(j, d)' = AuditSince(j, d)
    BY <1>1, <1>2, <1>3, <2>2
  <2>4. AuditSince(i, d) = {}
    BY <1>2, <1>4, <1>5
  <2> QED BY <2>1, <2>3, <2>4 DEF CodeBefore
<1>6. CASE \E a \in StandingAudit(d) : a.batch = i /\ calendar'[d] = a.old
  <2>1. PICK r \in StandingAudit(d) : r.batch = i /\ calendar'[d] = r.old
    BY <1>6
  <2>2. AuditSince(i, d) = {r}
    BY <1>2, <1>4, <2>1 DEF ByBatch
  <2>3. First({r}) = r
    BY <1>4, <2>1, FirstIs DEF ByBatch
  <2>4. calendar'[d] = CodeBefore(i, d)
    BY <2>1, <2>2, <2>3 DEF CodeBefore
  <2>5. ASSUME NEW j \in Committed \ {i} PROVE CodeBefore(j, d)' = CodeBefore(j, d)
    <3>1. AuditSince(j, d) = AuditSince(j, d)' \cup {r} /\ r \notin AuditSince(j, d)'
      BY <1>1, <1>2, <1>3, <1>4, <2>1 DEF ByBatch
    <3>2. CASE AuditSince(j, d)' = {}
      BY <2>1, <2>3, <3>1, <3>2 DEF CodeBefore
    <3>3. CASE AuditSince(j, d)' # {}
      <4>1. ByBatch(AuditSince(j, d)) /\ ByBatch(AuditSince(j, d)')
        BY <1>2, <3>1 DEF ByBatch
      <4>2. \A a \in AuditSince(j, d)' : a.batch <= r.batch
        BY <1>1, <1>2, <1>3, <1>4, <2>1
      <4>3. First(AuditSince(j, d)) = First(AuditSince(j, d)')
        BY <3>1, <3>3, <4>1, <4>2, FirstOfMore
      <4> QED BY <3>1, <3>3, <4>3 DEF CodeBefore
    <3> QED BY <3>2, <3>3
  <2> QED BY <2>4, <2>5
<1> QED BY <1>1, <1>5, <1>6

\* What each standing batch found, and the days it wrote.
Undo == [i \in Committed |-> [d \in SoundDays |-> CodeBefore(i, d)]]
Wrote == [i \in Committed |-> AuditedDays(i)]

\* The days that a commit writes are those it audits.
LEMMA CommitAuditsDays ==
  ASSUME TypeInv, ChainInv, AuditedOnce, CommitApply, NEW i \in Ids, i = committer.id
  PROVE  /\ AuditedDays(i)' = {d \in Days : calendar'[d] # calendar[d]}
         /\ \A j \in Committed : AuditedDays(j)' = AuditedDays(j)
<1> DEFINE changed == Distinct(sha[i], StagedRows(i, committer.sheets))
           entry(d) == [batch |-> i, day |-> d, old |-> calendar[d], new |-> Raw(sha[i], d)]
<1>1. /\ audit' = audit \cup {entry(d) : d \in changed} /\ \A a \in audit : a.batch # i
      /\ changed \subseteq Days /\ i \notin Committed
  BY CommitWrites, StandingAfterCommit, BoundAssumption DEF Distinct, AuditedOnce, CommitApply, Committed
<1>2. \A d \in Days : calendar'[d] # calendar[d] <=> d \in changed
  BY CommitWrites DEF Distinct
<1>3. \A d : entry(d).batch = i /\ entry(d).day = d
  OBVIOUS
<1> HIDE DEF changed, entry
<1>4. \A d \in Days : (\E a \in audit' : a.batch = i /\ a.day = d) <=> d \in changed
  BY <1>1, <1>3
<1>5. \A j \in Committed : \A d \in Days :
        (\E a \in audit' : a.batch = j /\ a.day = d) <=> (\E a \in audit : a.batch = j /\ a.day = d)
  BY <1>1, <1>3
<1> QED BY <1>2, <1>4, <1>5 DEF AuditedDays

LEMMA CommitIsBatch ==
  ASSUME TypeInv, ChainInv, LedgerInv, TypeInv', CommitApply
  PROVE  \E i \in Ids : Ledger!Commit(i)
<1>0. PICK i \in Ids : i = committer.id
  BY CommitWrites
<1>1. /\ Committed' = Committed \cup {i} /\ \A j \in Committed : j < i
      /\ calendar' \in [Days -> Codes \cup {NoRow}]
      /\ LapsedDays' = LapsedDays
  BY <1>0, CommitWrites, StandingAfterCommit DEF LedgerInv, TypeInv, TypeOK
<1>2. \A d \in Days : calendar[d] # NoRow => calendar'[d] # NoRow
  BY CommitWrites, MarkerAssumption DEF Distinct
<1>3. \A d \in Days : /\ CodeBefore(i, d)' = calendar[d]
                      /\ \A j \in Committed : CodeBefore(j, d)' = CodeBefore(j, d)
  BY <1>0, CommitKeepsBefore
<1>4. SoundDays' = SoundDays /\ SoundDays \subseteq Days
  BY <1>1 DEF SoundDays
<1>5. ASSUME NEW j \in Committed \cup {i}
      PROVE  [d \in SoundDays |-> CodeBefore(j, d)'] = IF j = i THEN [d \in SoundDays |-> calendar[d]] ELSE Undo[j]
  <2>1. CASE j = i
    BY <1>3, <1>4, <2>1
  <2>2. CASE j # i
    <3>1. j \in Committed /\ \A d \in SoundDays : CodeBefore(j, d)' = CodeBefore(j, d)
      BY <1>3, <1>4, <2>2
    <3> QED BY <2>2, <3>1 DEF Undo
  <2> QED BY <2>1, <2>2
<1>6. Undo' = [j \in DOMAIN Undo \cup {i} |-> IF j = i THEN [d \in SoundDays |-> calendar[d]] ELSE Undo[j]]
  BY <1>1, <1>4, <1>5 DEF Undo
<1>7. /\ AuditedDays(i)' = {d \in Days : calendar'[d] # calendar[d]}
      /\ \A j \in Committed : AuditedDays(j)' = AuditedDays(j)
  BY <1>0, CommitAuditsDays DEF LedgerInv
<1>8. Wrote' = [j \in DOMAIN Undo \cup {i} |->
                  IF j = i THEN {d \in Days : calendar'[d] # calendar[d]} ELSE Wrote[j]]
  BY <1>1, <1>7 DEF Undo, Wrote
<1> QED BY <1>1, <1>2, <1>6, <1>8 DEF Ledger!Commit, Ledger!Rest, Undo, Wrote, SoundDays

LEMMA RevertIsUndo ==
  ASSUME TypeInv, LedgerInv, TypeInv', NEW i \in Ids, Revert(i)
  PROVE  Ledger!Revert(i)
<1>1. /\ i \in Committed /\ Committed' = Committed \ {i} /\ \A j \in Committed : j <= i
      /\ LapsedDays' = LapsedDays /\ calendar' \in [Days -> Codes \cup {NoRow}]
  BY StandingAfterRevert DEF LedgerInv, TypeInv, TypeOK
<1>2. \A d \in SoundDays : /\ calendar'[d] = CodeBefore(i, d)
                           /\ \A j \in Committed \ {i} : CodeBefore(j, d)' = CodeBefore(j, d)
  BY RevertKeepsBefore
<1>3. SoundDays' = SoundDays
  BY <1>1 DEF SoundDays
<1>4. \A d \in SoundDays : calendar'[d] = Undo[i][d]
  BY <1>1, <1>2 DEF Undo
<1>5. Undo' = [j \in DOMAIN Undo \ {i} |-> Undo[j]]
  BY <1>1, <1>2, <1>3 DEF Undo
<1>6. Wrote' = [j \in DOMAIN Undo \ {i} |-> Wrote[j]]
  <2>1. audit' = audit
    BY DEF Revert
  <2> QED BY <1>1, <2>1 DEF Undo, Wrote, AuditedDays
<1>7. \A d \in LapsedDays : calendar'[d] # calendar[d] => d \in Wrote[i]
  <2>1. LapsedDays \subseteq Days
    BY DEF LapsedDays, TypeInv, TypeOK
  <2>2. \A d \in Days : calendar'[d] # calendar[d] => \E a \in audit : a.batch = i /\ a.day = d
    BY RevertWrites DEF Restorable
  <2> QED BY <1>1, <2>1, <2>2 DEF Wrote, AuditedDays
<1>8. i \in DOMAIN Undo /\ \A j \in DOMAIN Undo : j <= i
  BY <1>1 DEF Undo
<1> QED BY <1>1, <1>4, <1>5, <1>6, <1>7, <1>8 DEF Ledger!Revert, Ledger!Rest, Undo, Wrote, SoundDays

\* A janitor that expires committed imports makes their batches lapse; other
\* steps leave the ledger alone.
LEMMA OthersLapse ==
  ASSUME TypeInv, ChainInv, LedgerInv, [Next]_vars, ~CommitApply, ~\E i \in Ids : Revert(i)
  PROVE  (\E S \in SUBSET Ids : Ledger!Lapse(S)) \/ UNCHANGED Ledger!ledgerState
<1> DEFINE S == Committed \ Committed'
<1>1. /\ UNCHANGED <<calendar, audit>> /\ Committed' \subseteq Committed
      /\ LapsedDays' = LapsedDays \cup DaysOf(S)
      /\ \A d \in SoundDays' : d \in SoundDays /\ StandingAudit(d)' = StandingAudit(d)
  BY LedgerFrame DEF LedgerInv
<1>2. \A j : \A d \in SoundDays' : CodeBefore(j, d)' = CodeBefore(j, d)
  <2>1. \A j : \A d \in SoundDays' : AuditSince(j, d)' = AuditSince(j, d)
    <3>1. \A j, d : AuditSince(j, d) = {a \in StandingAudit(d) : a.batch >= j}
      BY DEF AuditSince, StandingAudit
    <3>2. \A j, d : AuditSince(j, d)' = {a \in StandingAudit(d)' : a.batch >= j}
      BY DEF AuditSince, StandingAudit
    <3> QED BY <1>1, <3>1, <3>2
  <2> QED BY <1>1, <2>1 DEF CodeBefore
<1>3. Committed' = Committed \ S /\ S \subseteq Committed /\ S \in SUBSET Ids
  BY <1>1 DEF Committed
<1>4. UNION {Wrote[i] : i \in S} = DaysOf(S)
  <2>1. \A i \in S : Wrote[i] = AuditedDays(i)
    BY <1>3 DEF Wrote
  <2>2. {Wrote[i] : i \in S} = {AuditedDays(i) : i \in S}
    BY <2>1
  <2>3. UNION {AuditedDays(i) : i \in S} = DaysOf(S)
    <3>1. \A a \in audit : a.day \in Days
      BY DEF TypeInv, TypeOK
    <3> HIDE DEF S
    <3> QED BY <3>1 DEF AuditedDays, DaysOf
  <2> QED BY <2>2, <2>3
<1> HIDE DEF S
<1>5. Undo' = [j \in DOMAIN Undo \ S |-> [d \in SoundDays' |-> Undo[j][d]]]
  <2>1. \A j \in Committed : \A d \in SoundDays' : CodeBefore(j, d)' = Undo[j][d]
    BY <1>1, <1>2 DEF Undo
  <2> QED BY <1>3, <2>1 DEF Undo
<1>6. Wrote' = [j \in DOMAIN Undo \ S |-> Wrote[j]]
  BY <1>1, <1>3 DEF Undo, Wrote, AuditedDays
<1>7. CASE S = {}
  <2>1. Committed' = Committed /\ SoundDays' = SoundDays /\ LapsedDays' = LapsedDays
    BY <1>1, <1>3, <1>7 DEF DaysOf, SoundDays
  <2>2. Undo' = Undo /\ Wrote' = Wrote
    BY <1>1, <1>2, <2>1 DEF Undo, Wrote, AuditedDays
  <2> QED BY <1>1, <2>1, <2>2 DEF Ledger!ledgerState, Undo, Wrote, SoundDays
<1>8. CASE S # {}
  <2>1. S \subseteq DOMAIN Undo
    BY <1>3 DEF Undo
  <2>2. LapsedDays' = LapsedDays \cup UNION {Wrote[i] : i \in S}
    BY <1>1, <1>4
  <2>3. Ledger!Lapse(S)
    BY <1>1, <1>5, <1>6, <1>8, <2>1, <2>2 DEF Ledger!Lapse, Ledger!Rest, Undo, Wrote, SoundDays
  <2> QED BY <1>3, <2>3
<1> QED BY <1>7, <1>8

\* The service implements the ledger: whatever uploads, janitors, failures and
\* restarts interleave, the calendar changes by whole batches and by reverts of
\* the last one standing, exact on every day that no lapsed batch wrote.
THEOREM ImplementsLeaveLedger == Spec => ImplementsLedger
<1>1. Init => Ledger!Init
  <2>1. Init => Committed = {} /\ LapsedDays = {}
    BY DEF Init, Committed, LapsedDays
  <2>2. Init => calendar = [d \in Days |-> NoRow]
    BY DEF Init
  <2> QED BY <2>1, <2>2 DEF Ledger!Init
<1>2. TypeInv /\ ChainInv /\ LedgerInv /\ TypeInv' /\ [Next]_vars => [Ledger!Next]_(Ledger!ledgerState)
  <2> SUFFICES ASSUME TypeInv, ChainInv, LedgerInv, TypeInv', [Next]_vars
               PROVE  [Ledger!Next]_(Ledger!ledgerState)
    OBVIOUS
  <2>1. CASE CommitApply \/ \E i \in Ids : Revert(i)
    BY <2>1, CommitIsBatch, RevertIsUndo DEF Ledger!Next
  <2>2. CASE ~CommitApply /\ ~\E i \in Ids : Revert(i)
    BY <2>2, OthersLapse DEF Ledger!Next
  <2> QED BY <2>1, <2>2
<1> QED BY <1>1, <1>2, LedgerInvariance, PTL DEF Spec, ImplementsLedger, Ledger!Spec

----------------------------------------------------------------------------
(* LeaveCalendar: the columns derived from the codes                       *)

ReprocessStep(r) ==
  ReprocessLoadsMap(r) \/ ReprocessReads(r) \/ ReprocessWrites(r) \/ ReprocessFails(r)

\* Steps of the calendar are steps of the import service, or leave it alone.
LEMMA CalendarSteps == [CalendarNext]_calendarVars => [Next]_vars
<1> SUFFICES ASSUME [CalendarNext]_calendarVars PROVE [Next]_vars
  OBVIOUS
<1>1. CASE \E u \in Uploaders : UploadLoadsMap(u) \/ UploadStagesRows(u)
  BY <1>1 DEF UploadLoadsMap, UploadStagesRows, Next, UploadStep
<1>2. CASE CommitCopiesDerived
  BY <1>2 DEF CommitCopiesDerived, Next, CommitStep
<1>3. CASE \E i \in Ids : RevertRederives(i)
  BY <1>3 DEF RevertRederives, Next
<1>4. CASE \/ \E code \in BaseCodes, kind \in Kinds : PutType(code, kind)
           \/ \E r \in Reprocessors : ReprocessStep(r)
  BY <1>4 DEF PutType, ReprocessStep, ReprocessLoadsMap, ReprocessReads, ReprocessWrites, ReprocessFails
<1>5. CASE OtherImportStep
  BY <1>5 DEF OtherImportStep, Next, UploadStep, CommitStep
<1>6. CASE RestartAll
  BY <1>6 DEF RestartAll, Next
<1>7. CASE UNCHANGED calendarVars
  BY <1>7 DEF calendarVars
<1> QED BY <1>1, <1>2, <1>3, <1>4, <1>5, <1>6, <1>7 DEF CalendarNext, ReprocessStep

\* The calendar with its derived columns implements the import service: code
\* map and reprocess take nothing away from what the service keeps.
THEOREM CalendarImplementsImport == CalendarSpec => Spec
<1>1. CalendarInit => Init
  BY DEF CalendarInit
<1> QED BY <1>1, CalendarSteps, PTL DEF CalendarSpec, Spec

\* Every map that somebody derives with was a state of leave_code_map.
MapsInv ==
  /\ codeMap \in Maps
  /\ parsedWith \in [Uploaders -> Maps] /\ stagedWith \in [Ids -> Maps]
  /\ DOMAIN reprocess = Reprocessors
  /\ \A r \in Reprocessors : reprocess[r].map \in Maps

\* Maps that are forgotten leave maps.
LEMMA MapsForgotten ==
  ASSUME MapsInv, MapsKept, codeMap' = codeMap,
         reprocess' = reprocess \/ reprocess' = [r \in Reprocessors |-> NoReprocess]
  PROVE  MapsInv'
<1>1. InitialMap \in Maps
  BY MapAssumption DEF Maps
<1>2. parsedWith' \in [Uploaders -> Maps] /\ stagedWith' \in [Ids -> Maps]
  BY <1>1 DEF MapsInv, MapsKept
<1>3. DOMAIN reprocess' = Reprocessors /\ \A r \in Reprocessors : reprocess'[r].map \in Maps
  BY <1>1 DEF MapsInv, NoReprocess
<1>4. codeMap' \in Maps
  BY DEF MapsInv
<1> QED BY <1>2, <1>3, <1>4 DEF MapsInv

LEMMA NextMaps == TypeInv /\ MapsInv /\ [CalendarNext]_calendarVars => MapsInv'
<1> SUFFICES ASSUME TypeInv, MapsInv, [CalendarNext]_calendarVars PROVE MapsInv'
  OBVIOUS
<1>1. InitialMap \in Maps
  BY MapAssumption DEF Maps
<1>2. ASSUME NEW u \in Uploaders, UploadLoadsMap(u) PROVE MapsInv'
  BY <1>2 DEF UploadLoadsMap, MapsInv
<1>3. ASSUME NEW u \in Uploaders, UploadStagesRows(u) PROVE MapsInv'
  <2>1. parsedWith' \in [Uploaders -> Maps]
    BY <1>1, <1>3 DEF UploadStagesRows, MapsInv
  <2>2. stagedWith' \in [Ids -> Maps]
    BY <1>1, <1>3 DEF UploadStagesRows, MapsInv
  <2> QED BY <1>3, <2>1, <2>2 DEF UploadStagesRows, MapsInv
<1>4. CASE CommitCopiesDerived
  BY <1>4, MapsForgotten DEF CommitCopiesDerived
<1>5. CASE \E i \in Ids : RevertRederives(i)
  BY <1>5 DEF RevertRederives, MapsInv
<1>6. ASSUME NEW code \in BaseCodes, NEW kind \in Kinds, PutType(code, kind) PROVE MapsInv'
  <2>1. codeMap' \in Maps
    <3>1. PICK D \in SUBSET BaseCodes : codeMap \in [D -> Kinds]
      BY DEF MapsInv, Maps
    <3>2. codeMap' \in [D \cup {code} -> Kinds]
      BY <1>6, <3>1 DEF PutType
    <3>3. D \cup {code} \in SUBSET BaseCodes
      OBVIOUS
    <3> QED BY <3>2, <3>3 DEF Maps
  <2> QED BY <1>6, <2>1 DEF PutType, MapsInv
<1>7. ASSUME NEW r \in Reprocessors, ReprocessStep(r) PROVE MapsInv'
  <2>1. UNCHANGED <<codeMap, parsedWith, stagedWith>>
    BY <1>7 DEF ReprocessStep, ReprocessLoadsMap, ReprocessReads, ReprocessWrites, ReprocessFails
  <2>2. PICK entry : reprocess' = [reprocess EXCEPT ![r] = entry] /\ entry.map \in Maps
    <3>1. CASE ReprocessLoadsMap(r)
      <4> DEFINE got == [pc |-> "loaded", map |-> codeMap, rows |-> {}]
      <4>1. reprocess' = [reprocess EXCEPT ![r] = got] /\ got.map \in Maps
        BY <3>1 DEF ReprocessLoadsMap, MapsInv
      <4> HIDE DEF got
      <4> QED BY <4>1
    <3>2. CASE ReprocessReads(r)
      <4> DEFINE found == {[day |-> d, raw |-> calendar[d], old |-> derived[d]] : d \in StoredDays(calendar)}
                 got == [pc |-> "read", map |-> reprocess[r].map, rows |-> found]
      <4>1. reprocess' = [reprocess EXCEPT ![r] = got] /\ got.map \in Maps
        BY <3>2 DEF ReprocessReads, MapsInv
      <4> HIDE DEF got
      <4> QED BY <4>1
    <3>3. CASE ReprocessWrites(r) \/ ReprocessFails(r)
      <4>1. reprocess' = [reprocess EXCEPT ![r] = NoReprocess] /\ NoReprocess.map \in Maps
        BY <1>1, <3>3 DEF ReprocessWrites, ReprocessFails, NoReprocess
      <4> QED BY <4>1
    <3> QED BY <1>7, <3>1, <3>2, <3>3 DEF ReprocessStep
  <2> QED BY <2>1, <2>2 DEF MapsInv
<1>8. CASE OtherImportStep
  BY <1>8, MapsForgotten DEF OtherImportStep
<1>9. CASE RestartAll
  BY <1>9, MapsForgotten DEF RestartAll
<1>10. CASE UNCHANGED calendarVars
  BY <1>10 DEF calendarVars, derivedVars, MapsInv
<1> QED BY <1>2, <1>3, <1>4, <1>5, <1>6, <1>7, <1>8, <1>9, <1>10 DEF CalendarNext, ReprocessStep

\* A day keeps a derivation of its own code, except under a stale reprocess.
LEMMA OwnCodeKept ==
  ASSUME TypeInv, MapsInv, [CalendarNext]_calendarVars, NEW d \in Days, OwnCode(d), ~OwnCode(d)'
  PROVE  \E r \in Reprocessors :
           ReprocessWrites(r) /\ \E row \in Rewrites(r) : row.day = d /\ row.raw # calendar[d]
<1>1. calendar'[d] # NoRow /\ \A map \in Maps : derived'[d] # DeriveDay(calendar'[d], map)
  BY DEF OwnCode
<1>2. ~(calendar'[d] = calendar[d] /\ derived'[d] = derived[d])
  BY <1>1 DEF OwnCode
<1>3. CASE \E u \in Uploaders : UploadLoadsMap(u) \/ UploadStagesRows(u)
  BY <1>2, <1>3 DEF UploadLoadsMap, UploadStagesRows, FindLive, PublishPreview, ledgerVars
<1>4. CASE CommitCopiesDerived
  <2> DEFINE i == committer.id
             written == Upserted(sha[i], StagedRows(i, committer.sheets))
  <2>1. i \in Ids /\ stagedWith[i] \in Maps
    BY <1>4 DEF CommitCopiesDerived, CommitApply, TypeInv, RefsOK, MapsInv
  <2>2. derived'[d] = IF d \in written THEN DeriveDay(Raw(sha[i], d), stagedWith[i]) ELSE derived[d]
    BY <1>4 DEF CommitCopiesDerived
  <2>3. calendar'[d] = IF d \in written THEN Raw(sha[i], d) ELSE calendar[d]
    BY <1>4 DEF CommitCopiesDerived, CommitApply
  <2> HIDE DEF written
  <2> QED BY <1>1, <1>2, <2>1, <2>2, <2>3
<1>5. CASE \E i \in Ids : RevertRederives(i)
  <2>1. derived'[d] = DerivedAfterRevert(d)
    BY <1>5 DEF RevertRederives
  <2> QED BY <1>1, <1>2, <2>1 DEF DerivedAfterRevert, MapsInv
<1>6. CASE \E code \in BaseCodes, kind \in Kinds : PutType(code, kind)
  BY <1>2, <1>6 DEF PutType, vars, ledgerVars
<1>7. ASSUME NEW r \in Reprocessors, ReprocessLoadsMap(r) \/ ReprocessReads(r) \/ ReprocessFails(r)
      PROVE  FALSE
  BY <1>2, <1>7 DEF ReprocessLoadsMap, ReprocessReads, ReprocessFails, vars, ledgerVars
<1>8. ASSUME NEW r \in Reprocessors, ReprocessWrites(r)
      PROVE  \E row \in Rewrites(r) : row.day = d /\ row.raw # calendar[d]
  <2> DEFINE chosen == CHOOSE row \in Rewrites(r) : row.day = d
  <2>1. calendar' = calendar
    BY <1>8 DEF ReprocessWrites, vars, ledgerVars
  <2>2. derived'[d] = IF calendar[d] # NoRow /\ \E row \in Rewrites(r) : row.day = d
                      THEN DeriveDay(chosen.raw, reprocess[r].map) ELSE derived[d]
    BY <1>8 DEF ReprocessWrites
  <2>3. \E row \in Rewrites(r) : row.day = d
    BY <1>2, <2>1, <2>2
  <2>4. chosen \in Rewrites(r) /\ chosen.day = d
    BY <2>3
  <2> HIDE DEF chosen
  <2>5. derived'[d] = DeriveDay(chosen.raw, reprocess[r].map) /\ reprocess[r].map \in Maps
    BY <1>1, <2>1, <2>2, <2>3 DEF MapsInv
  <2>6. chosen.raw # calendar[d]
    BY <1>1, <2>1, <2>5
  <2> QED BY <2>4, <2>6
<1>9. CASE OtherImportStep
  <2>1. derived' = derived
    BY <1>9 DEF OtherImportStep, derivedVars
  <2>2. calendar' = calendar
    BY <1>9, CommitOnlyReads
       DEF OtherImportStep, JanitorSelect, JanitorDeletes, JanitorUpdates, CreateImport, UploadFails,
           CommitMarksExpired, Discard, TimePasses, ledgerVars
  <2> QED BY <1>2, <2>1, <2>2
<1>10. CASE RestartAll
  BY <1>2, <1>10 DEF RestartAll, Restart, ledgerVars
<1>11. CASE UNCHANGED calendarVars
  BY <1>2, <1>11 DEF calendarVars, vars, ledgerVars, derivedVars
<1> QED BY <1>3, <1>4, <1>5, <1>6, <1>7, <1>8, <1>9, <1>10, <1>11 DEF CalendarNext

\* For every code map, workbook and number of requests: kind, leave_code,
\* fraction and presence of a day are those of its own raw code, and only a
\* reprocess that read the day with another code takes them away from it.
THEOREM OnlyStaleRewrites == CalendarSpec => StaleRewritesOnly
<1>1. CalendarInit => TypeInv /\ MapsInv
  <2>1. CalendarInit => TypeInv
    BY TypeInit DEF CalendarInit
  <2>2. CalendarInit => MapsInv
    BY MapAssumption DEF CalendarInit, MapsInv, Maps, NoReprocess
  <2> QED BY <2>1, <2>2
<1>2. TypeInv /\ MapsInv /\ [CalendarNext]_calendarVars => (TypeInv /\ MapsInv)'
  BY NextType, NextMaps, CalendarSteps
<1>3. TypeInv /\ MapsInv /\ [CalendarNext]_calendarVars
      => [ \A d \in Days :
             OwnCode(d) /\ ~OwnCode(d)'
             => \E r \in Reprocessors :
                  ReprocessWrites(r) /\ \E row \in Rewrites(r) : row.day = d /\ row.raw # calendar[d]
         ]_calendarVars
  BY OwnCodeKept
<1> QED BY <1>1, <1>2, <1>3, PTL DEF CalendarSpec, StaleRewritesOnly
=============================================================================
