--------------------------- MODULE LeaveCalendar ---------------------------
(***************************************************************************)
(* The columns of calendar_day that are derived from raw_code (kind,       *)
(* leave_code, fraction, zoho_presence), the code map they are derived     *)
(* with, and POST /leave/reprocess, on top of LeaveImport: an upload       *)
(* derives its rows with the map it loaded, a commit copies them, a revert *)
(* derives the restored code with the map of that moment, and a reprocess  *)
(* reads the whole table and then writes what differs, row by row, with no *)
(* lock in between (api/app/leave/parsing.py, api/app/leave/service.py).   *)
(* Raw codes are parsed cells: sequences of components X or X/Y.           *)
(***************************************************************************)
EXTENDS LeaveImport, Sequences

CONSTANTS
  BaseCodes,      \* codes an administrator may put in leave_code_map
  Kinds,          \* VALID_KINDS
  InitialMap,     \* the seeded map: its active codes and their kinds
  Reprocessors,   \* reprocess requests that can be in flight at once
  NoCode

VARIABLES
  codeMap,        \* the active rows of leave_code_map
  derived,        \* the derived columns of calendar_day, by day
  parsedWith,     \* the map each upload in flight has loaded
  stagedWith,     \* the map the staged rows of an import were derived with
  reprocess       \* reprocess transactions in flight: what they have read

ASSUME MapAssumption == InitialMap \in UNION {[D -> Kinds] : D \in SUBSET BaseCodes}

derivedVars == <<codeMap, derived, parsedWith, stagedWith, reprocess>>
calendarVars == <<vars, derivedVars>>

\* What leave_code_map may hold: rows are added and changed, never deactivated.
Maps == UNION {[D -> Kinds] : D \in SUBSET BaseCodes}

Component(cell, n) == cell[n].base
Unknown == [kind |-> "unknown", leave_code |-> NoCode, half |-> FALSE, presence |-> "null"]

\* X/Y stands for a day of kind X with a presence half Y.
WellFormed(cell) ==
  /\ Len(cell) \in {1, 2}
  /\ Len(cell) = 2 => Component(cell, 2) \in {"P", "A"}

Presence(letter) == CASE letter = "P" -> "true" [] letter = "A" -> "false" [] OTHER -> "null"

\* derive_day: what a cell means under a code map.
DeriveDay(cell, map) ==
  IF ~WellFormed(cell) \/ Component(cell, 1) \notin DOMAIN map THEN Unknown
  ELSE [kind |-> map[Component(cell, 1)],
        leave_code |-> IF map[Component(cell, 1)] = "leave" THEN Component(cell, 1) ELSE NoCode,
        half |-> \E n \in 1 .. Len(cell) : cell[n].half,
        presence |-> Presence(Component(cell, Len(cell)))]

NoReprocess == [pc |-> "idle", map |-> InitialMap, rows |-> {}]

CalendarInit ==
  /\ Init
  /\ codeMap = InitialMap
  /\ derived = [d \in Days |-> Unknown]
  /\ parsedWith = [u \in Uploaders |-> InitialMap]
  /\ stagedWith = [i \in Ids |-> InitialMap]
  /\ reprocess = [r \in Reprocessors |-> NoReprocess]

----------------------------------------------------------------------------
\* A map goes with the upload that loaded it, and with the rows staged with it.
MapsKept ==
  /\ parsedWith' = [u \in Uploaders |-> IF uploads'[u].pc = "idle" THEN InitialMap ELSE parsedWith[u]]
  /\ stagedWith' = [i \in Ids |-> IF i \in staging' THEN stagedWith[i] ELSE InitialMap]

\* load_code_map and parse_leave_workbook, unless the file turns out to be live.
UploadLoadsMap(u) ==
  /\ FindLive(u)
  /\ parsedWith' = IF uploads'[u].pc = "parsing" THEN [parsedWith EXCEPT ![u] = codeMap] ELSE parsedWith
  /\ UNCHANGED <<codeMap, derived, stagedWith, reprocess>>

UploadStagesRows(u) ==
  /\ PublishPreview(u)
  /\ stagedWith' = [i \in Ids |-> IF i = uploads[u].id THEN parsedWith[u]
                                 ELSE IF i \in staging' THEN stagedWith[i] ELSE InitialMap]
  /\ parsedWith' = [parsedWith EXCEPT ![u] = InitialMap]
  /\ UNCHANGED <<codeMap, derived, reprocess>>

\* The upsert copies kind, leave_code, fraction and zoho_presence from staging
\* for the rows whose raw_code is distinct.
CommitCopiesDerived ==
  LET i == committer.id
      written == Upserted(sha[i], StagedRows(i, committer.sheets)) IN
  /\ CommitApply
  /\ derived' = [d \in Days |-> IF d \in written
                                THEN DeriveDay(Raw(sha[i], d), stagedWith[i]) ELSE derived[d]]
  /\ MapsKept
  /\ UNCHANGED <<codeMap, reprocess>>

WrongDerivedAfterRevert(d) == derived[d]

\* A restored row is derived again, with today's map; a deleted row has nothing.
DerivedAfterRevert(d) ==
  IF calendar'[d] = NoRow THEN Unknown
  ELSE IF calendar'[d] # calendar[d] THEN DeriveDay(calendar'[d], codeMap)
  ELSE derived[d]

RevertRederives(i) ==
  /\ Revert(i)
  /\ derived' = [d \in Days |-> DerivedAfterRevert(d)]
  /\ UNCHANGED <<codeMap, parsedWith, stagedWith, reprocess>>

\* PUT /leave/types adds a code or gives it another kind; no row is derived again.
PutType(code, kind) ==
  /\ codeMap' = [c \in DOMAIN codeMap \cup {code} |-> IF c = code THEN kind ELSE codeMap[c]]
  /\ UNCHANGED <<vars, derived, parsedWith, stagedWith, reprocess>>

\* reprocess_calendar loads the map ...
ReprocessLoadsMap(r) ==
  /\ reprocess[r].pc = "idle"
  /\ reprocess' = [reprocess EXCEPT ![r] = [pc |-> "loaded", map |-> codeMap, rows |-> {}]]
  /\ UNCHANGED <<vars, codeMap, derived, parsedWith, stagedWith>>

\* ... selects every row, with a snapshot of its own ...
ReprocessReads(r) ==
  /\ reprocess[r].pc = "loaded"
  /\ reprocess' = [reprocess EXCEPT ![r] =
       [pc |-> "read", map |-> reprocess[r].map,
        rows |-> {[day |-> d, raw |-> calendar[d], old |-> derived[d]] : d \in StoredDays(calendar)}]]
  /\ UNCHANGED <<vars, codeMap, derived, parsedWith, stagedWith>>

WrongRewrites(r) ==
  {row \in reprocess[r].rows : row.old.kind # DeriveDay(row.raw, reprocess[r].map).kind}

\* The rows of a reprocess whose derived columns were not what its map says.
Rewrites(r) == {row \in reprocess[r].rows : row.old # DeriveDay(row.raw, reprocess[r].map)}

\* ... then UPDATEs, by key, those rows (if they still exist), and commits.
ReprocessWrites(r) ==
  /\ reprocess[r].pc = "read"
  /\ derived' = [d \in Days |->
       IF calendar[d] # NoRow /\ \E row \in Rewrites(r) : row.day = d
       THEN DeriveDay((CHOOSE row \in Rewrites(r) : row.day = d).raw, reprocess[r].map)
       ELSE derived[d]]
  /\ reprocess' = [reprocess EXCEPT ![r] = NoReprocess]
  /\ UNCHANGED <<vars, codeMap, parsedWith, stagedWith>>

\* The reprocess is rolled back.
ReprocessFails(r) ==
  /\ reprocess[r].pc # "idle"
  /\ reprocess' = [reprocess EXCEPT ![r] = NoReprocess]
  /\ UNCHANGED <<vars, codeMap, derived, parsedWith, stagedWith>>

\* Steps of the import service that touch no derived column.
OtherImportStep ==
  /\ \/ \E u \in Uploaders, f \in Files : JanitorSelect(u, f)
     \/ \E u \in Uploaders : JanitorDeletes(u) \/ JanitorUpdates(u) \/ CreateImport(u) \/ UploadFails(u)
     \/ CommitRequest \/ CommitReads \/ CommitMarksExpired \/ CommitRefused \/ CommitFails
     \/ \E i \in Ids : Discard(i) \/ TimePasses(i)
  /\ MapsKept
  /\ UNCHANGED <<codeMap, derived, reprocess>>

\* A restart also ends the reprocess requests in flight.
RestartAll ==
  /\ Restart
  /\ reprocess' = [r \in Reprocessors |-> NoReprocess]
  /\ MapsKept
  /\ UNCHANGED <<codeMap, derived>>

CalendarNext ==
  \/ \E u \in Uploaders : UploadLoadsMap(u) \/ UploadStagesRows(u)
  \/ CommitCopiesDerived
  \/ \E i \in Ids : RevertRederives(i)
  \/ \E code \in BaseCodes, kind \in Kinds : PutType(code, kind)
  \/ \E r \in Reprocessors : ReprocessLoadsMap(r) \/ ReprocessReads(r)
                             \/ ReprocessWrites(r) \/ ReprocessFails(r)
  \/ OtherImportStep
  \/ RestartAll

CalendarSpec == CalendarInit /\ [][CalendarNext]_calendarVars

\* Administrators keep running reprocess, and some of the runs get through
\* (strong fairness: a run may be cut off any number of times, but not always).
ReprocessFairness ==
  \A r \in Reprocessors : /\ WF_calendarVars(ReprocessLoadsMap(r))
                          /\ SF_calendarVars(ReprocessReads(r))
                          /\ SF_calendarVars(ReprocessWrites(r))

----------------------------------------------------------------------------
(* Properties                                                              *)

\* The derived columns of a day belong to its own raw code, under some state of
\* the code map.
OwnCode(d) ==
  calendar[d] # NoRow => \E map \in Maps : derived[d] = DeriveDay(calendar[d], map)

\* No commit, revert, map change or reprocess gives a row a kind, leave_code,
\* fraction or presence of another code, except a reprocess that read the row
\* when it had that other code.
StaleRewritesOnly ==
  [][ \A d \in Days :
        OwnCode(d) /\ ~OwnCode(d)'
        => \E r \in Reprocessors :
             ReprocessWrites(r) /\ \E row \in Rewrites(r) : row.day = d /\ row.raw # calendar[d]
    ]_calendarVars

\* Every stored row is derived with the current map.
AllCurrent == \A d \in StoredDays(calendar) : derived[d] = DeriveDay(calendar[d], codeMap)

\* Once the calendar and the code map stand still, repeated reprocessing brings
\* every row up to date and keeps it so, whatever races happened before.
ReprocessConverges ==
  <>[][calendar' = calendar /\ codeMap' = codeMap]_calendarVars => <>[]AllCurrent

FairCalendarSpec == CalendarSpec /\ ReprocessFairness /\ RequestFairness
=============================================================================
