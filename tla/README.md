# Verification of the attendance system

TLA+ models, TLC runs and TLAPS proofs about the attendance system of this
repository: a FastAPI service (`api/app`) over PostgreSQL (`db/init.sql`),
two background loops (the COSEC poller and the promotion loop) and a React
front end. Paths below are relative to the repository.

## Inventory

| Component | State it keeps | Operations | Interacts through |
|---|---|---|---|
| Leave import service (`routers/leave_import.py`, `leave/service.py`, `leave/janitor.py`) | `leave_import`, `leave_import_staging`, `leave_import_issue`, `calendar_day`, `calendar_day_change`, `leave_coverage`, `leave_code_map` | upload, preview, commit, discard, revert, janitor, put type, reprocess | unique indexes, row locks, the advisory lock 727002 |
| Leave workbook parsing (`leave/parsing.py`) | none (pure) | sheet layout, cell grammar, day derivation | called by the upload, by revert and by reprocess |
| Authentication sessions (`auth/sessions.py`, `auth/local.py`, `auth/microsoft.py`, `core/deps.py`) | `refresh_tokens`, `users` (lock-out, failed count) | login, refresh with rotation, logout, change password, revoke | row locks on tokens and users |
| User administration (`auth/admin.py`, `auth/bootstrap.py`, `auth/cli.py`) | `users` | create, patch, reset password | revokes sessions |
| COSEC ingestion (`ingestion/`) | `cosec_users`, `cosec_attendance_daily`, `ingestion_runs` | poll, ingest a range, backfill, import of the scope list | HTTP to COSEC, upserts, the advisory lock 727001 |
| Sync supervisor (`ingestion/supervisor.py`) | its own variables, `sync_state` | probe, poll, retry, report | callbacks into ingestion |
| Promotion (`scripts/promote_*`, `routers/ingestion.py`) | `attendance_records` | promote, sync now | the staging table |
| Bulk attendance and leave writes (`attendance/service.py`) | `attendance`, `leave_records` | bulk insert, team update | savepoints |
| Work-from-home policies (`routers/wfh.py`, `wfh/resolver.py`) | `wfh_policies`, `wfh_recalls` | create, patch, approve, revoke, recall | checks before inserts, row locks of patches |
| Metrics (`metrics/`) | none (reads) | classify, rates, rosters | queries |
| Browser session client (`frontend/src/auth.js`, `App.jsx`) | access token and timer of a tab, the refresh cookie | boot, refresh, retry, login, logout, idle sign-out | the sessions API, a Web Lock between tabs |
| Dashboard data (`frontend/src/api.js`, `metrics.js`, `views/`) | the records loaded | load, overlay, classify, count | paged reads, the metrics endpoint |
| Dashboard filters (`frontend/src/filters.js`, `Dashboard.jsx`, `FilterBar.jsx`, `useDashboardMetrics.js`) | query string, saved groups, figures, roster | every control, link and answer | the metrics endpoint |
| Leave import page (`frontend/src/views/LeaveImport.jsx`) | the preview shown, selection, ticks | upload, resume, view, commit, discard, revert | the import service |

What is hard in the service is interleaving: every request is a READ COMMITTED
transaction, most of them check before they lock, and only unique indexes, row
locks and one advisory lock order them. What is hard in the browser is order:
answers come late, tabs share a cookie, one page is put together from many
requests, and the same day is counted in five places. `PROJECT.json` lists each place where
this bites (`hazards`), with the properties that cover it.

What makes each component correct, in a sentence:

- import service: the calendar is what the standing commits made it, a revert
  brings back exactly what its commit found, and personal data of a preview
  does not outlive it;
- parsing: a cell means the same wherever it is derived, and a blocked sheet
  contributes no row;
- sessions: a family is never valid after it was revoked, a reused token ends
  the family, a rotation hands out one successor;
- administration: there is always an active administrator;
- ingestion: what a run read is stored for good, and polls leave no day out;
- supervisor: a failure is retried until it succeeds, never too soon, and the
  state it reports is the one it is in;
- promotion: each event is promoted once whoever promotes it;
- work from home: policies of an employee that stand overlap only if they were
  written side by side, a revoked one stays as it was, and the exempt set of a
  window is exact;
- metrics: one status per day, from which the browser's differs for a reason,
  and rates over the same days;
- browser client: tabs do not set off reuse detection, and each ends signed in
  or signed out;
- dashboard data: no row is lost between pages, and what views count of one load
  or one answer adds up;
- filters: figures belong to the filters in force, and a control changes the
  filter it names;
- import page: a commit is of what is on the page and allowed by the rules.

## Plan

1. `LeaveImport` (the core), its ledger abstraction, its derived columns, its
   proofs: done.
2. `WfhPolicies`, with the resolver as operators, and its proofs: done.
3. `Sessions` and `SessionFamilies`, and their proofs: done.
4. `Ingestion` and `Supervisor`, and their proofs: done. They are apart,
   because the loop knows of a poll only whether it raised, and the polls of
   `Ingestion` happen at any time.
5. Metrics on both sides: `DayStatus` (a day's status in the browser and in the
   API), `DayTotals` and `Figures` (what is counted), composed with the load of
   the records in `DayRecords`: done.
6. `BrowserSession`: done. It has the server's rotation in the small, as the
   browser meets it; `Sessions` has it in the large, with its transactions.
7. `Filters`, `FilterBoard`, `Dashboard` and their proofs: done.
8. `LeaveWizard`, in front of the service in the small: done.
9. Left: `UserAdmin` (the last administrator, the lock-out), `Promotion` (the
   loop against sync-now), `SheetParser` (period banners, duplicates, blocking).

Every invariant and action property of the passing runs is proved. Theorems
worth proving next: that the coverage a load shows is of one state of the
table, and the refinement of an abstract load by `DayRecords`.

## Modules

| Module | What it is |
|---|---|
| `LeaveImport` | the import service as interleaved transactions |
| `LeaveLedger` | what the service promises: batches over a table, undone last first |
| `LeaveImportLedger` | the refinement mapping from the first to the second |
| `LeaveCalendar` | derived columns, code map, `derive_day` and reprocess, on top of `LeaveImport` |
| `LeaveImportProofs` | theorems about `LeaveImport`, `LeaveImportLedger` and `LeaveCalendar` |
| `WfhPoliciesProofs`, `IngestionProofs`, `SupervisorProofs`, `LeaveWizardProofs` | theorems about the modules they name |
| `Sessions` | refresh-token families under concurrent requests |
| `SessionFamilies` | what they promise: opened once, closed for good |
| `WfhPolicies` | work-from-home policies, recalls and the resolver |
| `Ingestion` | polls and backfills of COSEC punches under the advisory lock |
| `Supervisor` | the loop that polls, its retry schedule and what it reports |
| `DayStatus` | the status of a day, in the browser and in the API |
| `DayTotals`, `Figures` | what the pages and the metrics endpoint count of days |
| `DayRecords` | the load of the dashboard while the tables change, composed with the three above |
| `BrowserSession` | tabs, their tokens and the refresh cookie |
| `Filters`, `FilterBoard`, `Dashboard` | the query string as operators; what filters promise; the tab that keeps to it |
| `DashboardProofs` | theorems about `DayRecords`, and about `Dashboard` |
| `BrowserSessionProofs`, `SessionsProofs` | theorems about `BrowserSession` and `Sessions` |
| `LeaveWizard` | the import page before the service and other administrators |
| `MCLeaveImport`, `MCLeaveCalendar`, `MCSessions`, `MCWfhPolicies`, `MCDayRecords`, `MCDashboard`, `MCLeaveWizard` | instances for TLC |

### LeaveImport

State is the visible content of the tables, by import id (`status`, `sha`,
`base`, `idem`, `shown` for counts and issues, `names`, `staging`), the
calendar (`calendar`, `batch`), its audit and coverage, plus one record per
upload in flight and one for the commit that holds the advisory lock. `due`
holds the ids whose `expires_at` has passed. `lapsed` is history: imports that a
janitor expired while they were committed.

| Code | Action |
|---|---|
| `upload_leave`: the janitor reads ids, then deletes staged rows and updates the import, one id after the other | `JanitorSelect`, `JanitorDeletes`, `JanitorUpdates` |
| `find_live_import`; INSERT; staging to COMMIT | `FindLive`; `CreateImport`; `PublishPreview` |
| any error of an upload | `UploadFails` |
| `commit_import` (router): the checks before any row lock | `CommitCheck`, `CommitFindsExpired` |
| `overlap_guard_selected`; `SELECT .. FOR UPDATE`; the rest of `service.commit_import` to COMMIT | `CommitGuard`; `CommitLocks`; `CommitApply` |
| refusals; the handler's own expiry; errors of a commit | `CommitRefused`; `CommitMarksExpired`; `CommitFails` |
| `discard_import`, `revert_import` | `Discard`, `Revert` |
| `expires_at` passes; process restart with `lifespan` | `TimePasses`, `Restart` |
| PostgreSQL breaks a deadlock | `DeadlockVictim` (one of `UploadFails`, `CommitFails`) |

Each action ends where another transaction can get in, and a transaction's
writes become visible in its last action. So the statuses `parsing` and
`committing`, which are written and overwritten in one transaction, are never
visible, and `failed` is written to no visible row (`_mark_failed` has no
caller): the janitor's branches for them find nothing and are not modelled.
An upload's janitor holds the rows it has updated and those it has deleted until
its COMMIT (`UpdatedBy`, `DeletedBy`); it deletes staged rows first and updates
the import then, a commit and a discard the other way round, so they can
deadlock (`UploadWaits`, `UploadWaitsForCommit`, `CommitWaits`, `Deadlock`). An
INSERT waits for an uncommitted entry of the unique index on live hashes. Requests
that are refused before they write, and replays, change nothing and are no
actions. Ordering inside the tables, messages, counts that nothing tests, and
the issue rows other than LARGE_CHANGE and DEPARTMENT_MISMATCH are left out.

`Restart` may leave the janitor out, because `lifespan` swallows its errors.

### LeaveLedger and LeaveImportLedger

The ledger knows a table and, for each standing batch, the table it found. The
mapping takes the committed imports as standing batches and rebuilds what each
found from the audit rows above it. Commits implement `Commit`, reverts
`Revert`, and everything else is a stutter. A batch that a janitor expires after
its commit (`lapsed`) has dropped out of the stack with its days written, and the
ledger promises nothing of those days from then on.

### LeaveCalendar

Adds the derived columns of a day as one record, the code map as a function
from active codes to kinds, and the map each upload loaded. Cells are sequences
of components, what the regular expression of `derive_day` and the split at `/`
leave; a cell that does not parse is a sequence of another length. A reprocess
is three actions, because the two SELECTs (code map, whole table) have a snapshot
each and the UPDATEs have no lock in common with them. The derived columns of a revert and of a commit are written by
the same actions as the codes.

### Sessions and SessionFamilies

State is `refresh_tokens` by id, `users.is_active`, the row locks on both
tables and one record per request in flight. The owner, the family and the
start of the family are columns of the token; `state` is `revoked_at IS NULL`
or not, and of `revoked_at` itself only the time of a replacement is kept
(`replacedAt`), because the grace rule is the only reader.

| Code | Action |
|---|---|
| `login`: password and `is_active`; UPDATE and COMMIT | `LoginVerifies`; `LoginRecorded` |
| `issue_session`: INSERT of the token; UPDATE of the user, COMMIT | `InsertSession`; `IssueSession` |
| `resolve_sso_user` and `issue_session`, one transaction | `EntraLogin` |
| `rotate_session`: cookie received, token locked, user locked | `RefreshStarts`, `RotateLocksToken`, then `Rotate`, `AnswerInGrace` or `RevokeFamily` |
| `logout`, read and snapshot of the UPDATE | `LogoutStarts` |
| `patch_user`, `reset_password`, `change_password`, command line reset | `PatchStarts`, `ChangePasswordStarts`, `CliStarts`, then `RevokeAll` or `PatchCommits` |
| an UPDATE of several tokens: each row, then COMMIT | `SweepRow`, `SweepCommits` |
| error, lost connection; deadlock detector | `RequestFails`; `DeadlockAborts` |

An UPDATE works on the rows of its snapshot (`todo`) and waits for those that
are locked, so what other transactions insert meanwhile is missed. Refreshes
take token, then user; revocations take user, then tokens. A login that has
inserted its token shares the user's row (`KeySharers`, the foreign key) and then
wants to update it. They can deadlock,
and `WaitsFor` and `Deadlocked` model the detector that resolves it. A reset by
an administrator is a patch that revokes and changes nothing else here. The
mapping to `SessionFamilies` takes as open the families with a live token.

### WfhPolicies

State is `wfh_policies` by id, the set of recalls (its unique key), and a record
per creation, patch or recall in flight. `end_date IS NULL` is the date after
the last one. `missed` and `raced` are history: what others committed since a
request's check, and the pairs of policies one of whose checks missed the other.

| Code | Action |
|---|---|
| `create_policy`: check; INSERT | `CreateChecks`; `CreateInserts` |
| `patch_policy`: SELECT FOR UPDATE; check; UPDATE | `PatchLocks`; `PatchChecks`; `PatchUpdates` |
| `approve_policy`, `revoke_policy` | `Approve`, `Revoke` |
| `create_recall`: check; INSERT; `delete_recall` | `RecallChecks`; `RecallInserts`; `RecallDeleted` |
| conflicts found late, errors | `WriterFails`, `RecallFails` |

The resolver is `Loaded` (the query), `IsExempt` and `ExemptSet`; the reference
it is checked against looks at each employee and day by itself.

### Ingestion

State is what COSEC answers for a day (`device`), what is stored of it
(`staged`), the successful rows of `ingestion_runs`, the holder of the advisory
lock and a record (`job`) per poller and for the backfill: its range, the next
chunk (`cur`), what it has read (`got`) and where its backfill ends.

| Code | Action |
|---|---|
| `poll_once` up to `ingest_range`: today, last success, range | `StartsPoll` |
| `cmd_backfill`, first month | `StartsBackfill` |
| `pg_try_advisory_lock`, `start_run`; lock held | `TakesLock`; `GivesUp` |
| `fetch_range` and `parse_payload`; `write_chunk` | `Fetches`; `Writes` |
| `finish_run`, unlock, next month | `Finishes` |
| any error of a run, death of its process | `RunFails` |
| midnight; a punch, or the processing of a shift | `DayPasses`; `DeviceRevises` |

All users' punches of a day are one number, which only grows: a day is read and
written as a whole. The advisory lock is taken to live as long as its run: that
PostgreSQL drops the connection that holds it while the run goes on is left out.
Until `Settling` days after its end COSEC may revise a day,
afterwards it is final. A poll meets one midnight at most, because its requests
time out. Classification of rows, malformed rows and the scope list are left
out.

### Supervisor

State is that of `run_forever` (`state`, `failing_since`, `next_api_at`,
`backoff`), of COSEC and the database, and the row of `sync_state`. Clock times
are distances to now, in ticks, so that the state space is finite. `pc` says
where the loop is between two of its blocking calls.

| Code | Action |
|---|---|
| probe fails; too early for a retry | `ProbeFails`; `WaitsForRetry` |
| `sync_once` begins | `SyncStarts` |
| it returns; `AuthError`; any other error | `SyncReturns`; `SyncRejected`; `SyncFails` |
| `notify` writes `sync_state`; fails in the `try`; fails elsewhere | `Reports`; `ProbeReportFails`; `ReportFails` |
| the process ends; Docker starts `run_loop` again | `Crash`; `Restart` |
| `stop.wait`, the duration of a poll | `Tick` |

`set_state` changes the state before it reports, and the report is a step of
its own, because it needs the database. An error of the report is one of the
poll when it comes out of the `try` statement, and ends the loop when it comes
out of an `except` or `else` clause. The jitter is any value of its range. The
counter `failures` serves the log only.

### DayStatus, DayTotals and Figures

Pure operators, and no module state. `ClassifyDay` is `classifyDay` of
`metrics.js` with its three ways (the verdict of the API, the status before any
leave report, the overlay of one); `ServerDay` is `classify` of
`metrics/core.py`. `Summary` and `Totals` are `aggregate`, `LeaveQuality` is the
panel of Data health, `Entries` the list of Exceptions. `BuildMetrics` is the
answer of the metrics endpoint, `Adapted` what `adaptMetrics` makes of it, and
`Cards`, `ChartDays`, `EmployeeRow`, `MemberRow`, `Drawer`, `TeamRow` and
`TeamCards` are what the pages read of that. `GroupFigures` is what the summary and the
teams have in common; `AdaptedEmployee`, `AdaptedDay` and `AdaptedTeam` are the
three maps inside `adaptMetrics`. A date is a number, a list is a
set of entries, half days count one; hours, shifts, sorting, search, formats
and the points of charts are left out. `aggregate` is used by no view, only by
its tests; it stays in the model as the reference the lists are compared with.

### DayRecords

State is the part of the database the dashboard reads (`attendance`, `name`,
`calendar`, what a revert would bring back) and the load of `App.jsx`.

| Code | Action |
|---|---|
| promotion and bulk writes; a renamed employee | `WriteAttendance`; `Rename` |
| commit and revert of a leave report | `CommitLeave`, `RevertLeave` |
| effect of `App.jsx`, also after "Sync now" | `StartLoad` |
| `fetchAllPaged(fetchAttendance)`, a page | `AttendancePage` |
| `fetchAllCalendar`: COUNT, then the page; failure | `CalendarCount`, `CalendarPage`; `CalendarFails` |
| coverage endpoint, its two reads; failure | `CountDays`, `ReadThrough`; `CoverageFails` |
| `Promise.all` of records and coverage; failure | `ShowLoad`; `LoadFails` |

The names of the state's definitions begin with `records`, so that the module
can stand beside `Dashboard`. The tables are finite and ids are numbers
(`EmployeesAssumption`), an attendance row has its three columns
(`SwipesAssumption`). Rows the ORDER BY leaves tied come in any order, in each
request anew.
`load.standing` and `load.since` are history: the rows that no insertion can
hide, and the tables that changed since the load began.

### BrowserSession

State is the refresh cookie (`jar`), the families and the activity of the user
as the server knows them, the Web Lock, and a record per tab: the user shown,
the life left of the access token, the timer, `refreshPromise`, a logout and a
call of `apiFetch` in flight.

| Code | Action |
|---|---|
| `bootSession`, page reload | `Opening` in `Init` and `Reload` |
| `scheduleRefresh` fires; focus, visibility | `TimerFires`; `Focus` |
| `withRefreshLock`: its turn; the server; the answer | `RefreshTurn`; `ServeRefresh`; `RefreshAnswer` |
| the request or its answer is lost | `RefreshLost` |
| `loginEmail`; `logout`, its two halves; logout without network | `Login`; `Logout`, `LogoutAnswer`; `LogoutLost` |
| idle timer of `App.jsx` | `IdleOut` |
| revocation; deactivation | `ServerEnds`; `Deactivate` |
| `apiFetch`: check, request, answer, repetition | `Call`, `CallSend`, `CallReply`, `CallAgain`, `CallLost` |

The end of a session drops the call in flight (`ClearSession`), where `apiFetch`
still returns the 401 to its caller (`auth.js:59`): the page it would be shown
on is gone.

A token of a family is `live`, `previous` (replaced seconds ago, still answered)
or `used`. A minute is a tick, and longer than the grace of 10 s. `lost` and
`wronged` are history.

### Filters, FilterBoard and Dashboard

`Filters` has `parseFilters`, `serializeFilters`, `update`, `rangeDates` and the
metrics key as operators on records of parameters. `FilterBoard` knows only the
filters chosen and the months with records: each control sets one filter.
`Dashboard` keeps the location, and its filters are always what `ParseFilters`
makes of it; each control is an action that navigates (`Go`). The hook
`useDashboardMetrics` is `asked`, `late` and `metrics`; the roster is a record
of its own, with its date, teams and status. Of superseded requests the last one is kept.

| Code | Action |
|---|---|
| `FilterBar`: month, range, day, shift, teams, groups, reset | `ChooseMonth` .. `ToggleTeam`, `AllTeams`, `ClearTeams`, `UseGroup`, `SaveGroup`, `DeleteGroup`, `Reset`, `ToggleNoPunch` |
| views: heatmap cell, exception, coverage strip, links, tabs | `OpenDay`, `OpenEmployee`, `OpenDate`, `FollowLink`, `SwitchTab`, `ChooseView`, `ResetEmpty` |
| `useDashboardMetrics`: new key; answer; failure | `Refetch` in `Go`; `Answer`; `AnswerFails` |
| `RosterView`: date, teams and status; answer, failure, late answer, export | `PickRosterDate`, `PickRosterTeams`, `PickRosterStatus`; `RosterAnswer`, `RosterFails`, `RosterLate`, `ExportFails` |
| `App.jsx` loads the records again | `Reload` |

Team slugs are taken to be distinct. The parameters that one view keeps for its
own list (`q`, `type`, `sort`, `group`, `allteams`) are left out.

### LeaveWizard

State is the imports as the page can tell them apart, the page itself, and the
requests in flight, which are served and answered in any order.

| Code | Action |
|---|---|
| upload, view, discard, revert, commit are sent | `Upload`, `View`, `Discard`, `AskRevert` and `Revert`, `AskCommit`, `BackOut` and `Confirm` |
| the service; the network | `Serve`; `Lose` |
| `then` and `catch` of each request | `Deliver`, with `Show` for `setPreview` |
| issues; history list | `CodesCome`; `ListCome` |
| sheets and ticks | `PickSheet`, `Tick` |
| page reloaded, or unmounted by a new load | `Reopen` |
| another administrator | `Other` |

`Preview` is keyed by the import, so `Show` starts its state afresh when another
import is shown and keeps it for the same one. The service is `LeaveImport` in
the small: each request is one step, nothing expires. `ResumeLimit` and
`HistoryLimit` are the limits of the two lists the page asks for (10,
`LeaveImport.jsx:572`, and 50, `api.js:97`; `Listed`). The figures of the notice
after a commit are left out, so a replayed commit, whose answer has no
`committed_rows` (`leave_import.py:299`) and which is announced as "undefined
days written" (`LeaveImport.jsx:613`), looks like any other.

## Runs

| Run | Question | Bounds |
|---|---|---|
| `leave_import` | tables, keys, live files, audit, coverage, previews and the 5% guard; exactness of reverts, commits that stand, refinement of the ledger | 2 files that disagree on a day, 2 sheets, 2 dates, 2 uploads at once, 1 key, 3 ids, the first of which may run out |
| `leave_calendar` | derived columns belong to their code, reprocessing converges, uploads and commits end | 2 files whose codes differ only in their halves, 2 uploads at once, 2 ids, the first may run out, changes of the map, 1 reprocess at a time |
| `sessions` | one chain per family, the absolute cap, sweeps complete, refinement of `SessionFamilies` | 1 user with a password or of Entra, 2 requests at once, 3 tokens, clock to 2, idle time 2, caps 3 and 2, grace 0 |
| `wfh` | overlaps only from races, revoked for good, exact exempt sets | 1 employee, 2 policies, 2 dates and open ends, 2 writers at once, 1 recall in flight |
| `ingestion` | settled days stored for good, no punches lost, no unexplained hole | 1 poller and the backfill, 4 days in 2 months, lookback 0, chunks of 2 days, 1 day to settle, 2 punches a day, 2 successful runs |
| `supervisor` | what `sync_state` shows, distances of requests, recovery | intervals of 1 to 6 ticks in the order of the real ones, polls of up to 2 ticks |
| `day_records` | loads are complete, overlays exact, browser and API differ in named cases only, counts add up | 2 employees, a working day, one of a weekend, a holiday and today, leave records and a plan, pages of 3 rows, 2 reports, 2 changes of the tables |
| `browser_session` | no false reuse, tokens renewed in time, calls fail for a cause, tabs settle | 2 tabs, 1 family, tokens of 2 minutes, refreshed with 1 left |
| `leave_wizard` | commits sound, requests fit their import, thanks true, previews found again | 2 files with a sheet in common, one of them with an error and an issue, 3 imports, lists of 2, 2 requests in flight, resumes apart, 2 requests or steps of others |
| `dashboard` | figures belong to the filters, the roster to its date, teams and status, refinement of `FilterBoard` | 2 months of 2 halves, 2 teams, 2 shifts, 2 statuses, 2 routes, 1 group, 2 uses of a control |
| `torn_commit` | finding 1 | 2 files, 1 upload, 1 key, 3 ids, the first may run out |
| `janitor_race` | finding 2 | 2 files, 1 upload, 1 key, 3 ids, the first may run out |

Two uploads are enough for every wait and every race of two requests, and three
ids for a preview between two commits, and for two standing commits of which
one is reverted and its file uploaded again. `MaxImports` bounds the sequence of ids: an upload
starts only while an id is left for each one in flight, so a waiting upload is
never cut short by the bound; `MaxTokens` works the same way for requests that
insert a token. Three tokens let a replaced token be reused while its successor
is being rotated. Sessions of different users share no row, so one user is
enough for the races. `Expiring` bounds which previews may run out: one is
enough for each race of its janitor with a commit, a discard and an upload of
the same file, and for the deadlock of that janitor with its commit, which
`leave_calendar` has to break for `LeaveRequestsEnd`; the theorems hold for any
such set. One employee and two policies are every overlap there is, and two
writers every race of two checks.

In `ingestion`, `MaxRuns` bounds successful runs only: a poll that finds the
bound fails, as it may anyhow. Two successes make a hole between them or a
catch-up; four days hold a catch-up that is cut, and chunks of two days make a
month of two chunks. The theorems of `IngestionProofs` do not depend on these
bounds. In
`supervisor`, ages and distances are capped where nothing tells larger ones
apart (`AgeCap`, `QuietCap`).

In `day_records`, eight possible rows and pages of three make a load several
requests, so that a change between two pages happens; two employees may share a
name, which makes a tie; two changes are a commit and its revert, or a write
beside either, inside one load. The days are of four kinds, because the orders of
the two classifications differ on a weekend with a swipe or a working cell, on a
holiday with a swipe, on a day with one swipe or both, and today; an approved
leave and an exempting plan are tables only the API reads. In `browser_session` two tabs are
enough to race, and with 2 minutes of life and 1 of margin a token can be
fresh, close to its end, and run out; with a second sign-in (`Families = {1, 2}`)
its invariants hold as well, in three million states, without the liveness
property. In `leave_wizard`, two files are one to
confuse with another; two requests hold an upload answered late and a commit,
beside the resume of a page and the imports it begins with; three imports and
lists of two make an open preview drop out of a list. In `dashboard`
two uses of a control are enough for a superseded request and its late answer;
the theorems hold for any number.

TLC's deadlock check is on in every run but `dashboard` and `leave_wizard`:
clients of the service can always discard, start another run, time can pass, or
the process can restart. In those two the user's requests are bounded
(`MaxEdits`, `MaxActs`), and when they are used up and answered nothing is left.

Fairness of `LeaveImport` and `Sessions` (`FairSpec`): requests in flight take their steps, strongly fair
because PostgreSQL queues lock requests in order and does not let a waiter be
overtaken for ever. Clients, failures and time get none. `FairCalendarSpec`
assumes that an administrator keeps running reprocess and that not every run
is cut off. `FairSpec` of `Supervisor` is weak fairness of the loop's steps, of
time and of the restart, which `restart: unless-stopped` provides; COSEC and
the database need not come back, and `Recovers` asks for polling only when they
do, and the process is not killed any more. `FairSpec` of `BrowserSession`:
timers fire, the server answers what is not lost, and each tab that waits for
the Web Lock gets it again and again (strong fairness, because the lock queues
its requests); time passes with strong fairness, because a minute waits for
what takes less than one. Users and failures get none, and `SessionsSettle`
lets a tab off when something got lost.

## Findings

`torn_commit`, which TLC ends with the counterexample: a discard between the
commit's status check and its row lock is overwritten, and the discarded import
becomes committed without rows.

`janitor_race`, the same way: the janitor updates by id and turns a commit that
finished after its SELECT into an expired import, whose days stay in the calendar
and which nobody can revert. `janitor.py:6` speaks of preview_ready rows only.
`CommitsInTimeStand` says how far this goes, in a run that passes: only an import
whose 24 hours ran out while it was being committed can lapse; and `RevertsExact`
keeps every day that none of these wrote.

More configurations are kept beside the runs, for use by hand. Two end with a
counterexample:

- `MCIngestionOutage.cfg` (`OutageDaysCovered`): after an outage longer than the
  lookback, the next poll starts on the day after the last successful one. That
  day was polled before it was over, and its later punches are never fetched.
  `supervisor.py:6` says the outage days are covered.
- `MCLeaveWizardEmpty.cfg` (`CommitsWhatWasPicked`): the selection can be emptied
  between Commit and Confirm, and the service takes an empty selection for every
  sheet (`LeaveImport.jsx:415`, `service.py:337`), while the page says "Select at
  least one sheet." (`LeaveImport.jsx:328`).

Two check liveness on other instances: `MCLeaveImportLive.cfg`
(`LeaveRequestsEnd` of `LeaveImport` alone, with three ids, so that two uploads
can follow an import that runs out) and `MCSessionsLive.cfg` (`RequestsEnd`: every request on the
sessions of an Entra user ends, because PostgreSQL breaks the deadlocks).
`DayRecords` states two more properties that do not hold: `TeamsShowFigures`
(`adaptMetrics` renames the fields that `Teams.jsx` and its detail page read by
their old names, so "No record days" is always 0, the rate of a team's page "—",
and the note that it is provisional never shown) and `ExemptNeverAbsent`
(`metrics.js:9` says WFH approvals count as present; a record has no such field,
and an exempted day is shown absent). `FiguresAgree` therefore compares of a team
its headcount and its rate in the list, not the days without a record, and
`VerdictsCompatible` names exempted days among the cases in which the browser's
"absent" is not the API's.

The models have more behaviours of this kind, which the properties of the
passing runs are worded around. In the service:

- A commit that finds its preview overdue marks it expired and purges nothing
  (`leave_import.py:344`, where lines 7-8 of that file, and `janitor.py:6`, have
  an expiry purge). No janitor selects it again, so its names stay.
  `PreviewDataConfined` names this step as the one exception: a commit, a discard
  or a janitor that leaves names or rows behind violates it.
- A reprocess writes what a row's former code derived to; `StaleRewritesOnly`
  shows that nothing else does, and `ReprocessConverges` that it is repaired.
- A revocation is not the end of every session: a login whose INSERT is not yet
  committed is not in its snapshot, waits for the user's row and opens its
  session right after (`sessions.py:97`), also for a user who has just been
  deactivated. `SweepsComplete` is about the sessions that were stored, and says
  of this one that it can never be refreshed while the user is inactive. The
  command line reset revokes in a second transaction without the user's lock and
  misses a refresh beside it as well, so `SweepsComplete` leaves it out.
- With two requests at once policies of an employee may overlap: both check
  before either is committed, and no constraint stops the second.
  `OverlapNeedsRace` says that nothing else makes an overlap.
- `BatchAuditedDay` says only that `batch_id` names an import that audited the
  day, not that it wrote the present code: a revert restores the code and keeps
  the `batch_id` of the import it undid.
- An outage that is down may stay recorded as degraded, when the database
  failed at the moment of the change (`RecordedLagsMildly`), and a report that
  fails after a poll ends the loop, which only the container's restart repairs.
- Before the first swipe of a day, `classify` calls today `no_data` and not
  pending (`core.py:72` comes before the comment at `core.py:85`), so that
  without a leave report everybody is shown "No record". Days nobody swiped are
  listed in Exceptions, and no rate counts them (`FiguresAgree` leaves them out).
- The totals count the working half of a half day of leave as absent when nobody
  swiped, while Exceptions lists such a day nowhere, so `ListsAgree` adds these
  halves. A first version without them held on an instance of one past day, and
  the attempt to prove it showed the case, which two past days reach.
- After an outage the last successful day may stay partial (see
  `MCIngestionOutage.cfg`); `HolesExplained` speaks of whole days left out and
  does not catch it.

In the browser:

- A refresh in flight at logout stores its session again (`auth.js:37`); it ends
  with the next refresh. A lost answer of a refresh leaves an old cookie behind,
  and its next use is taken for theft (`ReuseOnlyAfterLoss` allows it). A boot
  whose request fails stays on "Signing in..." A deactivated user stays signed
  in until the token runs out.
- The effect of the idle timer runs again with every renewed token
  (`App.jsx:55`), so that the sign-out after 60 minutes needs a session that is
  not renewed; the model lets it happen at any time. A renewed token and "Sync
  now" also load all records again and unmount the page below, with the import
  page's selection and its idempotency key (`Reopen`, `Reload`).
- A day flagged present without a time has no status; unverified days are listed
  apart from absences in Exceptions and summed with them in the API.
- A rename while the records load may lose a row (`LoadComplete`), and a load
  beside a commit mixes two moments (`OverlayExact` leaves such loads out, and
  `VerdictsCompatible` judges the days whose row and cell are still as they stand).
- Status and verdict of a day differ where the two sides read different tables:
  a day of `leave_records` the report has no cell for is leave to the API only, a
  weekend the report works on counts in the browser only, and a day nobody
  swiped is `no_data` to the API (`VerdictsCompatible`).
- The import page looks for an open preview among the last ten imports, so one
  with ten newer imports is not found after a reload, and is reached from the
  history only (`ResumesOpenPreview` speaks of the newest `ResumeLimit`).
- "Reset filters" of an empty list does nothing (`ResetEmpty`); plain links drop
  every filter (`FollowLink`); a saved group whose teams are gone becomes all
  teams, and an empty list of teams is written to the query string; two tabs
  overwrite each other's groups; a failed request shows zeros; while a new scope
  loads, its caption stands over the old figures; a roster whose date is cleared
  while it loads says "Loading" until it is given one, and a new default date
  takes back the date that was picked.
- On the import page late answers replace the preview that is shown, and a
  discard closes whichever it is; a file that is live already is shown without
  sheets; the tick for a large change can be called for by the selected sheets
  alone, and the page offers it only for an issue of the file
  (`leave_import.py:376`, `LeaveImport.jsx:390`).

## Proofs

The theorems rest on the `ASSUME`s of the modules and on nothing else. Each
inductive invariant was model-checked before it was proved.

`LeaveImportProofs` proves, for all values of the constants that satisfy the
assumptions of `LeaveImport` (`BoundAssumption`, `DatesAssumption`,
`MarkerAssumption`, `WorkbookAssumption`) and, below, of `LeaveCalendar`
(`MapAssumption`):

- `TypeCorrect`: `Spec => [](TypeOK /\ RefsOK)`. `TypeOK` is not inductive: a commit
  writes codes of the file its import names, so the files must be known.
  `RefsOK` says that existing imports have a file, and that staging, the rows of
  janitors, uploads and the commit in flight refer to existing imports; `TypeInv`
  is both.
- `CoverageIsExact`: `Spec => []CoverageExact`. By cases on the steps that
  change the calendar: a commit adds days, so the maximum of the union is the
  maximum of both maxima; a revert recomputes it.
- `CommitsInIdOrder`: `Spec => []CommittedChain`. `ChainInv` adds that every
  base an upload has read and every base of an existing import is below its id,
  that committed ids are below `nextId`, and that the commit in flight still
  has a current base, which holds because every other committer and reverter
  needs the same advisory lock.
- `TwiceCountsOnce` (`OnceOnly`). The strengthening `FileReserved` says that an
  upload which inserted its row saw no live import of its file but those its
  janitor expires, and that no other upload inserts one before it is done: the
  unique index makes the other wait.
- `PreviewDataIsConfined` (`PreviewDataConfined`) and `BatchesAuditTheirDays`
  (`BatchAuditedDay`), from `TypeInv`, step by step.
- `LargeChangesAreConfirmed` (`LargeChangeConfirmed`). Between the guard and the
  commit lies the wait for the row lock. `GuardKept` says that what the guard
  accepted is still acceptable: the calendar is as it was, because reverts and
  other commits need the advisory lock, and of the staged rows all are left or
  none (a janitor or a discard has taken them, and nothing is written).
- `CommitsStand` (`CommitsInTimeStand`). `DueInv` says that whatever a janitor has
  selected is due, and stays so.
- `RevertsAreExact` (`RevertsExact`) and `ImplementsLeaveLedger`
  (`ImplementsLedger`), for any previews that run out and any janitors.
  `LedgerInv` says that an import is audited when it is committed and a day at
  most once, and that on the days no lapsed import wrote (`SoundDays`) the
  standing audit rows are stacked (`Stacked`): the calendar has what the last of
  them wrote, and each remembers what the one before it wrote. A janitor that
  expires a committed import takes that import's days out of the sound ones, and
  leaves the others as they are. The table a batch found is read off the first
  standing audit row above it (`FirstIs`, which rests on `Smallest`, that a
  non-empty set of naturals has a smallest member). With it a commit pushes a
  batch and leaves what the others found (`CommitKeepsBefore`), a revert takes
  the last one back (`RevertKeepsBefore`), the rest stutters.
- `CalendarImplementsImport`: `CalendarSpec => Spec`, so that what is proved of
  `LeaveImport` holds for `LeaveCalendar`. `OnlyStaleRewrites`
  (`StaleRewritesOnly`): `MapsInv` says that whatever map an upload, a staged
  row or a reprocess derives with was a code map.

`WfhPoliciesProofs` proves, from `WfhBounds`:

- `TypeCorrect`: `Spec => []TypeOK`, with `TypeInv` as the inductive invariant:
  a patch in flight holds a policy that stands, and rows in flight are valid.
- `RevokedStays`: `Spec => RevokedForGood`, from `TypeInv`: approvals and
  revocations wait for the lock of the patch, so its policy still stands.
- `OverlapsAreRaced`: `Spec => []OverlapNeedsRace`, for any number of writers.
  The strengthening `ChecksHold` says of a creation or patch that has checked: a standing
  policy its row meets is one that was written since (`missed`). Approvals and
  revocations only take policies away or leave their dates, and a commit adds its
  policy to what the others missed.
- `ResolverIsExact` (`ResolverExact`), from `TypeInv`: a policy that exempts
  somebody on a day of a window meets the window, so `Loaded` has it; and who is
  exempt is named by a loaded policy, so that looking at others adds nothing.

`IngestionProofs` proves, from `RangeAssumption`, for any number of polls, days,
months and any lookback, limit and settling time:

- `TypeCorrect`, `ClosedDaysAreStored` (`ClosedDaysStored`) and
  `PunchesNeverLost` (`NoDayLosesPunches`), all from one inductive invariant
  `IInv`. `ClosedDaysStored` speaks of finished runs only; `ChunksDone` says the
  same of the chunks a run has done, and `ReadNotOlder` that what a run holds
  is at least as new as what is stored. The latter needs `LockHeld`, that nobody
  else writes between a read and its write, and `NotAhead`, that staging is
  never ahead of COSEC; `PastOnly` says that nothing unsettled counts as final.
- `HolesAreExplained` (`HolesExplained`). The strengthening `HoleInv` says that
  every poll, under way or done, began where it did for a reason (`Because`): it
  was cut to the largest range, it went on from a run or kept the lookback, or
  it was one of the first. Given a day left out, take the first day covered
  after it and the shortest run that begins there. If that is a poll, its reason
  is the explanation: it was cut, or it kept the lookback although a run before
  it ended earlier, which is then a backfill, or a shorter poll from the same day.

`SupervisorProofs` proves, from `TicksAssumption`, for any intervals:

- `TypeCorrect`, and `RecordIsRight` (`RecordedLagsMildly`): `Consistent` ties the
  state to `failing_since` and to the age of the outage, so that a probe can
  only move degraded to down (`ProbedDown`).
- `AttemptsAreSpaced` (`AttemptsSpaced`): `AuthSpaced` and `RetrySpaced` say that
  the time since the last poll, and what the loop still has to wait, add up to
  the distance; time moves one into the other.
- `DegradedIsOneRetryLate` (`DegradedOneRetryLate`): `LabelSoon` bounds not only
  the age of an outage labelled degraded but its age plus what the loop still
  waits, by `down_after_s` and `Slack`, which is the longest retry or a poll and
  a probe. A poll that is under way adds its own duration.

`DashboardProofs` proves of `DayRecords`, from its assumptions, for any size of
page and any finite tables:

- `RecordsTypeCorrect`.
- `LoadsAreComplete` (`LoadComplete`). `Ranked` describes an order with ties and
  the places it gives: `PositionsCovered` says that the ties together take up
  every position, so that a page with anything beyond it is full (`FullPage`),
  and a row without ties is on the page of its place only (`UntiedOnPage`).
  `RowsInv` says that the pages taken hold every standing row whose place is
  before the offset. An inserted row only moves others back (`RowsMoveBack`),
  and the page that ends the load is short, so nothing is beyond it.
- `OverlaysAreExact` (`OverlayExact`). `CellsInv` says that overlay and last
  days are those of the calendar rows before the offset. A load stops at a short
  page or at the count; the count is enough because pages without ties are not
  larger than they may be (`PageFits`). `LastDaysJoin`: the last days after a
  page are those of everything taken so far.
- `VerdictsAreCompatible` (`VerdictsCompatible`), from `CellsInv` and what each
  classification says of swipes and of the calendar (`OverlaySays`,
  `LegacySays`, `BackendSays`, `ServerSays`), with the named cases for the tables
  only one side reads.
- `ViewsAlwaysAgree` (`ViewsAgree`), the agreement of all the counts, for any
  number of employees, days and teams, any coverage and any exemptions. The type
  invariant is all it needs: whatever the tables hold, what is counted of them
  agrees (`ListsHold`, `FiguresHold`), so it does not matter what changed during
  the load. What it says of drawers and Exceptions beside the figures has the
  conditions `FiguresAgree` names: no leave report, no exempted day, days somebody
  swiped. The argument is double counting. *Sums*: `SumFunctionOnSet` is a
  fold, a `CHOOSE` of a recursive function on subsets. `AddsExists` constructs
  that function for every finite set, and `SumStep` gives its equation, by
  induction on finite sets in which the sets with a property are a set and not
  an operator. From these follow that the sum over a part is the sum with zeros
  elsewhere (`SumPart`), that sums go over a bijection (`SumNamed`) and add
  termwise (`SumPlus`), that a sum of cardinalities is the cardinality of the
  pairs (`SumPairs`), and that pairs of an employee and a date may be counted
  from either side (`SumSwap`). *Lists* (`TotalsIs`, `EntriesOf`): each
  total of `aggregate` is the number of the pairs with certain statuses, and each
  chip of Exceptions lists those pairs. *Figures* (`EmployeesNamed`,
  `FieldSums`, `DayIs`): records of the answer are named one by one by their
  employee, date or team, so a sum over records is one over names, and the days
  with a status add up by employee, by team and by date. *Pages*
  (`ShownSays`, `DrawerCounts`): without a leave report the grid shows the
  verdict of the endpoint, so the days of a drawer are those it counts.

Of `Dashboard` it proves, from `CalendarAssumption`, `ShiftsAssumption`,
`NoneAssumption`, `KeysAssumption`, `LinksAssumption`, `DatesAssumption`,
`PagesAssumption` and `StatusesAssumption`, for any calendar, teams and saved groups and without a bound on the uses of a control:

- `TypeCorrect`, of the location and the saved groups (every step that changes
  the location writes parameters that a control may write, `WrittenType`,
  `LocationCorrect`), of what the hook asks for and shows (`HookCorrect`) and of
  the roster (`RosterStaysFine`).
- `FiguresAreOfScope` (`FiguresOfScope`): `HookInv` adds that a request in force
  is one for the present filters, so that its answer is of them, and that a
  scope without days has none in force.
- `RosterAnswersRequest` (`RosterOfRequest`): each way to change a roster
  (`Pick`, `Follow`, an answer) either asks anew or leaves its rows those of its
  date, teams and status.
- `ImplementsFilterBoard` (`ImplementsBoard`): the lemma `RoundTrip` says that
  filters written to a query string and read back are the same, whatever
  defaults were left out; with it each control is a step of the board
  (`AskedFor`), and answers are stutters. A reload is the arrival of a month.

`BrowserSessionProofs` proves, from `TimesAssumption`, `FamiliesAssumption` and
`NoTokenAssumption`, for any number of tabs and sign-ins and any life and margin
of the access tokens:

- `TypeCorrect`, with the record sets of the tabs taken one function at a time.
- `NoTheftWithoutLoss` (`ReuseOnlyAfterLoss`), `AlwaysRenewed` (`RenewedInTime`)
  and `CallsFailForCause` (`CallFailsForCause`), from one inductive invariant
  `Kept`. `LockKept` says that exactly the holder of the Web Lock has a refresh
  on the way. With it `JarFresh` is inductive: the cookie in the jar is one that
  can be rotated, or the holder is about to store one that can. `Tidy` holds at
  all times (a timer that is set has its margin left); `Sound` only while
  nothing got lost (a tab whose timer has fired is waiting for a refresh it will
  really make). A step of one tab that leaves the refresh alone needs only what
  `TabStep` asks.

`SessionsProofs` proves, from `TokensAssumption`, `TimesAssumption`,
`RequestsAssumption` (requests in flight are finite in number) and
`NobodyAssumption`, for any users, requests, tokens and times:

- `TypeCorrect`. A token is inserted under the next id, which must exist:
  `TypeInv` adds `Room`, that there are as many ids left as requests that may
  still insert a token.
- `FamiliesAreSound` (`FamilySound`), from `FamilyInv`. `TokensInv` says that
  ids grow along a family, that each replaced token is linked to the next one,
  and that only the last may be live. `Works` says which locks a request in
  flight holds, and so which tokens nobody else can change.
- `SweepsAreComplete` (`SweepsComplete`): `Sweeps` says that a sweep under the
  user's lock still has before it, or has locked, every live token it was to
  revoke. It survives because a rotation inserts only under the same lock, and a
  login that has inserted commits only after the sweep. `InactiveInv`:
  a user who is inactive was deactivated by a sweep, so that no token of a
  rotation was left.
- `FamiliesCloseForGood` (`ImplementsFamilies`): tokens change in three ways
  only. `Opening` adds a family, `Revoking` may close families, and `Replacing`
  leaves the family open that it found open; each is a step of
  `SessionFamilies` or a stutter.

`LeaveWizardProofs` proves, from `FilesAssumption`, `LimitsAssumption` and
`BoundsAssumption`, for any files, imports, limits of the lists, requests in
flight and steps of the user and of others:

- `TypeCorrect`, `CommitsAreSound` (`CommitsSound`), `CommitsFitTheirImport`
  (`RequestsFit`), `ThanksAreTrue` (`ThanksTrue`) and `PagesResume`
  (`ResumesOpenPreview`), from one inductive invariant `IInv`. `RequestsInv` and
  `PageInv` say of what import a request, an answer and the page are, so that a
  late answer cannot mix two. `KeysInv` says that a key belongs to one import
  wherever it is: in a request, in the service, on a page. It needs that the key
  of a new preview is fresh (`UidIsFresh`), which is a count: there are more
  keys than imports and requests in flight can hold. `ResumeInv` says that while
  a preview waits on which a page just opened can land, the page has nothing on
  its way but requests that lead there, and shows something or has one; imports
  only drop out of a list as newer ones come (`ListedShrinks`).

Only model-checked, being out of the prover's reach: liveness under fairness
(`LeaveRequestsEnd`, `ReprocessConverges`, `Recovers`, `SessionsSettle`).

## Not modelled

- User administration beyond what it does to sessions: roles, the last
  administrator (two patches that each demote one of the last two both count the
  other, `auth/admin.py:44`), the lock-out after failed logins.
- Promotion as two writers (`promote_loop.py` and sync-now) of one table; its
  effect on the rows is in `DayRecords`.
- The layout of workbooks (`leave/parsing.py` beyond `derive_day`) and their byte
  formats; classification of punch rows and the scope list.
- Forms of the administration pages, which call one endpoint and read their list
  again; charts, tables, CSV files, search and sorting of the views.
- The remaining read-only endpoints, settings, log lines, and the maintenance
  scripts, which run by hand on an idle system.
