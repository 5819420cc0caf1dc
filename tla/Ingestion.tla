----------------------------- MODULE Ingestion ------------------------------
(***************************************************************************)
(* Pulling punches from COSEC into cosec_attendance_daily                  *)
(* (api/app/ingestion/service.py, repository.py, cosec_client.py): polls   *)
(* of the loop and of sync-now requests, and the backfill of the command   *)
(* line, month by month.  Supervisor says when the loop polls; here a poll *)
(* may happen at any time.                                                 *)
(*                                                                         *)
(* A day's data of all users is one number, the punches seen so far, which *)
(* COSEC revises while the day lasts and, for shifts that cross midnight,  *)
(* some days more; 0 is a day without rows.  Malformed rows within the     *)
(* accepted ratio are dropped and not counted.                             *)
(* fetch_range is one read: its retries only delay it or let it fail.      *)
(***************************************************************************)
EXTENDS Integers, FiniteSets

CONSTANTS
  Pollers,     \* the loop and the sync-now requests, at once
  Backfill,    \* the command line
  NoOne,
  Lookback,    \* POLL_LOOKBACK_DAYS
  MaxRange,    \* COSEC_MAX_RANGE_DAYS
  Settling,    \* days after its end in which COSEC may still revise a day
  MonthEnds,   \* last days of the calendar months
  Punches,     \* bound on the revisions of a day
  MaxRuns,     \* bound on successful runs: further ones fail
  LastDay      \* bound on the calendar

ASSUME RangeAssumption ==
  /\ Lookback \in Nat /\ MaxRange \in Nat /\ Lookback < MaxRange
  /\ LastDay \in Nat /\ Lookback < LastDay
  /\ Settling \in Nat /\ Punches \in Nat \ {0} /\ MaxRuns \in Nat
  /\ LastDay \in MonthEnds /\ MonthEnds \subseteq 1 .. LastDay
  /\ Backfill \notin Pollers /\ NoOne \notin Pollers \cup {Backfill}

VARIABLES
  today,
  device,   \* what COSEC answers for a day
  staged,   \* cosec_attendance_daily
  runs,     \* ingestion_runs with status success
  lock,     \* holder of the advisory lock 727001
  job       \* per poller and backfill

vars == <<today, device, staged, runs, lock, job>>

Days == 1 .. LastDay
Actors == Pollers \cup {Backfill}
Least(a, b) == IF a < b THEN a ELSE b
Largest(a, b) == IF a < b THEN b ELSE a

NothingRead == [d \in Days |-> 0]
Idle == [pc |-> "idle", from |-> 1, to |-> 1, cur |-> 1, got |-> NothingRead, end |-> 1]

Init ==
  /\ today = Lookback + 1
  /\ device = [d \in Days |-> IF d + Settling < today THEN Punches ELSE 1]
  /\ staged = [d \in Days |-> 0]
  /\ runs = {}
  /\ lock = NoOne
  /\ job = [a \in Actors |-> Idle]

----------------------------------------------------------------------------
\* Wrong... operators are variants that a slip in the code would leave; they
\* serve to see that a property can fail, and nothing uses them.

\* MAX(range_to), 0 for NULL, as a one-element set.
LastSuccess == {t \in {r.to : r \in runs} \cup {0} : \A r \in runs : r.to <= t}

WrongPollFrom(t, prev) == t - Lookback

PollFrom(t, prev) ==
  IF prev = 0 THEN t - Lookback
  ELSE Largest(Least(t - Lookback, prev + 1), t - MaxRange + 1)

MonthEnd(d) == {m \in MonthEnds : m >= d /\ \A k \in MonthEnds : k >= d => m <= k}

ChunkEnd(c, to) == Least(c + MaxRange - 1, to)
WrongAfterChunk(c, to) == ChunkEnd(c, to) + 2

AfterChunk(c, to) == ChunkEnd(c, to) + 1

\* An ingest_range of from .. to that does not have the lock yet; end is where
\* the whole backfill ends.
Ready(from, to, end) ==
  [pc |-> "ready", from |-> from, to |-> to, cur |-> from, got |-> NothingRead, end |-> end]

\* What is left of a backfill that has done the days before from.
NextMonth(from, end) == {Ready(from, Least(m, end), end) : m \in MonthEnd(from)}

StartsPoll(p) ==
  /\ job[p].pc = "idle"
  /\ \E prev \in LastSuccess : job' = [job EXCEPT ![p] = Ready(PollFrom(today, prev), today, today)]
  /\ UNCHANGED <<today, device, staged, runs, lock>>

\* cmd_backfill clips --to to today.  What it asks for before it gets the lock
\* it could also ask for then, so it starts with the lock of its first month.
StartsBackfill ==
  /\ job[Backfill].pc = "idle" /\ lock = NoOne
  /\ lock' = Backfill
  /\ \E from \in 1 .. today : \E end \in from .. today : \E j \in NextMonth(from, end) :
       job' = [job EXCEPT ![Backfill] = [j EXCEPT !.pc = "fetching"]]
  /\ UNCHANGED <<today, device, staged, runs>>

WrongTakesLock(a) ==
  /\ job[a].pc = "ready"
  /\ lock' = a
  /\ job' = [job EXCEPT ![a].pc = "fetching"]
  /\ UNCHANGED <<today, device, staged, runs>>

\* pg_try_advisory_lock, then start_run.
TakesLock(a) ==
  /\ job[a].pc = "ready" /\ lock = NoOne
  /\ lock' = a
  /\ job' = [job EXCEPT ![a].pc = "fetching"]
  /\ UNCHANGED <<today, device, staged, runs>>

\* A poll without the lock is skipped; a backfill tries again, until it has
\* used up its tries.
GivesUp(a) ==
  /\ job[a].pc = "ready" /\ lock # NoOne
  /\ job' = [job EXCEPT ![a] = Idle]
  /\ UNCHANGED <<today, device, staged, runs, lock>>

Fetches(a) ==
  /\ job[a].pc = "fetching"
  /\ LET chunk == job[a].cur .. ChunkEnd(job[a].cur, job[a].to)
     IN job' = [job EXCEPT ![a].pc = "writing",
                           ![a].got = [d \in Days |-> IF d \in chunk THEN device[d] ELSE 0]]
  /\ UNCHANGED <<today, device, staged, runs, lock>>

\* write_chunk: one transaction.
Writes(a) ==
  /\ job[a].pc = "writing"
  /\ staged' = [d \in Days |-> IF job[a].got[d] # 0 THEN job[a].got[d] ELSE staged[d]]
  /\ LET next == AfterChunk(job[a].cur, job[a].to)
     IN job' = [job EXCEPT ![a].got = NothingRead, ![a].cur = next,
                           ![a].pc = IF next > job[a].to THEN "finishing" ELSE "fetching"]
  /\ UNCHANGED <<today, device, runs, lock>>

\* finish_run and the unlock; a backfill goes on with the next month.
Finishes(a) ==
  /\ job[a].pc = "finishing"
  /\ runs' = runs \cup {[poll |-> a \in Pollers, from |-> job[a].from, to |-> job[a].to]}
  /\ Cardinality(runs') <= MaxRuns
  /\ lock' = NoOne
  /\ \E j \in IF job[a].to = job[a].end THEN {Idle} ELSE NextMonth(job[a].to + 1, job[a].end) :
       job' = [job EXCEPT ![a] = j]
  /\ UNCHANGED <<today, device, staged>>

\* An error, also the refusal of a payload with too many malformed rows, ends
\* the run as failed; a process that dies leaves it running.  Nobody reads
\* either, and the lock goes with the connection, which is taken to last as long
\* as the run it was opened for.
RunFails(a) ==
  /\ job[a].pc \in {"fetching", "writing", "finishing"}
  /\ lock' = NoOne
  /\ job' = [job EXCEPT ![a] = Idle]
  /\ UNCHANGED <<today, device, staged, runs>>

\* The requests of a poll time out after minutes, so it meets one midnight at
\* most.
DayPasses ==
  /\ today < LastDay
  /\ \A p \in Pollers : job[p].pc # "idle" => job[p].end = today
  /\ today' = today + 1
  /\ UNCHANGED <<device, staged, runs, lock, job>>

\* Somebody badges, or COSEC processes a shift that began on day d.
DeviceRevises ==
  /\ \E d \in Days :
       /\ d <= today /\ today <= d + Settling /\ device[d] < Punches
       /\ device' = [device EXCEPT ![d] = @ + 1]
  /\ UNCHANGED <<today, staged, runs, lock, job>>

Next ==
  \/ \E p \in Pollers : StartsPoll(p)
  \/ StartsBackfill
  \/ \E a \in Actors :
       TakesLock(a) \/ GivesUp(a) \/ Fetches(a) \/ Writes(a) \/ Finishes(a) \/ RunFails(a)
  \/ DayPasses \/ DeviceRevises

Spec == Init /\ [][Next]_vars

----------------------------------------------------------------------------
Jobs == [pc : {"idle", "ready", "fetching", "writing", "finishing"},
         from : Days, to : Days, end : Days, cur : 1 .. LastDay + 1, got : [Days -> 0 .. Punches]]

TypeOK ==
  /\ today \in Days
  /\ device \in [Days -> 1 .. Punches]
  /\ staged \in [Days -> 0 .. Punches]
  /\ runs \subseteq [poll : BOOLEAN, from : Days, to : Days]
  /\ lock \in Actors \cup {NoOne}
  /\ job \in [Actors -> Jobs]
  /\ \A a \in Actors :
       /\ job[a].from <= job[a].to /\ job[a].to <= job[a].end
       /\ \A d \in Days : job[a].got[d] # 0 => d \in job[a].from .. job[a].to

\* A successful run stores the days of its range that have settled for good:
\* no run that read COSEC earlier, and no poll beside it, puts an older state
\* of such a day back.
ClosedDaysStored ==
  \A r \in runs : \A d \in r.from .. r.to :
    staged[d] # 0 /\ (d + Settling < r.to => staged[d] = device[d])

\* A stored day never loses punches it had, whatever runs overlap.
NoDayLosesPunches == [][\A d \in Days : staged'[d] >= staged[d]]_vars

Covered == {d \in Days : \E r \in runs : d \in r.from .. r.to}
Length(r) == r.to - r.from + 1

\* A day that was skipped after a successful poll lies right before a catch-up
\* of the largest size, which the log announces, or right before a backfill
\* or the lookback from its end, because the next poll takes that end for its
\* own: polls of themselves leave no hole.
HolesExplained ==
  \A d \in Days \ Covered :
    (\E r \in runs : r.poll /\ r.to < d) /\ (\E r \in runs : d < r.to) =>
      \E r \in runs :
        LET first == IF r.poll THEN r.from ELSE Least(r.from, r.to - Lookback)
        IN /\ d < r.from /\ \A e \in d .. first - 1 : e \notin Covered
           /\ r.poll => Length(r) = MaxRange

\* "the outage days are covered without anyone re-running anything": after a
\* poll that did not have to cut its range, the settled days since the first
\* one polled are as COSEC has them.
OutageDaysCovered ==
  (\A r \in runs : r.poll /\ Length(r) < MaxRange) =>
    \A r \in runs : \A d \in Days :
      d + Settling < r.to /\ (\E e \in Covered : e <= d) => staged[d] = device[d]
=============================================================================
