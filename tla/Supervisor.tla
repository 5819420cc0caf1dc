----------------------------- MODULE Supervisor -----------------------------
(***************************************************************************)
(* The loop around the COSEC poll (api/app/ingestion/supervisor.py) and    *)
(* the row of sync_state it keeps for the Data health tab.                 *)
(*                                                                         *)
(* Clock times are kept as distances: age is now - failing_since, apiWait  *)
(* is next_api_at - now, sleep what is left of stop.wait.  The loop reads  *)
(* the clock before a poll and works with that reading afterwards, so age  *)
(* and apiWait stand still during a poll and elapsed is added at its end.  *)
(* What a poll does is Ingestion; here it succeeds, fails or is rejected.  *)
(***************************************************************************)
EXTENDS Integers

CONSTANTS  \* in ticks
  PollInterval, ProbeInterval, RetryMin, RetryMax, DownAfter, AuthRetry,
  MaxSync      \* bound on a poll, whose requests all have timeouts

ASSUME TicksAssumption ==
  /\ {PollInterval, ProbeInterval, RetryMin, RetryMax, DownAfter, AuthRetry, MaxSync} \subseteq Nat \ {0}
  /\ RetryMin <= RetryMax

VARIABLES
  device,    \* what COSEC does with a request
  dbUp,      \* PostgreSQL answers
  pc,        \* where the loop is; "dead" when there is no process
  state, failing, age, backoff, apiWait,
  sleep, elapsed,
  recorded,  \* sync_state.state
  quiet      \* ticks since the last poll of this process began

loop == <<state, failing, age, backoff, apiWait>>
env == <<device, dbUp>>
vars == <<env, pc, loop, sleep, elapsed, recorded, quiet>>

Devices == {"answers", "unreachable", "rejects", "errors"}
Labels == {"healthy", "degraded", "down", "auth_blocked"}

Least(a, b) == IF a < b THEN a ELSE b
Largest(a, b) == IF a < b THEN b ELSE a

\* backoff * random.uniform(0.8, 1.2), in the ticks after which it has passed
Jittered(b) == (4*b + 4) \div 5 .. (6*b + 4) \div 5

\* The longest an outage can be labelled degraded: see DegradedOneRetryLate.
AgeCap == DownAfter + Largest((6*RetryMax + 4) \div 5, MaxSync + ProbeInterval) + MaxSync
QuietCap == Largest(AuthRetry, RetryMax)

Fresh ==
  /\ state' = "healthy" /\ failing' = FALSE /\ age' = 0
  /\ backoff' = RetryMin /\ apiWait' = 0
  /\ sleep' = 0 /\ elapsed' = 0 /\ quiet' = 0

Init ==
  /\ device \in Devices /\ dbUp = TRUE
  /\ pc = "top"
  /\ state = "healthy" /\ failing = FALSE /\ age = 0
  /\ backoff = RetryMin /\ apiWait = 0
  /\ sleep = 0 /\ elapsed = 0 /\ quiet = 0
  /\ recorded = "healthy"

----------------------------------------------------------------------------
\* Wrong... operators are variants that a slip in the code would leave; they
\* serve to see that a property can fail, and nothing uses them.

InOutage == failing /\ state # "auth_blocked"

OutageState(a) == IF a >= DownAfter THEN "down" ELSE "degraded"

\* set_state(new), then stop.wait(wait).  The callback, if there is one, runs
\* in a step of its own, at `at`.
SetState(new, at, wait) ==
  /\ state' = new
  /\ pc' = IF new = state THEN "waiting" ELSE at
  /\ sleep' = wait

\* record_failure up to its set_state; `spent` ticks ago the clock was read.
RecordFailure(spent) ==
  /\ failing' = TRUE
  /\ age' = Least((IF failing THEN age ELSE 0) + spent, AgeCap)
  /\ \E j \in Jittered(backoff) : apiWait' = Largest(j - spent, 0)
  /\ backoff' = Least(2 * backoff, RetryMax)

WrongProbeFails ==
  /\ pc = "top" /\ InOutage /\ device = "unreachable"
  /\ pc' = "waiting" /\ sleep' = ProbeInterval
  /\ UNCHANGED <<env, loop, elapsed, recorded, quiet>>

\* The probe fails: no request is sent.
ProbeFails ==
  /\ pc = "top" /\ InOutage /\ device = "unreachable"
  /\ SetState(OutageState(age), "probed", ProbeInterval)
  /\ UNCHANGED <<env, failing, age, backoff, apiWait, elapsed, recorded, quiet>>

WaitsForRetry ==
  /\ pc = "top" /\ InOutage /\ device # "unreachable" /\ apiWait > 0
  /\ pc' = "waiting" /\ sleep' = Least(ProbeInterval, apiWait)
  /\ UNCHANGED <<env, loop, elapsed, recorded, quiet>>

WrongMayCall == InOutage => device # "unreachable"

MayCall == InOutage => device # "unreachable" /\ apiWait = 0

SyncStarts ==
  /\ pc = "top" /\ MayCall
  /\ pc' = "syncing" /\ elapsed' = 0 /\ quiet' = 0
  /\ UNCHANGED <<env, loop, sleep, recorded>>

WrongSyncReturns ==
  /\ pc = "syncing" /\ dbUp
  /\ failing' = FALSE /\ age' = 0 /\ backoff' = RetryMin /\ apiWait' = 0
  /\ SetState(state, "reporting", PollInterval)
  /\ elapsed' = 0
  /\ UNCHANGED <<env, recorded, quiet>>

\* Also when another run holds the lock and the poll is skipped, whatever the
\* device does.
SyncReturns ==
  /\ pc = "syncing" /\ dbUp
  /\ failing' = FALSE /\ age' = 0 /\ backoff' = RetryMin /\ apiWait' = 0
  /\ SetState("healthy", "reporting", PollInterval)
  /\ elapsed' = 0
  /\ UNCHANGED <<env, recorded, quiet>>

SyncRejected ==
  /\ pc = "syncing" /\ dbUp /\ device = "rejects"
  /\ failing' = TRUE
  /\ age' = Least((IF failing THEN age ELSE 0) + elapsed, AgeCap)
  /\ apiWait' = Largest(apiWait - elapsed, 0)
  /\ SetState("auth_blocked", "reporting", AuthRetry)
  /\ elapsed' = 0
  /\ UNCHANGED <<env, backoff, recorded, quiet>>

\* NetworkError, ServerError or anything else, an error of the database too.
SyncFails ==
  /\ pc = "syncing" /\ (device \in {"unreachable", "errors"} \/ ~dbUp)
  /\ RecordFailure(elapsed)
  /\ SetState(OutageState(IF failing THEN age ELSE 0), "reporting", ProbeInterval)
  /\ elapsed' = 0
  /\ UNCHANGED <<env, recorded, quiet>>

\* The callback writes sync_state.
Reports ==
  /\ pc \in {"reporting", "probed"} /\ dbUp
  /\ recorded' = state
  /\ pc' = "waiting"
  /\ UNCHANGED <<env, loop, sleep, elapsed, quiet>>

\* In the try statement an error of the callback counts as a failed poll, and
\* the state, already set, is not reported again.
ProbeReportFails ==
  /\ pc = "probed" /\ ~dbUp
  /\ RecordFailure(0)
  /\ pc' = "waiting"
  /\ UNCHANGED <<env, state, sleep, elapsed, recorded, quiet>>

Dies == pc' = "dead" /\ Fresh /\ UNCHANGED <<env, recorded>>

\* In an except or else clause it is raised out of run_forever.
ReportFails == pc = "reporting" /\ ~dbUp /\ Dies

Crash == pc # "dead" /\ Dies

WrongRestart ==
  /\ pc = "dead" /\ dbUp
  /\ pc' = "top"
  /\ UNCHANGED <<env, loop, sleep, elapsed, recorded, quiet>>

\* run_loop reports healthy before it knows.
Restart ==
  /\ pc = "dead" /\ dbUp
  /\ pc' = "top" /\ recorded' = "healthy"
  /\ UNCHANGED <<env, loop, sleep, elapsed, quiet>>

Tick ==
  /\ \/ /\ pc = "waiting"
        /\ sleep' = sleep - 1
        /\ pc' = IF sleep = 1 THEN "top" ELSE pc
        /\ age' = IF failing THEN Least(age + 1, AgeCap) ELSE 0
        /\ apiWait' = Largest(apiWait - 1, 0)
        /\ UNCHANGED elapsed
     \/ /\ pc = "syncing" /\ elapsed < MaxSync
        /\ elapsed' = elapsed + 1
        /\ UNCHANGED <<pc, sleep, age, apiWait>>
  /\ quiet' = Least(quiet + 1, QuietCap)
  /\ UNCHANGED <<env, state, failing, backoff, recorded>>

DeviceChanges == device' \in Devices \ {device} /\ UNCHANGED <<dbUp, pc, loop, sleep, elapsed, recorded, quiet>>
DatabaseChanges == dbUp' = ~dbUp /\ UNCHANGED <<device, pc, loop, sleep, elapsed, recorded, quiet>>

Step ==
  \/ ProbeFails \/ WaitsForRetry \/ SyncStarts
  \/ SyncReturns \/ SyncRejected \/ SyncFails
  \/ Reports \/ ProbeReportFails \/ ReportFails

Next == Step \/ Tick \/ Crash \/ Restart \/ DeviceChanges \/ DatabaseChanges

Spec == Init /\ [][Next]_vars

\* The process runs, time passes, and Docker restarts a process that exits
\* (restart: unless-stopped).  Nothing is assumed of the device or the database.
FairSpec == Spec /\ WF_vars(Step) /\ WF_vars(Tick) /\ WF_vars(Restart)

----------------------------------------------------------------------------
TypeOK ==
  /\ device \in Devices /\ dbUp \in BOOLEAN
  /\ pc \in {"top", "syncing", "waiting", "probed", "reporting", "dead"}
  /\ state \in Labels /\ recorded \in Labels
  /\ failing \in BOOLEAN /\ age \in 0 .. AgeCap
  /\ backoff \in RetryMin .. RetryMax
  /\ apiWait \in 0 .. (6*RetryMax + 4) \div 5
  /\ sleep \in Nat /\ elapsed \in 0 .. MaxSync /\ quiet \in 0 .. QuietCap
  /\ pc = "waiting" => sleep > 0

\* What the tab shows may lag behind the loop in one way only: an outage that
\* is down already may still be shown degraded, because the report of a
\* failed probe is lost with the database and set_state does not repeat it.
\* It never shows healthy in an outage, or an outage that is over.
RecordedLagsMildly ==
  pc \in {"top", "syncing", "waiting"} =>
    recorded = state \/ (recorded = "degraded" /\ state = "down")

\* DEGRADED is "failing, for less than down_after_s": the label is refreshed
\* by probes and attempts only, so it may be late by one retry and its poll.
DegradedOneRetryLate == state = "degraded" => age + elapsed < AgeCap

\* Nothing but a restart makes the loop call COSEC sooner than an hour after
\* a rejection, or in an outage sooner than the backoff allows: four fifths of
\* the last one, which has been doubled since.
AttemptsSpaced ==
  [][pc = "top" /\ pc' = "syncing" =>
       /\ state = "auth_blocked" => quiet >= AuthRetry
       /\ InOutage => 5 * quiet >= 2 * backoff]_vars

\* Once COSEC and the database answer for good and the process is not killed
\* any more, the loop returns to healthy polling and the tab says so.
Recovers ==
  <>[](device = "answers" /\ dbUp /\ pc # "dead")
    => <>[](state = "healthy" /\ recorded = "healthy") /\ []<>(pc = "syncing")
=============================================================================
