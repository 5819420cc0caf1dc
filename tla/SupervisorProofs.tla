-------------------------- MODULE SupervisorProofs --------------------------
(***************************************************************************)
(* Theorems about Supervisor, for any intervals: what sync_state may show, *)
(* and how far apart the requests to COSEC are.                            *)
(***************************************************************************)
EXTENDS Supervisor, TLAPS

LongestRetry == (6*RetryMax + 4) \div 5

\* The loop's variables fit together.
Consistent ==
  /\ pc \in {"probed", "reporting"} => sleep > 0
  /\ pc = "dead" => state = "healthy"
  /\ failing <=> state # "healthy"
  /\ state = "down" => age >= DownAfter

\* A probe changes one label only, and it was recorded.
ProbedDown == pc = "probed" => state = "down" /\ recorded = "degraded"

\* A wait of two fifths of the backoff: four fifths of it before it doubled.
FarEnough(wait, b) == 5 * wait >= 2 * b

\* The waits still to come make up the distance to the last poll.
AuthSpaced ==
  state = "auth_blocked" =>
    /\ pc = "reporting" => sleep = AuthRetry
    /\ pc = "waiting" => AuthRetry <= quiet + sleep
    /\ pc = "top" => quiet >= AuthRetry

RetrySpaced ==
  /\ pc = "syncing" => quiet >= elapsed \/ quiet = QuietCap
  /\ InOutage /\ pc # "syncing" => FarEnough(quiet + apiWait, backoff)

SInv == TypeOK /\ Consistent /\ ProbedDown /\ RecordedLagsMildly /\ AuthSpaced /\ RetrySpaced

LEMMA Times ==
  /\ PollInterval \in Nat /\ ProbeInterval \in Nat /\ RetryMin \in Nat /\ RetryMax \in Nat
  /\ DownAfter \in Nat /\ AuthRetry \in Nat /\ MaxSync \in Nat
  /\ PollInterval > 0 /\ ProbeInterval > 0 /\ RetryMin > 0 /\ RetryMin <= RetryMax
  /\ DownAfter > 0 /\ AuthRetry > 0 /\ MaxSync > 0
  BY TicksAssumption

LEMMA Caps ==
  /\ LongestRetry \in Nat /\ LongestRetry >= RetryMax
  /\ AgeCap \in Nat /\ AgeCap >= DownAfter
  /\ QuietCap \in Nat /\ QuietCap >= AuthRetry /\ QuietCap >= RetryMax
<1>1. LongestRetry \in Nat /\ LongestRetry >= RetryMax
  BY Times DEF LongestRetry
<1>2. Largest(LongestRetry, MaxSync + ProbeInterval) \in Nat
  BY Times, <1>1 DEF Largest
<1>3. AgeCap = DownAfter + Largest(LongestRetry, MaxSync + ProbeInterval) + MaxSync
  BY DEF AgeCap, LongestRetry
<1>4. QuietCap \in Nat /\ QuietCap >= AuthRetry /\ QuietCap >= RetryMax
  BY Times DEF QuietCap, Largest
<1>5. QED
  BY Times, <1>1, <1>2, <1>3, <1>4

\* The values a fresh loop starts with.
LEMMA FreshValues ==
  /\ 0 \in 0 .. LongestRetry /\ 0 \in 0 .. AgeCap /\ 0 \in 0 .. QuietCap /\ 0 \in 0 .. MaxSync
  /\ RetryMin \in RetryMin .. RetryMax /\ "healthy" \in Labels
  BY Times, Caps DEF Labels

LEMMA FartherStill ==
  ASSUME NEW x \in Int, NEW y \in Int, NEW b \in Int, x <= y, FarEnough(x, b)
  PROVE  FarEnough(y, b)
  BY DEF FarEnough

LEMMA LongestIsEnough ==
  ASSUME NEW x \in Int, NEW b \in RetryMin .. RetryMax, RetryMax <= x
  PROVE  FarEnough(x, b)
  BY Times DEF FarEnough

\* A sum stays, while one summand grows by what the other loses, or is enough
\* by itself.
LEMMA SumKept ==
  ASSUME NEW x \in Int, NEW y \in Int, NEW x2 \in Int, NEW y2 \in Int, NEW m \in Int,
         0 <= y2, (x2 >= x + 1 /\ y2 + 1 >= y) \/ (x2 >= x /\ y2 >= y) \/ x2 >= m
  PROVE  x + y \in Int /\ x2 + y2 \in Int /\ (x + y <= x2 + y2 \/ m <= x2 + y2)
  OBVIOUS

LEMMA SumStays ==
  ASSUME NEW x \in Int, NEW y \in Int, NEW x2 \in Int, NEW y2 \in Int, NEW m \in Int,
         m <= x + y, 0 <= y2, (x2 >= x + 1 /\ y2 + 1 >= y) \/ x2 >= m
  PROVE  m <= x2 + y2
  OBVIOUS

LEMMA SumAbove ==
  ASSUME NEW x \in Int, NEW y \in Int, 0 <= x
  PROVE  x + y \in Int /\ y <= x + y /\ 0 + y = y
  OBVIOUS

\* The wait drawn for a backoff is at least four fifths of it.
LEMMA JitterBounds ==
  ASSUME NEW b \in RetryMin .. RetryMax, NEW j \in Jittered(b)
  PROVE  j \in 0 .. LongestRetry /\ FarEnough(j, Least(2 * b, RetryMax))
<1>1. j \in 0 .. LongestRetry /\ 5 * j >= 4 * b
  BY Times DEF Jittered, LongestRetry
<1>2. Least(2 * b, RetryMax) \in Int /\ Least(2 * b, RetryMax) <= 2 * b
  BY Times DEF Least
<1>3. QED
  BY <1>1, <1>2, Caps DEF FarEnough

\* What record_failure does to the retry schedule.
LEMMA Schedules ==
  ASSUME TypeOK, NEW spent \in 0 .. MaxSync, RecordFailure(spent)
  PROVE  /\ failing' = TRUE /\ age' \in 0 .. AgeCap
         /\ (failing /\ age >= DownAfter => age' >= DownAfter)
         /\ backoff' \in RetryMin .. RetryMax
         /\ apiWait' \in 0 .. LongestRetry
         /\ FarEnough(spent + apiWait', backoff')
<1>1. /\ failing' = TRUE /\ age' = Least((IF failing THEN age ELSE 0) + spent, AgeCap)
      /\ backoff' = Least(2 * backoff, RetryMax)
  BY DEF RecordFailure
<1>2. PICK j \in Jittered(backoff) : apiWait' = Largest(j - spent, 0)
  BY DEF RecordFailure
<1>3. backoff \in RetryMin .. RetryMax /\ age \in 0 .. AgeCap /\ failing \in BOOLEAN
  BY DEF TypeOK
<1>4. j \in 0 .. LongestRetry /\ FarEnough(j, backoff')
  BY <1>1, <1>2, <1>3, JitterBounds
<1>5. backoff' \in RetryMin .. RetryMax
  BY <1>1, <1>3, Times DEF Least
<1>6. apiWait' \in 0 .. LongestRetry /\ j <= spent + apiWait'
  BY <1>2, <1>4, Caps, Times DEF Largest
<1>7. age' \in 0 .. AgeCap /\ (failing /\ age >= DownAfter => age' >= DownAfter)
  BY <1>1, <1>3, Caps, Times DEF Least
<1>8. FarEnough(spent + apiWait', backoff')
  <2>1. j \in Int /\ spent + apiWait' \in Int /\ backoff' \in Int
    BY <1>4, <1>5, <1>6, Caps, Times
  <2>2. QED
    BY <1>4, <1>6, <2>1, FartherStill
<1>9. QED
  BY <1>1, <1>5, <1>6, <1>7, <1>8

LEMMA InitInv == Init => SInv
<1> SUFFICES ASSUME Init PROVE SInv
  OBVIOUS
<1>1. TypeOK
  BY FreshValues DEF Init, TypeOK, Labels, LongestRetry
<1>2. QED
  BY <1>1, Times, Caps
  DEF Init, SInv, Consistent, ProbedDown, RecordedLagsMildly, AuthSpaced, RetrySpaced, InOutage

LEMMA ProbeFailsInv == ASSUME SInv, ProbeFails PROVE SInv'
<1>1. /\ pc = "top" /\ InOutage /\ state' = OutageState(age) /\ sleep' = ProbeInterval
      /\ pc' = IF state' = state THEN "waiting" ELSE "probed"
      /\ UNCHANGED <<env, failing, age, backoff, apiWait, elapsed, recorded, quiet>>
  BY DEF ProbeFails, SetState
<1>2. state' \in {"down", "degraded"} /\ (state' = "down" <=> age >= DownAfter)
  BY <1>1 DEF OutageState
<1>3. failing /\ state \in {"down", "degraded"} /\ pc' \in {"waiting", "probed"}
  BY <1>1 DEF InOutage, SInv, TypeOK, Consistent, Labels
<1>4. state' # state => state = "degraded" /\ state' = "down" /\ recorded = "degraded"
  BY <1>1, <1>2, <1>3 DEF SInv, Consistent, RecordedLagsMildly
<1>5. TypeOK'
  BY <1>1, <1>2, <1>3, Times DEF SInv, TypeOK, env, Labels
<1>6. Consistent' /\ ProbedDown' /\ RecordedLagsMildly'
  BY <1>1, <1>2, <1>3, <1>4, Times DEF SInv, Consistent, ProbedDown, RecordedLagsMildly
<1>7. AuthSpaced' /\ RetrySpaced'
  BY <1>1, <1>2, <1>3 DEF SInv, AuthSpaced, RetrySpaced, InOutage
<1>8. QED
  BY <1>5, <1>6, <1>7 DEF SInv

LEMMA WaitsForRetryInv == ASSUME SInv, WaitsForRetry PROVE SInv'
<1>1. /\ pc = "top" /\ InOutage /\ pc' = "waiting" /\ sleep' = Least(ProbeInterval, apiWait) /\ apiWait > 0
      /\ UNCHANGED <<device, dbUp, state, failing, age, backoff, apiWait, elapsed, recorded, quiet>>
  BY DEF WaitsForRetry, env, loop
<1>2. sleep' \in Nat /\ sleep' > 0
  BY <1>1, Times, Caps DEF Least, SInv, TypeOK, LongestRetry
<1>3. QED
  BY <1>1, <1>2
  DEF SInv, TypeOK, Consistent, ProbedDown, RecordedLagsMildly, AuthSpaced, RetrySpaced, InOutage

LEMMA SyncStartsInv == ASSUME SInv, SyncStarts PROVE SInv'
<1>1. /\ pc = "top" /\ pc' = "syncing" /\ elapsed' = 0 /\ quiet' = 0
      /\ UNCHANGED <<device, dbUp, state, failing, age, backoff, apiWait, sleep, recorded>>
  BY DEF SyncStarts, env, loop
<1>2. QED
  BY <1>1, Times, Caps
  DEF SInv, TypeOK, Consistent, ProbedDown, RecordedLagsMildly, AuthSpaced, RetrySpaced, InOutage

LEMMA SyncReturnsInv == ASSUME SInv, SyncReturns PROVE SInv'
<1>1. /\ pc = "syncing" /\ failing' = FALSE /\ age' = 0 /\ backoff' = RetryMin /\ apiWait' = 0
      /\ state' = "healthy" /\ sleep' = PollInterval /\ elapsed' = 0
      /\ pc' = IF state' = state THEN "waiting" ELSE "reporting"
      /\ UNCHANGED <<device, dbUp, recorded, quiet>>
  BY DEF SyncReturns, SetState, env
<1>2. pc' \in {"waiting", "reporting"} /\ (pc' = "waiting" => state = "healthy")
  BY <1>1
<1>3. TypeOK'
  BY <1>1, <1>2, FreshValues, Times DEF SInv, TypeOK, LongestRetry
<1>4. Consistent' /\ ProbedDown' /\ RecordedLagsMildly' /\ AuthSpaced' /\ RetrySpaced'
  BY <1>1, <1>2, Times
  DEF SInv, Consistent, ProbedDown, RecordedLagsMildly, AuthSpaced, RetrySpaced, InOutage
<1>5. QED
  BY <1>3, <1>4 DEF SInv

LEMMA SyncRejectedInv == ASSUME SInv, SyncRejected PROVE SInv'
<1>1. /\ pc = "syncing" /\ failing' = TRUE
      /\ age' = Least((IF failing THEN age ELSE 0) + elapsed, AgeCap)
      /\ apiWait' = Largest(apiWait - elapsed, 0)
      /\ state' = "auth_blocked" /\ sleep' = AuthRetry /\ elapsed' = 0
      /\ pc' = IF state' = state THEN "waiting" ELSE "reporting"
      /\ UNCHANGED <<device, dbUp, backoff, recorded, quiet>>
  BY DEF SyncRejected, SetState, env
<1>2. pc' \in {"waiting", "reporting"} /\ (pc' = "waiting" => state = "auth_blocked")
  BY <1>1
<1>3. age' \in 0 .. AgeCap /\ apiWait' \in 0 .. LongestRetry
  BY <1>1, Times, Caps DEF SInv, TypeOK, Least, Largest, LongestRetry
<1>4. TypeOK'
  BY <1>1, <1>2, <1>3, Times DEF SInv, TypeOK, Labels, LongestRetry
<1>5. Consistent' /\ ProbedDown' /\ RecordedLagsMildly' /\ RetrySpaced'
  BY <1>1, <1>2, Times DEF SInv, Consistent, ProbedDown, RecordedLagsMildly, RetrySpaced, InOutage
<1>6. AuthSpaced'
  BY <1>1, <1>2, Times, Caps DEF SInv, TypeOK, AuthSpaced
<1>7. QED
  BY <1>4, <1>5, <1>6 DEF SInv

LEMMA SyncFailsInv == ASSUME SInv, SyncFails PROVE SInv'
<1> DEFINE before == IF failing THEN age ELSE 0
<1>1. /\ pc = "syncing" /\ RecordFailure(elapsed) /\ state' = OutageState(before)
      /\ sleep' = ProbeInterval /\ elapsed' = 0
      /\ pc' = IF state' = state THEN "waiting" ELSE "reporting"
      /\ UNCHANGED <<device, dbUp, recorded, quiet>>
  BY DEF SyncFails, SetState, env
<1>2. pc' \in {"waiting", "reporting"} /\ (pc' = "waiting" => state' = state)
  BY <1>1
<1>3. TypeOK /\ elapsed \in 0 .. MaxSync
  BY DEF SInv, TypeOK
<1>4. /\ failing' = TRUE /\ age' \in 0 .. AgeCap /\ (failing /\ age >= DownAfter => age' >= DownAfter)
      /\ backoff' \in RetryMin .. RetryMax /\ apiWait' \in 0 .. LongestRetry
      /\ FarEnough(elapsed + apiWait', backoff')
  BY <1>1, <1>3, Schedules
<1>5. state' \in {"down", "degraded"} /\ (state' = "down" => failing /\ age >= DownAfter)
  BY <1>1, Times DEF OutageState, SInv, TypeOK
<1>6. TypeOK'
  BY <1>1, <1>2, <1>4, <1>5, Times DEF SInv, TypeOK, Labels, LongestRetry
<1>7. Consistent' /\ ProbedDown' /\ RecordedLagsMildly' /\ AuthSpaced'
  BY <1>1, <1>2, <1>4, <1>5, Times DEF SInv, Consistent, ProbedDown, RecordedLagsMildly, AuthSpaced
<1>8. RetrySpaced'
  <2>1. quiet \in Nat /\ (quiet >= elapsed \/ quiet >= RetryMax)
    <3>1. quiet \in Nat
      BY Caps DEF SInv, TypeOK
    <3>2. QED
      BY <1>1, <3>1, Caps DEF SInv, RetrySpaced
  <2>2. /\ elapsed + apiWait' \in Int /\ quiet + apiWait' \in Int /\ backoff' \in Int
        /\ elapsed + apiWait' <= quiet + apiWait' \/ RetryMax <= quiet + apiWait'
    <3>1. elapsed \in Int /\ quiet \in Int /\ apiWait' \in Int /\ 0 <= apiWait' /\ apiWait' >= apiWait'
          /\ backoff' \in Int /\ RetryMax \in Int
      BY <1>3, <1>4, <2>1, Times, Caps
    <3>2. QED
      BY <2>1, <3>1, SumKept
  <2>3. FarEnough(quiet + apiWait', backoff')
    BY <1>4, <2>2, FartherStill, LongestIsEnough
  <2>4. QED
    BY <1>1, <1>2, <2>3 DEF RetrySpaced
<1>9. QED
  BY <1>6, <1>7, <1>8 DEF SInv

LEMMA ReportsInv == ASSUME SInv, Reports PROVE SInv'
<1>1. /\ pc \in {"reporting", "probed"} /\ recorded' = state /\ pc' = "waiting"
      /\ UNCHANGED <<device, dbUp, state, failing, age, backoff, apiWait, sleep, elapsed, quiet>>
  BY DEF Reports, env, loop
<1>2. AuthSpaced'
  <2>1. state = "auth_blocked" => pc = "reporting"
    BY <1>1 DEF SInv, ProbedDown
  <2>2. QED
    BY <1>1, <2>1, Times, Caps DEF SInv, TypeOK, AuthSpaced
<1>3. QED
  BY <1>1, <1>2
  DEF SInv, TypeOK, Consistent, ProbedDown, RecordedLagsMildly, RetrySpaced, InOutage

LEMMA ProbeReportFailsInv == ASSUME SInv, ProbeReportFails PROVE SInv'
<1>1. /\ pc = "probed" /\ RecordFailure(0) /\ pc' = "waiting"
      /\ UNCHANGED <<device, dbUp, state, sleep, elapsed, recorded, quiet>>
  BY DEF ProbeReportFails, env
<1>2. TypeOK /\ 0 \in 0 .. MaxSync
  BY Times DEF SInv
<1>3. state = "down" /\ recorded = "degraded" /\ failing /\ age >= DownAfter
  BY <1>1 DEF SInv, ProbedDown, Consistent
<1>4. /\ failing' = TRUE /\ age' \in 0 .. AgeCap /\ age' >= DownAfter
      /\ backoff' \in RetryMin .. RetryMax /\ apiWait' \in 0 .. LongestRetry
      /\ FarEnough(0 + apiWait', backoff')
  BY <1>1, <1>2, <1>3, Schedules
<1>5. TypeOK'
  BY <1>1, <1>4 DEF SInv, TypeOK, Consistent, LongestRetry
<1>6. Consistent' /\ ProbedDown' /\ RecordedLagsMildly' /\ AuthSpaced'
  BY <1>1, <1>3, <1>4 DEF SInv, Consistent, ProbedDown, RecordedLagsMildly, AuthSpaced
<1>7. RetrySpaced'
  <2>1. quiet \in Nat
    BY <1>2, Caps DEF TypeOK
  <2>2. FarEnough(quiet + apiWait', backoff')
    <3>1. quiet \in Int /\ 0 <= quiet /\ apiWait' \in Int /\ backoff' \in Int
      BY <1>4, <2>1, Times, Caps
    <3>2. 0 + apiWait' = apiWait'
      BY <3>1, SumAbove
    <3>3. FarEnough(apiWait', backoff')
      BY <1>4, <3>2
    <3>4. quiet + apiWait' \in Int /\ apiWait' <= quiet + apiWait'
      BY <3>1, SumAbove
    <3>5. QED
      BY <3>1, <3>3, <3>4, FartherStill
  <2>3. QED
    BY <1>1, <2>2 DEF RetrySpaced
<1>8. QED
  BY <1>5, <1>6, <1>7 DEF SInv

LEMMA DiesInv == ASSUME SInv, Dies PROVE SInv'
<1>1. /\ pc' = "dead" /\ state' = "healthy" /\ failing' = FALSE /\ age' = 0
      /\ backoff' = RetryMin /\ apiWait' = 0 /\ sleep' = 0 /\ elapsed' = 0 /\ quiet' = 0
      /\ UNCHANGED <<device, dbUp, recorded>>
  BY DEF Dies, Fresh, env
<1>2. TypeOK'
  BY <1>1, FreshValues DEF SInv, TypeOK, LongestRetry
<1>3. Consistent' /\ ProbedDown' /\ RecordedLagsMildly' /\ AuthSpaced' /\ RetrySpaced'
  BY <1>1 DEF Consistent, ProbedDown, RecordedLagsMildly, AuthSpaced, RetrySpaced, InOutage
<1>4. QED
  BY <1>2, <1>3 DEF SInv

LEMMA RestartInv == ASSUME SInv, Restart PROVE SInv'
<1>1. /\ pc = "dead" /\ pc' = "top" /\ recorded' = "healthy"
      /\ UNCHANGED <<device, dbUp, state, failing, age, backoff, apiWait, sleep, elapsed, quiet>>
  BY DEF Restart, env, loop
<1>2. state = "healthy" /\ ~failing
  BY <1>1 DEF SInv, TypeOK, Consistent
<1>3. QED
  BY <1>1, <1>2
  DEF SInv, TypeOK, Labels, Consistent, ProbedDown, RecordedLagsMildly, AuthSpaced, RetrySpaced, InOutage

LEMMA TickInv == ASSUME SInv, Tick PROVE SInv'
<1>1. /\ quiet' = Least(quiet + 1, QuietCap)
      /\ UNCHANGED <<device, dbUp, state, failing, backoff, recorded>>
  BY DEF Tick, env
<1>2. quiet' \in 0 .. QuietCap /\ (quiet' >= quiet + 1 \/ quiet' = QuietCap)
  BY <1>1, Caps DEF SInv, TypeOK, Least
<1>3. quiet' >= quiet + 1 \/ (quiet' >= AuthRetry /\ quiet' >= RetryMax)
  BY <1>2, Caps
<1>4. CASE pc = "waiting"
  <2>1. /\ sleep' = sleep - 1 /\ pc' = (IF sleep = 1 THEN "top" ELSE pc)
        /\ age' = (IF failing THEN Least(age + 1, AgeCap) ELSE 0)
        /\ apiWait' = Largest(apiWait - 1, 0) /\ elapsed' = elapsed
    BY <1>4 DEF Tick
  <2>2. sleep \in Nat /\ sleep > 0 /\ age \in 0 .. AgeCap /\ apiWait \in 0 .. LongestRetry
    BY <1>4 DEF SInv, TypeOK, LongestRetry
  <2>3. /\ sleep' \in Nat /\ pc' \in {"top", "waiting"} /\ (pc' = "waiting" => sleep' > 0)
        /\ (pc' = "top" => sleep = 1)
    BY <1>4, <2>1, <2>2
  <2>4. /\ age' \in 0 .. AgeCap /\ (failing /\ age >= DownAfter => age' >= DownAfter)
        /\ apiWait' \in 0 .. LongestRetry /\ apiWait' + 1 >= apiWait
    BY <2>1, <2>2, Caps, Times DEF Least, Largest
  <2>5. TypeOK'
    BY <1>1, <1>2, <2>1, <2>3, <2>4 DEF SInv, TypeOK, LongestRetry
  <2>6. Consistent' /\ ProbedDown' /\ RecordedLagsMildly'
    BY <1>1, <1>4, <2>3, <2>4 DEF SInv, Consistent, ProbedDown, RecordedLagsMildly
  <2>7. AuthSpaced'
    <3>1. quiet \in Nat /\ (state = "auth_blocked" => AuthRetry <= quiet + sleep)
      BY <1>4, Caps DEF SInv, TypeOK, AuthSpaced
    <3>2. state = "auth_blocked" => AuthRetry <= quiet' + sleep'
      <4>1. /\ quiet \in Int /\ sleep \in Int /\ quiet' \in Int /\ sleep' \in Int /\ AuthRetry \in Int
            /\ 0 <= sleep' /\ sleep' + 1 >= sleep
            /\ quiet' >= quiet + 1 \/ quiet' >= AuthRetry
        BY <1>2, <1>3, <2>1, <2>2, <2>3, <3>1, Times
      <4>2. QED
        BY <3>1, <4>1, SumStays
    <3>3. pc' = "top" => sleep' = 0
      BY <2>1, <2>2, <2>3
    <3>4. QED
      BY <1>1, <1>2, <2>3, <3>2, <3>3, Caps, Times DEF AuthSpaced
  <2>8. RetrySpaced'
    <3>1. /\ quiet \in Nat /\ backoff \in RetryMin .. RetryMax
          /\ InOutage => FarEnough(quiet + apiWait, backoff)
      BY <1>4, Caps DEF SInv, TypeOK, RetrySpaced
    <3>2. InOutage => FarEnough(quiet' + apiWait', backoff)
      <4>1. /\ quiet + apiWait \in Int /\ quiet' + apiWait' \in Int /\ backoff \in Int
            /\ quiet + apiWait <= quiet' + apiWait' \/ RetryMax <= quiet' + apiWait'
        <5>1. /\ quiet \in Int /\ apiWait \in Int /\ quiet' \in Int /\ apiWait' \in Int
              /\ RetryMax \in Int /\ backoff \in Int /\ 0 <= apiWait'
          BY <1>2, <2>2, <2>4, <3>1, Caps, Times
        <5>2. /\ apiWait' + 1 >= apiWait
              /\ quiet' >= quiet + 1 \/ quiet' >= RetryMax
          BY <1>3, <2>4
        <5>3. QED
          BY <5>1, <5>2, SumKept
      <4>2. QED
        BY <3>1, <4>1, FartherStill, LongestIsEnough
    <3>3. QED
      BY <1>1, <2>3, <3>2 DEF RetrySpaced, InOutage
  <2>9. QED
    BY <2>5, <2>6, <2>7, <2>8 DEF SInv
<1>5. CASE pc = "syncing"
  <2>1. /\ elapsed < MaxSync /\ elapsed' = elapsed + 1
        /\ UNCHANGED <<pc, sleep, age, apiWait>>
    BY <1>5 DEF Tick
  <2>2. elapsed' \in 0 .. MaxSync /\ elapsed \in Nat
    BY <2>1, Times DEF SInv, TypeOK
  <2>3. quiet' >= elapsed' \/ quiet' = QuietCap
    BY <1>1, <1>2, <1>5, <2>1, <2>2, Caps DEF SInv, TypeOK, RetrySpaced, Least
  <2>4. TypeOK'
    BY <1>1, <1>2, <2>1, <2>2 DEF SInv, TypeOK
  <2>5. QED
    BY <1>1, <1>5, <2>1, <2>3, <2>4
    DEF SInv, Consistent, ProbedDown, RecordedLagsMildly, AuthSpaced, RetrySpaced, InOutage
<1>6. QED
  BY <1>4, <1>5 DEF Tick

LEMMA EnvironmentInv == ASSUME SInv, DeviceChanges \/ DatabaseChanges PROVE SInv'
<1>1. device' \in Devices /\ dbUp' \in BOOLEAN
  BY DEF DeviceChanges, DatabaseChanges, SInv, TypeOK
<1>2. UNCHANGED <<pc, state, failing, age, backoff, apiWait, sleep, elapsed, recorded, quiet>>
  BY DEF DeviceChanges, DatabaseChanges, loop
<1>3. QED
  BY <1>1, <1>2
  DEF SInv, TypeOK, Consistent, ProbedDown, RecordedLagsMildly, AuthSpaced, RetrySpaced, InOutage

LEMMA NextInv == ASSUME SInv, [Next]_vars PROVE SInv'
<1>1. CASE UNCHANGED vars
  BY <1>1 DEF vars, env, loop, SInv, TypeOK, Consistent, ProbedDown, RecordedLagsMildly, AuthSpaced,
              RetrySpaced, InOutage
<1>2. CASE Step
  BY <1>2, ProbeFailsInv, WaitsForRetryInv, SyncStartsInv, SyncReturnsInv, SyncRejectedInv, SyncFailsInv,
     ReportsInv, ProbeReportFailsInv, DiesInv DEF Step, ReportFails
<1>3. CASE Tick \/ Crash \/ Restart \/ DeviceChanges \/ DatabaseChanges
  BY <1>3, TickInv, DiesInv, RestartInv, EnvironmentInv DEF Crash
<1>4. QED
  BY <1>1, <1>2, <1>3 DEF Next

LEMMA Inductive == Spec => []SInv
  BY InitInv, NextInv, PTL DEF Spec

\* Backoff, waits and the age of an outage keep to their ranges; the loop never
\* goes to sleep for no time (supervisor.py:111-138).
THEOREM TypeCorrect == Spec => []TypeOK
<1>1. SInv => TypeOK
  BY DEF SInv
<1>2. QED
  BY <1>1, Inductive, PTL

\* For any intervals and however the database fails, the row of sync_state
\* never shows healthy in an outage nor an outage that is over, while the loop
\* lives (supervisor.py:100-109, service.py:187-203).
THEOREM RecordIsRight == Spec => []RecordedLagsMildly
<1>1. SInv => RecordedLagsMildly
  BY DEF SInv
<1>2. QED
  BY <1>1, Inductive, PTL

\* For any intervals, jitter and durations of polls, the loop leaves an hour
\* after a rejection and the backoff in an outage between two polls
\* (supervisor.py:121-147).
THEOREM AttemptsAreSpaced == Spec => AttemptsSpaced
<1>1. ASSUME SInv, [Next]_vars, pc = "top", pc' = "syncing"
      PROVE  /\ state = "auth_blocked" => quiet >= AuthRetry
             /\ InOutage => 5 * quiet >= 2 * backoff
  <2>1. SyncStarts \/ UNCHANGED pc \/ pc' \in {"waiting", "probed", "reporting", "dead", "top"}
    BY <1>1 DEF Next, Step, ProbeFails, SetState, WaitsForRetry, SyncReturns, SyncRejected, SyncFails, Reports,
                ProbeReportFails, ReportFails, Crash, Dies, Restart, Tick, DeviceChanges, DatabaseChanges, vars
  <2>2. MayCall
    BY <1>1, <2>1 DEF SyncStarts
  <2>3. state = "auth_blocked" => quiet >= AuthRetry
    BY <1>1 DEF SInv, AuthSpaced
  <2>4. InOutage => 5 * quiet >= 2 * backoff
    <3>1. InOutage => FarEnough(quiet + apiWait, backoff) /\ apiWait = 0
      BY <1>1, <2>2 DEF SInv, RetrySpaced, MayCall
    <3>2. quiet + 0 = quiet
      BY <1>1, Caps DEF SInv, TypeOK
    <3>3. QED
      BY <3>1, <3>2 DEF FarEnough
  <2>5. QED
    BY <2>3, <2>4
<1>2. SInv /\ [Next]_vars =>
        [pc = "top" /\ pc' = "syncing" =>
           /\ state = "auth_blocked" => quiet >= AuthRetry
           /\ InOutage => 5 * quiet >= 2 * backoff]_vars
  BY <1>1
<1>3. QED
  BY <1>2, Inductive, PTL DEF Spec, AttemptsSpaced

----------------------------------------------------------------------------
(* How late the label degraded may be                                      *)

\* What an outage that is labelled degraded may last beyond down_after_s
\* before the next probe or attempt: the longest retry, or a poll and a probe.
Slack == Largest(LongestRetry, MaxSync + ProbeInterval)

\* The waits that end with a fresh label end within the slack.
LabelSoon ==
  /\ pc # "syncing" => elapsed = 0
  /\ state = "degraded" =>
       /\ age < DownAfter + Slack
       /\ pc # "syncing" => age + apiWait < DownAfter + Slack
       /\ pc \in {"waiting", "reporting"} => age + sleep < DownAfter + Slack

LEMMA SlackIs ==
  /\ Slack \in Nat /\ LongestRetry <= Slack /\ MaxSync + ProbeInterval <= Slack
  /\ AgeCap = DownAfter + Slack + MaxSync
BY Times, Caps DEF Slack, Largest, AgeCap, LongestRetry

LEMMA FailureLabelledSoon ==
  ASSUME SInv, LabelSoon, SyncFails
  PROVE  LabelSoon'
<1> DEFINE before == IF failing THEN age ELSE 0
<1>1. /\ RecordFailure(elapsed) /\ state' = OutageState(before)
      /\ sleep' = ProbeInterval /\ elapsed' = 0
  BY DEF SyncFails, SetState
<1>2. PICK j \in Jittered(backoff) : apiWait' = Largest(j - elapsed, 0)
  BY <1>1 DEF RecordFailure
<1>3. j \in 0 .. LongestRetry
  BY JitterBounds DEF SInv, TypeOK
<1>4. age' = Least(before + elapsed, AgeCap) /\ before \in Nat /\ elapsed \in 0 .. MaxSync
  BY <1>1, Caps DEF RecordFailure, SInv, TypeOK
<1>5. age' \in Nat /\ age' <= before + elapsed
  BY <1>4, Caps, Times DEF Least
<1>6. SUFFICES ASSUME state' = "degraded" PROVE LabelSoon'
  BY <1>1 DEF LabelSoon
<1>7. before < DownAfter
  BY <1>1, <1>4, <1>6, Times DEF OutageState
<1> HIDE DEF before
<1>8. age' + sleep' < DownAfter + Slack
  BY <1>1, <1>4, <1>5, <1>7, SlackIs, Times
<1>9. age' + apiWait' < DownAfter + Slack
  BY <1>2, <1>3, <1>4, <1>5, <1>7, SlackIs, Caps, Times DEF Largest
<1>10. age' < DownAfter + Slack
  <2>1. before < DownAfter /\ before \in Nat /\ elapsed \in 0 .. MaxSync /\ MaxSync + ProbeInterval <= Slack
    BY <1>4, <1>7, SlackIs
  <2>2. before + elapsed < DownAfter + Slack
    BY <2>1, SlackIs, Times
  <2> QED BY <1>4, <1>5, <2>2, SlackIs, Times
<1> QED BY <1>1, <1>8, <1>9, <1>10 DEF LabelSoon

LEMMA NextLabel ==
  ASSUME SInv, SInv', LabelSoon, [Next]_vars
  PROVE  LabelSoon'
<1>0. /\ age \in Nat /\ apiWait \in 0 .. LongestRetry /\ sleep \in Nat /\ elapsed \in 0 .. MaxSync
      /\ age' \in Nat /\ apiWait' \in Nat /\ sleep' \in Nat
      /\ LongestRetry \in Nat /\ Slack \in Nat
  BY Caps, SlackIs DEF SInv, TypeOK, LongestRetry
<1>1. CASE ProbeFails
  <2>1. /\ pc = "top" /\ sleep' = ProbeInterval /\ state' = OutageState(age)
        /\ pc' \in {"waiting", "probed"} /\ UNCHANGED <<age, apiWait, elapsed>>
    BY <1>1 DEF ProbeFails, SetState
  <2>2. state' = "degraded" => age < DownAfter
    BY <1>0, <2>1, Times DEF OutageState
  <2>3. state' = "degraded" => age + apiWait < DownAfter + Slack /\ age + ProbeInterval < DownAfter + Slack
                               /\ age < DownAfter + Slack
    BY <1>0, <2>2, SlackIs, Times
  <2> QED BY <2>1, <2>3 DEF LabelSoon
<1>2. CASE WaitsForRetry
  <2>1. /\ pc = "top" /\ pc' = "waiting" /\ sleep' = Least(ProbeInterval, apiWait)
        /\ UNCHANGED <<state, age, apiWait, elapsed>>
    BY <1>2 DEF WaitsForRetry, loop
  <2>2. sleep' <= apiWait
    BY <1>0, <2>1, Times DEF Least
  <2> QED BY <1>0, <2>1, <2>2, Times DEF LabelSoon
<1>3. CASE SyncStarts
  BY <1>3 DEF SyncStarts, loop, LabelSoon
<1>4. CASE SyncReturns \/ SyncRejected
  BY <1>4 DEF SyncReturns, SyncRejected, SetState, LabelSoon
<1>5. CASE SyncFails
  BY <1>5, FailureLabelledSoon
<1>6. CASE Reports
  <2>1. pc = "probed" => state = "down"
    BY DEF SInv, ProbedDown
  <2> QED BY <1>6, <2>1 DEF Reports, loop, LabelSoon
<1>7. CASE ProbeReportFails
  <2>1. state' = "down" /\ elapsed' = elapsed /\ pc = "probed"
    BY <1>7 DEF ProbeReportFails, SInv, ProbedDown
  <2> QED BY <2>1 DEF LabelSoon
<1>8. CASE Crash \/ ReportFails
  BY <1>8 DEF Crash, ReportFails, Dies, Fresh, LabelSoon
<1>9. CASE Restart
  <2>1. state = "healthy" /\ state' = state /\ elapsed' = elapsed /\ pc = "dead"
    BY <1>9 DEF Restart, loop, SInv, Consistent
  <2> QED BY <2>1 DEF LabelSoon
<1>10. CASE Tick
  <2>1. UNCHANGED <<state, failing>>
    BY <1>10 DEF Tick
  <2>2. CASE pc = "waiting"
    <3>1. /\ sleep' = sleep - 1 /\ pc' \in {"top", "waiting"}
          /\ age' = (IF failing THEN Least(age + 1, AgeCap) ELSE 0)
          /\ apiWait' = Largest(apiWait - 1, 0) /\ elapsed' = elapsed
      BY <1>10, <2>2 DEF Tick
    <3>2. sleep > 0
      BY <2>2 DEF SInv, TypeOK
    <3>3. age' <= age + 1
      BY <1>0, <3>1, Caps DEF Least
    <3>4. apiWait' = apiWait - 1 \/ apiWait' = 0
      BY <1>0, <3>1 DEF Largest
    <3>5. ASSUME state = "degraded"
          PROVE  /\ age' < DownAfter + Slack /\ age' + apiWait' < DownAfter + Slack
                 /\ age' + sleep' < DownAfter + Slack
      <4>1. age + apiWait < DownAfter + Slack /\ age + sleep < DownAfter + Slack
        BY <2>2, <3>5 DEF LabelSoon
      <4> QED BY <1>0, <3>1, <3>2, <3>3, <3>4, <4>1, Times
    <3> QED BY <2>1, <2>2, <3>1, <3>5 DEF LabelSoon
  <2>3. CASE pc = "syncing"
    BY <1>10, <2>1, <2>3 DEF Tick, LabelSoon
  <2> QED BY <1>10, <2>2, <2>3 DEF Tick
<1>11. CASE DeviceChanges \/ DatabaseChanges \/ UNCHANGED vars
  BY <1>11 DEF DeviceChanges, DatabaseChanges, vars, loop, LabelSoon
<1> QED BY <1>1, <1>2, <1>3, <1>4, <1>5, <1>6, <1>7, <1>8, <1>9, <1>10, <1>11 DEF Next, Step

\* However long polls take, retries wait and probes fail: an outage keeps the
\* label degraded past down_after_s for one retry and its poll at most
\* (supervisor.py:111-119), for any intervals.
THEOREM DegradedIsOneRetryLate == Spec => []DegradedOneRetryLate
<1>1. Init => LabelSoon
  BY DEF Init, LabelSoon
<1>2. SInv /\ LabelSoon => DegradedOneRetryLate
  <2> SUFFICES ASSUME SInv, LabelSoon, state = "degraded" PROVE age + elapsed < AgeCap
    BY DEF DegradedOneRetryLate
  <2>1. age < DownAfter + Slack /\ age \in Nat /\ elapsed \in Nat /\ elapsed <= MaxSync
    BY Caps, Times DEF SInv, TypeOK, LabelSoon
  <2> QED BY <2>1, SlackIs, Times
<1> QED BY <1>1, <1>2, NextLabel, Inductive, PTL DEF Spec
=============================================================================
