-------------------------- MODULE IngestionProofs ---------------------------
(***************************************************************************)
(* Theorems about Ingestion, for any number of polls beside a backfill,    *)
(* any lookback, range limit and calendar: what the advisory lock buys.    *)
(***************************************************************************)
EXTENDS Ingestion, WellFoundedInduction, TLAPS

Working == {"fetching", "writing", "finishing"}

\* The lock is held by the one run that is between its start and its end.
LockHeld == \A a \in Actors : job[a].pc \in Working => lock = a

\* Nothing was asked for beyond today.
PastOnly ==
  /\ Lookback < today
  /\ \A a \in Actors : job[a].end <= today
  /\ \A r \in runs : r.to <= today

\* Staging is never ahead of COSEC.
NotAhead == \A d \in Days : staged[d] <= device[d]

\* A day that settled before the end of a range is final once it is stored.
Closed(d, to) == staged[d] # 0 /\ (d + Settling < to => staged[d] = device[d])

ChunksDone ==
  \A a \in Actors : job[a].pc \in Working =>
    /\ job[a].from <= job[a].cur
    /\ job[a].pc = "finishing" <=> job[a].cur > job[a].to
    /\ \A d \in Days : job[a].from <= d /\ d < job[a].cur /\ d <= job[a].to => Closed(d, job[a].to)

\* A run begins with the first chunk.
ReadyAtFirst == \A a \in Actors : job[a].pc = "ready" => job[a].cur = job[a].from

\* What the run has read is not older than what is stored.
ReadNotOlder ==
  \A a \in Actors : job[a].pc = "writing" => \A d \in Days :
    /\ job[a].cur <= d /\ d <= ChunkEnd(job[a].cur, job[a].to) <=> job[a].got[d] # 0
    /\ job[a].got[d] # 0 =>
         /\ staged[d] <= job[a].got[d] /\ job[a].got[d] <= device[d]
         /\ d + Settling < job[a].to => job[a].got[d] = device[d]

RunsClosed == \A r \in runs : \A d \in Days : r.from <= d /\ d <= r.to => Closed(d, r.to)

IInv ==
  /\ TypeOK /\ LockHeld /\ PastOnly /\ NotAhead
  /\ ReadyAtFirst /\ ChunksDone /\ ReadNotOlder /\ RunsClosed

\* The operators on days stay inside the calendar.
LEMMA ChunkInRange ==
  ASSUME NEW c \in Days, NEW to \in Days, c <= to
  PROVE  /\ ChunkEnd(c, to) \in c .. to /\ AfterChunk(c, to) \in c + 1 .. to + 1
  BY RangeAssumption DEF Days, ChunkEnd, AfterChunk, Least

LEMMA PollFromInRange ==
  ASSUME NEW t \in Days, NEW prev \in Days \cup {0}, Lookback < t
  PROVE  PollFrom(t, prev) \in 1 .. t
  BY RangeAssumption DEF Days, PollFrom, Least, Largest

LEMMA ReadyIsJob ==
  ASSUME NEW from \in Days, NEW to \in Days, NEW end \in Days
  PROVE  LET j == Ready(from, to, end)
         IN /\ j \in Jobs /\ j.pc = "ready" /\ j.got = NothingRead
            /\ j.from = from /\ j.to = to /\ j.cur = from /\ j.end = end
            /\ \A d \in Days : j.got[d] = 0
<1>1. NothingRead \in [Days -> 0 .. Punches] /\ from \in 1 .. LastDay + 1
  BY RangeAssumption DEF NothingRead, Days
<1>2. QED
  BY <1>1 DEF Ready, Jobs, NothingRead

LEMMA NextMonthInRange ==
  ASSUME NEW from \in Days, NEW end \in Days, from <= end, NEW j \in NextMonth(from, end)
  PROVE  /\ j \in Jobs /\ j.from = from /\ j.cur = from /\ j.end = end
         /\ j.from <= j.to /\ j.to <= j.end /\ j.pc = "ready" /\ j.got = NothingRead
<1>1. PICK m \in MonthEnd(from) : j = Ready(from, Least(m, end), end)
  BY DEF NextMonth
<1>2. m \in Days /\ from <= m
  BY <1>1, RangeAssumption DEF MonthEnd, Days
<1>3. Least(m, end) \in from .. end /\ Least(m, end) \in Days
  BY <1>2 DEF Least, Days
<1>4. QED
  BY <1>1, <1>3, ReadyIsJob DEF Days

LEMMA IdleIsJob ==
  /\ Idle \in Jobs /\ Idle.pc = "idle" /\ Idle.from = 1 /\ Idle.to = 1 /\ Idle.end = 1
  /\ \A d \in Days : Idle.got[d] = 0
<1>1. 1 \in Days /\ NothingRead \in [Days -> 0 .. Punches] /\ 1 \in 1 .. LastDay + 1
  BY RangeAssumption DEF Days, NothingRead
<1>2. QED
  BY <1>1 DEF Idle, Jobs, NothingRead

LEMMA InitInv == Init => IInv
<1> SUFFICES ASSUME Init PROVE IInv
  OBVIOUS
<1>1. TypeOK
  BY IdleIsJob, RangeAssumption DEF Init, TypeOK, Days, Actors
<1>2. QED
  BY <1>1, IdleIsJob, RangeAssumption
  DEF Init, IInv, LockHeld, PastOnly, NotAhead, ReadyAtFirst, ChunksDone, ReadNotOlder, RunsClosed, Working, Days

\* A job that is not working, put in place of one, disturbs nothing.
LEMMA Replaced ==
  ASSUME IInv, NEW a \in Actors, NEW j \in Jobs, j.pc \notin Working,
         j.from <= j.to, j.to <= j.end, j.end <= today, \A d \in Days : j.got[d] = 0,
         j.pc = "ready" => j.cur = j.from,
         job' = [job EXCEPT ![a] = j], UNCHANGED <<today, device, staged>>,
         lock' = lock \/ (lock' = NoOne /\ job[a].pc \in Working)
  PROVE  /\ job' \in [Actors -> Jobs]
         /\ \A b \in Actors :
              /\ job'[b].from <= job'[b].to /\ job'[b].to <= job'[b].end
              /\ \A d \in Days : job'[b].got[d] # 0 => d \in job'[b].from .. job'[b].to
         /\ \A b \in Actors : job'[b].end <= today
         /\ LockHeld' /\ ReadyAtFirst' /\ ChunksDone' /\ ReadNotOlder'
<1>1. job' \in [Actors -> Jobs] /\ \A b \in Actors : job'[b] = IF b = a THEN j ELSE job[b]
  BY DEF IInv, TypeOK
<1>2. \A b \in Actors : b # a /\ job[b].pc \in Working => lock' = b
  BY DEF IInv, LockHeld
<1>3. "writing" \in Working
  BY DEF Working
<1>4. QED
  BY <1>1, <1>2, <1>3 DEF IInv, TypeOK, LockHeld, PastOnly, ReadyAtFirst, ChunksDone, ReadNotOlder, Closed

LEMMA GoesIdle ==
  ASSUME IInv, NEW a \in Actors, job' = [job EXCEPT ![a] = Idle], UNCHANGED <<today, device, staged, runs>>,
         lock' = lock \/ (lock' = NoOne /\ job[a].pc \in Working)
  PROVE  IInv'
<1>1. today \in Days /\ 1 <= today
  BY DEF IInv, TypeOK, Days
<1>2. Idle \in Jobs /\ Idle.pc \notin Working /\ Idle.pc # "ready"
  BY IdleIsJob DEF Working
<1>3. Idle.from <= Idle.to /\ Idle.to <= Idle.end /\ Idle.end <= today
  BY <1>1, IdleIsJob
<1>4. \A d \in Days : Idle.got[d] = 0
  BY IdleIsJob
<1>5. PICK j \in Jobs : j = Idle
  BY <1>2
<1>6. /\ job' \in [Actors -> Jobs] /\ LockHeld' /\ ReadyAtFirst' /\ ChunksDone' /\ ReadNotOlder'
      /\ \A b \in Actors :
           /\ job'[b].from <= job'[b].to /\ job'[b].to <= job'[b].end
           /\ \A d \in Days : job'[b].got[d] # 0 => d \in job'[b].from .. job'[b].to
      /\ \A b \in Actors : job'[b].end <= today
  BY <1>2, <1>3, <1>4, <1>5, Replaced
<1>7. lock' \in Actors \cup {NoOne}
  BY DEF IInv, TypeOK
<1>8. QED
  BY <1>6, <1>7 DEF IInv, TypeOK, PastOnly, NotAhead, RunsClosed, Closed

LEMMA StartsPollInv == ASSUME IInv, NEW p \in Pollers, StartsPoll(p) PROVE IInv'
<1>1. PICK prev \in LastSuccess : job' = [job EXCEPT ![p] = Ready(PollFrom(today, prev), today, today)]
  BY DEF StartsPoll
<1>2. prev \in Days \cup {0}
  BY DEF LastSuccess, IInv, TypeOK
<1>3. today \in Days /\ Lookback < today
  BY DEF IInv, TypeOK, PastOnly
<1> DEFINE j == Ready(PollFrom(today, prev), today, today)
<1>4. PollFrom(today, prev) \in 1 .. today
  BY <1>2, <1>3, PollFromInRange
<1>5. PollFrom(today, prev) \in Days
  BY <1>3, <1>4, RangeAssumption DEF Days
<1>6. /\ j \in Jobs /\ j.pc = "ready" /\ j.from <= j.to /\ j.to = today /\ j.end = today /\ j.cur = j.from
      /\ \A d \in Days : j.got[d] = 0
  BY <1>3, <1>4, <1>5, ReadyIsJob DEF Days
<1>7. UNCHANGED <<today, device, staged, runs, lock>> /\ p \in Actors /\ "ready" \notin Working
  BY DEF StartsPoll, Actors, Working
<1>8. /\ job' \in [Actors -> Jobs] /\ LockHeld' /\ ReadyAtFirst' /\ ChunksDone' /\ ReadNotOlder'
      /\ \A b \in Actors :
           /\ job'[b].from <= job'[b].to /\ job'[b].to <= job'[b].end
           /\ \A d \in Days : job'[b].got[d] # 0 => d \in job'[b].from .. job'[b].to
      /\ \A b \in Actors : job'[b].end <= today
  <2> HIDE DEF j
  <2>1. j.end <= today /\ j.to <= j.end
    BY <1>3, <1>6 DEF Days
  <2>2. QED
    BY <1>1, <1>6, <1>7, <2>1, Replaced DEF j
<1>9. QED
  BY <1>7, <1>8 DEF IInv, TypeOK, PastOnly, NotAhead, RunsClosed, Closed

LEMMA StartsBackfillInv == ASSUME IInv, StartsBackfill PROVE IInv'
<1>1. PICK from \in 1 .. today : \E end \in from .. today : \E j \in NextMonth(from, end) :
        job' = [job EXCEPT ![Backfill] = [j EXCEPT !.pc = "fetching"]]
  BY DEF StartsBackfill
<1>2. PICK end \in from .. today : \E j \in NextMonth(from, end) :
        job' = [job EXCEPT ![Backfill] = [j EXCEPT !.pc = "fetching"]]
  BY <1>1
<1>3. from \in Days /\ end \in Days /\ end <= today /\ from <= end
  BY RangeAssumption DEF IInv, TypeOK, Days
<1>4. PICK j \in NextMonth(from, end) : job' = [job EXCEPT ![Backfill] = [j EXCEPT !.pc = "fetching"]]
  BY <1>2
<1> DEFINE k == [j EXCEPT !.pc = "fetching"]
<1>5. /\ k \in Jobs /\ k.pc = "fetching" /\ k.from = from /\ k.cur = from /\ k.end = end
      /\ k.from <= k.to /\ k.to <= k.end /\ \A d \in Days : k.got[d] = 0
  BY <1>4, <1>3, NextMonthInRange DEF Jobs, NothingRead
<1>6. UNCHANGED <<today, device, staged, runs>> /\ lock = NoOne /\ lock' = Backfill /\ Backfill \in Actors
  BY DEF StartsBackfill, Actors
<1>7. \A b \in Actors : job[b].pc \notin Working
  BY <1>6, RangeAssumption DEF IInv, LockHeld, Actors
<1> HIDE DEF k
<1>8. job' \in [Actors -> Jobs] /\ \A b \in Actors : job'[b] = IF b = Backfill THEN k ELSE job[b]
  BY <1>4, <1>5, <1>6 DEF IInv, TypeOK, k
<1>9. TypeOK'
  BY <1>5, <1>6, <1>8 DEF IInv, TypeOK
<1>10. LockHeld' /\ PastOnly'
  BY <1>3, <1>5, <1>6, <1>7, <1>8 DEF IInv, PastOnly, LockHeld
<1>11. ReadyAtFirst' /\ ChunksDone' /\ ReadNotOlder'
  <2>1. k.cur <= k.to /\ k.from \in Days /\ k.to \in Days
    BY <1>3, <1>5 DEF Jobs
  <2>2. \A b \in Actors : b # Backfill => job'[b].pc \notin Working /\ job'[b].pc # "writing"
    BY <1>7, <1>8 DEF Working
  <2>3. QED
    BY <1>5, <1>8, <2>1, <2>2 DEF IInv, ReadyAtFirst, ChunksDone, ReadNotOlder, Closed, Days
<1>12. QED
  BY <1>6, <1>9, <1>10, <1>11 DEF IInv, NotAhead, RunsClosed, Closed

LEMMA TakesLockInv == ASSUME IInv, NEW a \in Actors, TakesLock(a) PROVE IInv'
<1>1. /\ job' = [job EXCEPT ![a].pc = "fetching"] /\ lock = NoOne /\ lock' = a
      /\ job[a].pc = "ready" /\ UNCHANGED <<today, device, staged, runs>>
  BY DEF TakesLock
<1>2. /\ job' \in [Actors -> Jobs]
      /\ \A b \in Actors : job'[b] = IF b = a THEN [job[a] EXCEPT !.pc = "fetching"] ELSE job[b]
  BY <1>1 DEF IInv, TypeOK, Jobs
<1>3. \A b \in Actors : job[b].pc \notin Working
  BY <1>1, RangeAssumption DEF IInv, LockHeld, Actors
<1>4. TypeOK'
  BY <1>1, <1>2 DEF IInv, TypeOK
<1>5. LockHeld' /\ PastOnly' /\ ReadyAtFirst'
  BY <1>1, <1>2, <1>3 DEF IInv, PastOnly, LockHeld, ReadyAtFirst
<1>6. ChunksDone' /\ ReadNotOlder'
  <2>1. job[a].cur = job[a].from /\ job[a].from \in Days /\ job[a].to \in Days /\ job[a].from <= job[a].to
    BY <1>1 DEF IInv, TypeOK, Jobs, ReadyAtFirst
  <2>2. \A b \in Actors : b # a => job'[b].pc \notin Working /\ job'[b].pc # "writing"
    BY <1>2, <1>3 DEF Working
  <2>3. job'[a].pc = "fetching" /\ job'[a].cur = job[a].cur /\ job'[a].from = job[a].from /\ job'[a].to = job[a].to
    BY <1>2 DEF IInv, TypeOK, Jobs
  <2>4. QED
    BY <2>1, <2>2, <2>3 DEF ChunksDone, ReadNotOlder, Closed, Days
<1>7. QED
  BY <1>1, <1>4, <1>5, <1>6 DEF IInv, NotAhead, RunsClosed, Closed

LEMMA GivesUpInv == ASSUME IInv, NEW a \in Actors, GivesUp(a) PROVE IInv'
<1>1. /\ job' = [job EXCEPT ![a] = Idle] /\ UNCHANGED <<today, device, staged, runs, lock>>
  BY DEF GivesUp
<1>2. QED
  BY <1>1, GoesIdle

LEMMA RunFailsInv == ASSUME IInv, NEW a \in Actors, RunFails(a) PROVE IInv'
<1>1. /\ job' = [job EXCEPT ![a] = Idle] /\ UNCHANGED <<today, device, staged, runs>>
      /\ lock' = NoOne /\ job[a].pc \in Working
  BY DEF RunFails, Working
<1>2. QED
  BY <1>1, GoesIdle

LEMMA FetchesInv == ASSUME IInv, NEW a \in Actors, Fetches(a) PROVE IInv'
<1> DEFINE last == ChunkEnd(job[a].cur, job[a].to)
           got == [d \in Days |-> IF d \in job[a].cur .. last THEN device[d] ELSE 0]
           j == [job[a] EXCEPT !.pc = "writing", !.got = got]
<1>1. /\ job[a].pc = "fetching" /\ job' = [job EXCEPT ![a] = j]
      /\ UNCHANGED <<today, device, staged, runs, lock>>
  BY DEF Fetches
<1>2. /\ job[a] \in Jobs /\ job[a].from <= job[a].cur /\ job[a].cur <= job[a].to
      /\ job[a].from \in Days /\ job[a].to \in Days /\ job[a].cur \in Days /\ job[a].to <= job[a].end
      /\ job[a].to <= today
  <2>1. job[a] \in Jobs
    BY DEF IInv, TypeOK
  <2>2. job[a].from <= job[a].cur /\ ~(job[a].cur > job[a].to)
    <3>1. "fetching" \in Working /\ "fetching" # "finishing"
      BY DEF Working
    <3>2. QED
      BY <1>1, <3>1 DEF IInv, ChunksDone
  <2>3. job[a].to <= job[a].end /\ job[a].end <= today /\ today \in Days
    BY DEF IInv, TypeOK, PastOnly
  <2>4. job[a].from \in Days /\ job[a].to \in Days /\ job[a].end \in Days /\ job[a].cur \in 1 .. LastDay + 1
    BY <2>1 DEF Jobs
  <2>5. job[a].cur \in Days /\ job[a].cur <= job[a].to /\ job[a].to <= today
    BY <2>2, <2>3, <2>4, RangeAssumption DEF Days
  <2>6. QED
    BY <2>1, <2>2, <2>3, <2>4, <2>5
<1>3. last \in job[a].cur .. job[a].to
  BY <1>2, ChunkInRange
<1>4. got \in [Days -> 0 .. Punches] /\ \A d \in Days : got[d] = IF d \in job[a].cur .. last THEN device[d] ELSE 0
  BY RangeAssumption DEF IInv, TypeOK
<1>5. \A d \in Days : device[d] \in 1 .. Punches /\ staged[d] \in 0 .. Punches
  BY DEF IInv, TypeOK
<1> HIDE DEF got, last
<1>6. /\ j \in Jobs /\ j.pc = "writing" /\ j.got = got /\ j.from = job[a].from
      /\ j.to = job[a].to /\ j.cur = job[a].cur /\ j.end = job[a].end
  BY <1>2, <1>4 DEF Jobs
<1> HIDE DEF j
<1>7. job' \in [Actors -> Jobs] /\ \A b \in Actors : job'[b] = IF b = a THEN j ELSE job[b]
  BY <1>1, <1>6 DEF IInv, TypeOK
<1>8. TypeOK'
  <2>1. \A d \in Days : got[d] # 0 => d \in job[a].from .. job[a].to
    BY <1>2, <1>3, <1>4 DEF Days
  <2>2. \A b \in Actors :
          /\ job'[b].from <= job'[b].to /\ job'[b].to <= job'[b].end
          /\ \A d \in Days : job'[b].got[d] # 0 => d \in job'[b].from .. job'[b].to
    BY <1>6, <1>7, <2>1 DEF IInv, TypeOK
  <2>3. QED
    BY <1>1, <1>7, <2>2 DEF IInv, TypeOK
<1>9. LockHeld' /\ PastOnly' /\ ReadyAtFirst'
  BY <1>1, <1>6, <1>7 DEF IInv, PastOnly, LockHeld, ReadyAtFirst, Working
<1>10. ChunksDone'
  <2>1. "fetching" \in Working
    BY DEF Working
  <2>2. QED
    BY <1>1, <1>2, <1>6, <1>7, <2>1 DEF IInv, ChunksDone, Closed
<1>11. ReadNotOlder'
  <2>1. \A d \in Days : /\ job[a].cur <= d /\ d <= last <=> got[d] # 0
                        /\ got[d] # 0 => got[d] = device[d]
    BY <1>2, <1>3, <1>4, <1>5 DEF Days
  <2>2. \A d \in Days : staged[d] <= device[d] /\ device[d] <= device[d]
    BY <1>5 DEF IInv, NotAhead
  <2>3. last = ChunkEnd(job[a].cur, job[a].to)
    BY DEF last
  <2>4. QED
    BY <1>1, <1>6, <1>7, <2>1, <2>2, <2>3 DEF IInv, ReadNotOlder
<1>12. QED
  BY <1>1, <1>8, <1>9, <1>10, <1>11 DEF IInv, NotAhead, RunsClosed, Closed

\* What a writing step does to a day: it brings it up to what was read.
LEMMA WritesUp ==
  ASSUME IInv, NEW a \in Actors, Writes(a)
  PROVE  /\ staged' \in [Days -> 0 .. Punches]
         /\ \A d \in Days :
              /\ staged[d] <= staged'[d] /\ staged'[d] <= device[d]
              /\ job[a].cur <= d /\ d <= ChunkEnd(job[a].cur, job[a].to) => Closed(d, job[a].to)'
              /\ \A to \in Days : Closed(d, to) => Closed(d, to)'
<1>1. /\ job[a].pc = "writing" /\ device' = device
      /\ staged' = [d \in Days |-> IF job[a].got[d] # 0 THEN job[a].got[d] ELSE staged[d]]
      /\ job'[a].to = job[a].to
  BY DEF Writes, IInv, TypeOK, Jobs
<1>2. \A d \in Days : /\ device[d] \in 1 .. Punches /\ staged[d] \in 0 .. Punches
                      /\ job[a].got[d] \in 0 .. Punches
  BY DEF IInv, TypeOK, Jobs
<1>3. staged' \in [Days -> 0 .. Punches]
  BY <1>1, <1>2
<1>4. ASSUME NEW d \in Days
      PROVE  /\ staged[d] <= staged'[d] /\ staged'[d] <= device[d]
             /\ job[a].cur <= d /\ d <= ChunkEnd(job[a].cur, job[a].to) => Closed(d, job[a].to)'
             /\ \A to \in Days : Closed(d, to) => Closed(d, to)'
  <2>1. CASE job[a].got[d] # 0
    <3>1. /\ staged'[d] = job[a].got[d]
          /\ staged[d] <= job[a].got[d] /\ job[a].got[d] <= device[d]
          /\ d + Settling < job[a].to => job[a].got[d] = device[d]
      BY <1>1, <2>1 DEF IInv, ReadNotOlder
    <3>2. QED
      BY <1>1, <1>2, <2>1, <3>1 DEF Closed
  <2>2. CASE job[a].got[d] = 0
    <3>1. staged'[d] = staged[d] /\ staged[d] <= device[d]
      BY <1>1, <2>2 DEF IInv, NotAhead
    <3>2. ~(job[a].cur <= d /\ d <= ChunkEnd(job[a].cur, job[a].to))
      BY <1>1, <2>2 DEF IInv, ReadNotOlder
    <3>3. QED
      BY <1>1, <1>2, <3>1, <3>2 DEF Closed
  <2>3. QED
    BY <2>1, <2>2
<1>5. QED
  BY <1>3, <1>4

LEMMA WritesInv == ASSUME IInv, NEW a \in Actors, Writes(a) PROVE IInv'
<1> DEFINE next == AfterChunk(job[a].cur, job[a].to)
           pc == IF next > job[a].to THEN "finishing" ELSE "fetching"
           j == [job[a] EXCEPT !.got = NothingRead, !.cur = next, !.pc = pc]
<1>1. /\ job[a].pc = "writing" /\ job' = [job EXCEPT ![a] = j]
      /\ UNCHANGED <<today, device, runs, lock>>
  BY DEF Writes
<1>2. "writing" \in Working /\ "writing" # "finishing" /\ "ready" \notin Working
  BY DEF Working
<1>3. /\ job[a] \in Jobs /\ job[a].from <= job[a].cur /\ job[a].cur <= job[a].to
      /\ job[a].from \in Days /\ job[a].to \in Days /\ job[a].cur \in Days
      /\ job[a].to <= job[a].end
  <2>1. job[a] \in Jobs /\ job[a].to <= job[a].end
    BY DEF IInv, TypeOK
  <2>2. job[a].from <= job[a].cur /\ ~(job[a].cur > job[a].to)
    BY <1>1, <1>2 DEF IInv, ChunksDone
  <2>3. job[a].from \in Days /\ job[a].to \in Days /\ job[a].cur \in 1 .. LastDay + 1
    BY <2>1 DEF Jobs
  <2>4. job[a].cur \in Days /\ job[a].cur <= job[a].to
    BY <2>2, <2>3, RangeAssumption DEF Days
  <2>5. QED
    BY <2>1, <2>2, <2>3, <2>4
<1>4. /\ next = ChunkEnd(job[a].cur, job[a].to) + 1
      /\ next \in job[a].cur + 1 .. job[a].to + 1 /\ next \in 1 .. LastDay + 1
  BY <1>3, ChunkInRange, RangeAssumption DEF AfterChunk, Days
<1>5. NothingRead \in [Days -> 0 .. Punches] /\ \A d \in Days : NothingRead[d] = 0
  BY RangeAssumption DEF NothingRead
<1> HIDE DEF next
<1>6. /\ pc \in Working /\ pc # "writing" /\ pc # "ready" /\ pc \in {"finishing", "fetching"}
      /\ pc = "finishing" <=> next > job[a].to
  BY DEF Working
<1> HIDE DEF pc
<1>7. /\ j \in Jobs /\ j.pc = pc /\ j.got = NothingRead /\ j.cur = next
      /\ j.from = job[a].from /\ j.to = job[a].to /\ j.end = job[a].end
  BY <1>3, <1>4, <1>5, <1>6 DEF Jobs
<1> HIDE DEF j
<1>8. job' \in [Actors -> Jobs] /\ \A b \in Actors : job'[b] = IF b = a THEN j ELSE job[b]
  BY <1>1, <1>7 DEF IInv, TypeOK
<1>9. TypeOK'
  <2>1. \A b \in Actors :
          /\ job'[b].from <= job'[b].to /\ job'[b].to <= job'[b].end
          /\ \A d \in Days : job'[b].got[d] # 0 => d \in job'[b].from .. job'[b].to
    BY <1>5, <1>7, <1>8 DEF IInv, TypeOK
  <2>2. QED
    BY <1>1, <1>8, <2>1, WritesUp DEF IInv, TypeOK
<1>10. LockHeld' /\ PastOnly' /\ ReadyAtFirst'
  BY <1>1, <1>2, <1>6, <1>7, <1>8 DEF IInv, PastOnly, LockHeld, ReadyAtFirst
<1>11. NotAhead'
  BY <1>1, WritesUp DEF NotAhead
<1>12. \A b \in Actors : b # a => job'[b].pc \notin Working /\ job'[b].pc # "writing"
  BY <1>1, <1>2, <1>8 DEF IInv, LockHeld
<1>13. ChunksDone'
  <2>1. ASSUME NEW d \in Days, job[a].from <= d, d < next, d <= job[a].to
        PROVE  Closed(d, job[a].to)'
    <3>1. CASE d < job[a].cur
      <4>1. Closed(d, job[a].to)
        BY <1>1, <1>2, <2>1, <3>1 DEF IInv, ChunksDone
      <4>2. (job[a].to)' = job[a].to
        BY <1>7, <1>8
      <4>3. QED
        BY <1>3, <4>1, <4>2, WritesUp DEF Closed
    <3>2. CASE job[a].cur <= d
      <4>1. ChunkEnd(job[a].cur, job[a].to) \in Int
        BY <1>3, ChunkInRange DEF Days
      <4>2. d <= ChunkEnd(job[a].cur, job[a].to)
        BY <1>4, <2>1, <4>1 DEF Days
      <4>3. QED
        BY <3>2, <4>2, WritesUp
    <3>3. QED
      BY <1>3, <3>1, <3>2 DEF Days
  <2>2. j.from <= j.cur
    BY <1>3, <1>4, <1>7 DEF Days
  <2>3. QED
    BY <1>6, <1>7, <1>8, <1>12, <2>1, <2>2 DEF ChunksDone, Closed
<1>14. ReadNotOlder'
  BY <1>6, <1>7, <1>8, <1>12 DEF ReadNotOlder
<1>15. RunsClosed'
  <2>1. \A r \in runs : r.to \in Days
    BY DEF IInv, TypeOK
  <2>2. QED
    BY <1>1, <2>1, WritesUp DEF IInv, RunsClosed, Closed
<1>16. QED
  BY <1>9, <1>10, <1>11, <1>13, <1>14, <1>15 DEF IInv

LEMMA FinishesInv == ASSUME IInv, NEW a \in Actors, Finishes(a) PROVE IInv'
<1> DEFINE run == [poll |-> a \in Pollers, from |-> job[a].from, to |-> job[a].to]
<1>1. /\ job[a].pc = "finishing" /\ runs' = runs \cup {run} /\ lock' = NoOne
      /\ UNCHANGED <<today, device, staged>>
  BY DEF Finishes
<1>2. PICK j \in IF job[a].to = job[a].end THEN {Idle} ELSE NextMonth(job[a].to + 1, job[a].end) :
        job' = [job EXCEPT ![a] = j]
  BY DEF Finishes
<1>3. /\ "finishing" \in Working /\ "idle" \notin Working /\ "ready" \notin Working
      /\ job[a].pc \in Working
  BY <1>1 DEF Working
<1>4. /\ job[a].from \in Days /\ job[a].to \in Days /\ job[a].end \in Days
      /\ job[a].cur \in Int /\ job[a].to <= job[a].end /\ job[a].end <= today /\ today \in Days
  <2>1. job[a] \in Jobs
    BY DEF IInv, TypeOK
  <2>2. job[a].from \in Days /\ job[a].to \in Days /\ job[a].end \in Days /\ job[a].cur \in Int
    BY <2>1 DEF Jobs
  <2>3. QED
    BY <2>2 DEF IInv, TypeOK, PastOnly
<1>5. /\ j \in Jobs /\ j.pc \notin Working /\ j.from <= j.to /\ j.to <= j.end /\ j.end <= today
      /\ j.pc = "ready" => j.cur = j.from
      /\ \A d \in Days : j.got[d] = 0
  <2>1. CASE job[a].to = job[a].end
    <3>1. j = Idle
      BY <1>2, <2>1
    <3>2. Idle.pc \notin Working /\ Idle.pc # "ready" /\ 1 <= today
      BY <1>3, <1>4, IdleIsJob DEF Days
    <3>3. QED
      BY <3>1, <3>2, IdleIsJob
  <2>2. CASE job[a].to # job[a].end
    <3>1. job[a].to + 1 \in Days /\ job[a].to + 1 <= job[a].end
      BY <1>4, <2>2, RangeAssumption DEF Days
    <3>2. j \in NextMonth(job[a].to + 1, job[a].end)
      BY <1>2, <2>2
    <3>3. /\ j \in Jobs /\ j.cur = j.from /\ j.end = job[a].end
          /\ j.from <= j.to /\ j.to <= j.end /\ j.pc = "ready" /\ j.got = NothingRead
      BY <1>4, <3>1, <3>2, NextMonthInRange
    <3>4. \A d \in Days : NothingRead[d] = 0
      BY DEF NothingRead
    <3>5. "ready" \notin Working
      BY DEF Working
    <3>6. QED
      BY <1>4, <3>3, <3>4, <3>5
  <2>3. QED
    BY <2>1, <2>2
<1>6. /\ job' \in [Actors -> Jobs] /\ LockHeld' /\ ReadyAtFirst' /\ ChunksDone' /\ ReadNotOlder'
      /\ \A b \in Actors :
           /\ job'[b].from <= job'[b].to /\ job'[b].to <= job'[b].end
           /\ \A d \in Days : job'[b].got[d] # 0 => d \in job'[b].from .. job'[b].to
      /\ \A b \in Actors : job'[b].end <= today
  <2> HIDE DEF run
  <2>1. job' = [job EXCEPT ![a] = j]
    BY <1>2
  <2>2. lock' = NoOne /\ job[a].pc \in Working /\ UNCHANGED <<today, device, staged>>
    BY <1>1, <1>3
  <2>3. QED
    BY <1>5, <2>1, <2>2, Replaced
<1>7. TypeOK'
  <2>1. run \in [poll : BOOLEAN, from : Days, to : Days]
    BY <1>4
  <2>2. runs' \subseteq [poll : BOOLEAN, from : Days, to : Days] /\ lock' \in Actors \cup {NoOne}
    <3> HIDE DEF run
    <3>1. QED
      BY <1>1, <2>1 DEF IInv, TypeOK
  <2>3. QED
    BY <1>1, <1>6, <2>2 DEF IInv, TypeOK
<1>8. PastOnly'
  BY <1>1, <1>4, <1>6 DEF IInv, PastOnly, Days
<1>9. RunsClosed'
  <2>1. ASSUME NEW d \in Days, job[a].from <= d, d <= job[a].to PROVE Closed(d, job[a].to)
    <3>1. job[a].cur > job[a].to
      BY <1>1, <1>3 DEF IInv, ChunksDone
    <3>2. d < job[a].cur
      BY <1>4, <2>1, <3>1 DEF Days
    <3>3. QED
      BY <1>1, <1>3, <2>1, <3>2 DEF IInv, ChunksDone
  <2>2. QED
    BY <1>1, <2>1 DEF IInv, RunsClosed, Closed
<1>10. QED
  BY <1>1, <1>6, <1>7, <1>8, <1>9 DEF IInv, NotAhead

LEMMA DayPassesInv == ASSUME IInv, DayPasses PROVE IInv'
<1>1. today' = today + 1 /\ today < LastDay /\ UNCHANGED <<device, staged, runs, lock, job>>
  BY DEF DayPasses
<1>2. today \in Days /\ today' \in Days /\ today < today'
  BY <1>1, RangeAssumption DEF IInv, TypeOK, Days
<1>3. TypeOK'
  BY <1>1, <1>2 DEF IInv, TypeOK
<1>4. PastOnly'
  <2>1. (\A a \in Actors : job[a] \in Jobs) /\ \A r \in runs : r.to \in Days
    BY DEF IInv, TypeOK
  <2>2. (\A a \in Actors : job[a].end \in Int) /\ \A r \in runs : r.to \in Int
    BY <2>1 DEF Jobs, Days
  <2>3. QED
    BY <1>1, <1>2, <2>2, RangeAssumption DEF IInv, PastOnly, Days
<1>5. QED
  BY <1>1, <1>3, <1>4
  DEF IInv, LockHeld, NotAhead, ReadyAtFirst, ChunksDone, ReadNotOlder, RunsClosed, Closed

\* Only unsettled days move, and everything that has to be final is older.
LEMMA DeviceRevisesInv == ASSUME IInv, DeviceRevises PROVE IInv'
<1>1. PICK day \in Days :
        /\ today <= day + Settling /\ device[day] < Punches
        /\ device' = [device EXCEPT ![day] = @ + 1]
  BY DEF DeviceRevises
<1>2. /\ today \in Days /\ device \in [Days -> 1 .. Punches] /\ staged \in [Days -> 0 .. Punches]
      /\ UNCHANGED <<today, staged, runs, lock, job>>
  BY DEF IInv, TypeOK, DeviceRevises
<1>3. /\ device' \in [Days -> 1 .. Punches]
      /\ \A d \in Days : device[d] <= device'[d] /\ (d # day => device'[d] = device[d])
  BY <1>1, <1>2, RangeAssumption
<1>4. TypeOK'
  BY <1>1, <1>2, <1>3 DEF IInv, TypeOK
<1>5. \A d \in Days : staged[d] <= device'[d]
  BY <1>2, <1>3 DEF IInv, NotAhead
<1>6. ASSUME NEW d \in Days, NEW to \in Days, to <= today
      PROVE  Closed(d, to) => Closed(d, to)'
  <2>1. d + Settling < to => d # day
    BY <1>1, <1>2, <1>6, RangeAssumption DEF Days
  <2>2. QED
    BY <1>1, <1>2, <1>3, <2>1 DEF Closed
<1>7. \A a \in Actors : job[a].to \in Days /\ job[a].to <= today
  <2>1. \A a \in Actors : job[a].to \in Days /\ job[a].end \in Days /\ job[a].to <= job[a].end
    BY DEF IInv, TypeOK, Jobs
  <2>2. QED
    BY <1>2, <2>1 DEF IInv, PastOnly, Days
<1>8. ChunksDone'
  <2>1. (\A a \in Actors : \A d \in Days : Closed(d, job[a].to) => Closed(d, job[a].to)')
    BY <1>1, <1>2, <1>6, <1>7 DEF Closed
  <2>2. QED
    BY <1>1, <1>2, <2>1 DEF IInv, ChunksDone
<1>9. ReadNotOlder'
  <2>1. ASSUME NEW a \in Actors, job[a].pc = "writing", NEW d \in Days, job[a].got[d] # 0
        PROVE  /\ staged[d] <= job[a].got[d] /\ job[a].got[d] <= device'[d]
               /\ d + Settling < job[a].to => job[a].got[d] = device'[d]
    <3>1. /\ staged[d] <= job[a].got[d] /\ job[a].got[d] <= device[d]
          /\ d + Settling < job[a].to => job[a].got[d] = device[d]
      BY <2>1 DEF IInv, ReadNotOlder
    <3>2. d + Settling < job[a].to => d # day
      BY <1>1, <1>2, <1>7, RangeAssumption DEF Days
    <3>3. job[a].got[d] \in 0 .. Punches
      BY DEF IInv, TypeOK, Jobs
    <3>4. device[d] \in Int /\ device'[d] \in Int
      BY <1>2, <1>3
    <3>5. QED
      BY <1>3, <3>1, <3>2, <3>3, <3>4
  <2>2. QED
    BY <1>1, <1>2, <2>1 DEF IInv, ReadNotOlder
<1>10. RunsClosed'
  <2>1. \A r \in runs : r.to \in Days /\ r.to <= today
    BY DEF IInv, TypeOK, PastOnly
  <2>2. \A r \in runs : \A d \in Days : Closed(d, r.to) => Closed(d, r.to)'
    BY <1>6, <2>1 DEF Closed
  <2>3. QED
    BY <1>1, <1>2, <2>2 DEF IInv, RunsClosed
<1>11. QED
  BY <1>1, <1>2, <1>4, <1>5, <1>8, <1>9, <1>10 DEF IInv, LockHeld, PastOnly, NotAhead, ReadyAtFirst

LEMMA NextInv == ASSUME IInv, [Next]_vars PROVE IInv'
<1>1. CASE UNCHANGED vars
  BY <1>1 DEF vars, IInv, TypeOK, LockHeld, PastOnly, NotAhead, ReadyAtFirst, ChunksDone, ReadNotOlder,
              RunsClosed, Closed
<1>2. CASE \E p \in Pollers : StartsPoll(p)
  BY <1>2, StartsPollInv
<1>3. CASE StartsBackfill
  BY <1>3, StartsBackfillInv
<1>4. CASE \E a \in Actors :
             TakesLock(a) \/ GivesUp(a) \/ Fetches(a) \/ Writes(a) \/ Finishes(a) \/ RunFails(a)
  BY <1>4, TakesLockInv, GivesUpInv, FetchesInv, WritesInv, FinishesInv, RunFailsInv
<1>5. CASE DayPasses
  BY <1>5, DayPassesInv
<1>6. CASE DeviceRevises
  BY <1>6, DeviceRevisesInv
<1>7. QED
  BY <1>1, <1>2, <1>3, <1>4, <1>5, <1>6 DEF Next

LEMMA Inductive == Spec => []IInv
  BY InitInv, NextInv, PTL DEF Spec

\* The state of poll, backfill and staging is always well formed: no chunk, no
\* month and no poll range leaves the calendar or its run's range
\* (service.py:29-74, 245-252).
THEOREM TypeCorrect == Spec => []TypeOK
<1>1. IInv => TypeOK
  BY DEF IInv
<1>2. QED
  BY <1>1, Inductive, PTL

\* Every settled day of a successful run is stored as COSEC finally has it, and
\* stays so, whatever runs follow, overlap, fail or die
\* (service.py:86-129, repository.py:100-130).
THEOREM ClosedDaysAreStored == Spec => []ClosedDaysStored
<1>1. IInv => ClosedDaysStored
  <2> SUFFICES ASSUME IInv, NEW r \in runs, NEW d \in r.from .. r.to
               PROVE  staged[d] # 0 /\ (d + Settling < r.to => staged[d] = device[d])
    BY DEF ClosedDaysStored
  <2>1. r.from \in Days /\ r.to \in Days
    BY DEF IInv, TypeOK
  <2>2. d \in Days /\ r.from <= d /\ d <= r.to
    BY <2>1, RangeAssumption DEF Days
  <2>3. QED
    BY <2>2 DEF IInv, RunsClosed, Closed
<1>2. QED
  BY <1>1, Inductive, PTL

\* A write never takes punches from a day: what a run read is not older than
\* what is stored, because only the holder of the lock writes and it reads
\* again for every chunk (service.py:86-129).
THEOREM PunchesNeverLost == Spec => NoDayLosesPunches
<1>1. ASSUME IInv, [Next]_vars PROVE [\A d \in Days : staged'[d] >= staged[d]]_vars
  <2>1. \A d \in Days : staged[d] \in 0 .. Punches
    BY <1>1 DEF IInv, TypeOK
  <2>2. CASE \E a \in Actors : Writes(a)
    <3>1. PICK a \in Actors : Writes(a)
      BY <2>2
    <3>2. staged' \in [Days -> 0 .. Punches] /\ \A d \in Days : staged[d] <= staged'[d]
      BY <1>1, <3>1, WritesUp
    <3>3. QED
      BY <2>1, <3>2
  <2>3. CASE staged' = staged
    BY <2>1, <2>3
  <2>4. QED
    BY <1>1, <2>2, <2>3 DEF Next, vars, StartsPoll, StartsBackfill, TakesLock, GivesUp, Fetches, Finishes,
                            RunFails, DayPasses, DeviceRevises
<1>2. QED
  BY <1>1, Inductive, PTL DEF Spec, NoDayLosesPunches

----------------------------------------------------------------------------
(* Where a hole can be                                                     *)

\* Why a poll of from .. to began no earlier: it was cut to the largest range,
\* it went on from the last successful run r or kept the lookback, or it was
\* one of the first polls.
Because(from, to) ==
  \/ to - from + 1 = MaxRange
  \/ \E r \in runs :
       /\ r.to <= to /\ from = Least(to - Lookback, r.to + 1)
       /\ r.to < to \/ ~r.poll \/ r.from < from
  \/ \A r \in runs : r.poll => r.to + 1 >= to

\* Every run has a first day, and a poll reaches the lookback back.
RunsReachBack == \A r \in runs : r.from <= r.to /\ (r.poll => r.from + Lookback <= r.to)

RunsBecause == \A r \in runs : r.poll => Because(r.from, r.to)

\* The same of polls under way, which began today or yesterday.
PollsBecause ==
  \A p \in Pollers : job[p].pc # "idle" =>
    /\ job[p].to = job[p].end /\ today <= job[p].end + 1
    /\ job[p].from + Lookback <= job[p].to
    /\ Because(job[p].from, job[p].to)

HoleInv == RunsReachBack /\ RunsBecause /\ PollsBecause

\* Every non-empty set of naturals has a smallest member.
LEMMA Smallest ==
  ASSUME NEW S, S \subseteq Nat, S # {}
  PROVE  \E m \in S : \A k \in S : m <= k
<1>1. PICK m \in S : \A k \in S : ~(<<k, m>> \in OpToRel(<, Nat))
  BY NatLessThanWellFounded, WFMin, Zenon
<1>2. \A k \in S : ~(k < m)
  BY <1>1 DEF OpToRel
<1> QED BY <1>2

\* A poll that begins now has a reason to begin where it does.
LEMMA NewPollBecause ==
  ASSUME IInv, RunsReachBack, RunsBecause, NEW prev \in LastSuccess
  PROVE  LET from == PollFrom(today, prev)
         IN from + Lookback <= today /\ Because(from, today)
<1> DEFINE from == PollFrom(today, prev)
<1>1. /\ today \in Days /\ \A r \in runs : r.from \in Days /\ r.to \in Days /\ r.to <= today
      /\ \A r \in runs : r.poll \in BOOLEAN /\ r = [poll |-> r.poll, from |-> r.from, to |-> r.to]
  BY DEF IInv, TypeOK, PastOnly
<1>2. prev \in Nat /\ (prev = 0 \/ \E r \in runs : r.to = prev) /\ \A r \in runs : r.to <= prev
  BY <1>1 DEF LastSuccess, Days
<1>3. CASE prev = 0
  <2>1. runs = {}
    BY <1>1, <1>2, <1>3 DEF Days
  <2>2. from = today - Lookback
    BY <1>3 DEF PollFrom
  <2> QED BY <1>1, <2>1, <2>2, RangeAssumption DEF Because, Days
<1>4. CASE prev # 0 /\ from = today - MaxRange + 1
  BY <1>1, <1>4, RangeAssumption DEF Because, Days
<1>5. CASE prev # 0 /\ from # today - MaxRange + 1
  <2>1. PICK r \in runs : r.to = prev
    BY <1>2, <1>5
  <2>2. from = Least(today - Lookback, r.to + 1)
    BY <1>5, <2>1 DEF PollFrom, Largest
  <2>3. from + Lookback <= today /\ from \in Int
    BY <1>1, <2>2, RangeAssumption DEF Least, Days
  <2>4. CASE r.to < today \/ ~r.poll \/ r.from < from
    BY <1>1, <2>2, <2>3, <2>4 DEF Because
  <2>5. CASE ~(r.to < today) /\ r.poll /\ ~(r.from < from)
    <3>1. r.to = today /\ r.from + Lookback <= today
      BY <1>1, <2>5 DEF RunsReachBack, Days
    <3>2. from = today - Lookback
      BY <1>1, <2>2, <3>1, RangeAssumption DEF Least, Days
    <3>3. r.from = from
      BY <1>1, <2>5, <3>1, <3>2, RangeAssumption DEF Days
    <3> QED BY <2>3, <2>5, <3>1, <3>3 DEF RunsBecause
  <2> QED BY <2>4, <2>5
<1> QED BY <1>3, <1>4, <1>5

\* More runs take no reason away, if the polls among them end today or did
\* yesterday.
LEMMA StillBecause ==
  ASSUME IInv, NEW from \in Days, NEW to \in Days, to <= today, Because(from, to),
         runs \subseteq runs', \A r \in runs' : r \in runs \/ (r.poll => today <= r.to + 1 /\ r.to \in Days)
  PROVE  Because(from, to)'
<1>1. today \in Days
  BY DEF IInv, TypeOK
<1>2. CASE \A r \in runs : r.poll => r.to + 1 >= to
  <2>1. \A r \in runs' : r.poll => r.to + 1 >= to
    BY <1>1, <1>2 DEF Days
  <2> QED BY <2>1 DEF Because
<1> QED BY <1>2 DEF Because

LEMMA NextHole ==
  ASSUME IInv, IInv', HoleInv, [Next]_vars
  PROVE  HoleInv'
<1>0. /\ today \in Days /\ Backfill \notin Pollers
      /\ \A p \in Pollers : p \in Actors
      /\ \A a \in Actors : job[a] \in Jobs /\ job[a].from \in Days /\ job[a].to \in Days /\ job[a].end \in Days
      /\ \A a \in Actors : job[a].from <= job[a].to /\ job[a].to <= today
      /\ \A r \in runs : r.from \in Days /\ r.to \in Days /\ r.to <= today
  <2>1. \A a \in Actors : job[a] \in Jobs /\ job[a].from <= job[a].to /\ job[a].to <= job[a].end /\ job[a].end <= today
    BY DEF IInv, TypeOK, PastOnly
  <2>2. today \in Days /\ \A a \in Actors : job[a].from \in Days /\ job[a].to \in Days /\ job[a].end \in Days
    BY <2>1 DEF IInv, TypeOK, Jobs
  <2>3. \A a \in Actors : job[a].to <= today
    BY <2>1, <2>2 DEF Days
  <2> QED BY <2>1, <2>2, <2>3, RangeAssumption DEF IInv, TypeOK, PastOnly, Actors
<1> DEFINE Same(a) == /\ job'[a].pc # "idle" => job[a].pc # "idle"
                      /\ job'[a].pc # "idle" => job'[a].from = job[a].from /\ job'[a].to = job[a].to /\ job'[a].end = job[a].end
<1>1. ASSUME UNCHANGED <<today, runs>>, \A p \in Pollers : Same(p) PROVE HoleInv'
  <2>1. \A from, to \in Days : Because(from, to) => Because(from, to)'
    BY <1>1 DEF Because
  <2> QED BY <1>0, <1>1, <2>1 DEF HoleInv, RunsReachBack, RunsBecause, PollsBecause, Because
<1>2. CASE \E p \in Pollers : StartsPoll(p)
  <2>1. PICK p \in Pollers : StartsPoll(p)
    BY <1>2
  <2>2. PICK prev \in LastSuccess : job' = [job EXCEPT ![p] = Ready(PollFrom(today, prev), today, today)]
    BY <2>1 DEF StartsPoll
  <2> DEFINE from == PollFrom(today, prev)
  <2>3. from + Lookback <= today /\ Because(from, today)
    BY <2>2, NewPollBecause DEF HoleInv
  <2>4. job'[p].from = from /\ job'[p].to = today /\ job'[p].end = today
    BY <1>0, <2>2 DEF Ready, IInv, TypeOK
  <2>5. \A q \in Pollers : q # p => job'[q] = job[q]
    BY <1>0, <2>2 DEF IInv, TypeOK
  <2>6. UNCHANGED <<today, runs>>
    BY <2>1 DEF StartsPoll
  <2> HIDE DEF from
  <2>7. PollsBecause'
    BY <1>0, <2>3, <2>4, <2>5, <2>6 DEF HoleInv, PollsBecause, Because, Days
  <2> QED BY <2>6, <2>7 DEF HoleInv, RunsReachBack, RunsBecause, Because
<1>3. CASE StartsBackfill
  <2>1. UNCHANGED <<today, runs>> /\ \A p \in Pollers : job'[p] = job[p]
    BY <1>0, <1>3 DEF StartsBackfill, IInv, TypeOK
  <2> QED BY <1>1, <2>1
<1>4. CASE \E a \in Actors : TakesLock(a) \/ Fetches(a) \/ Writes(a)
  <2>1. PICK a \in Actors : TakesLock(a) \/ Fetches(a) \/ Writes(a)
    BY <1>4
  <2>2. job[a].pc # "idle" /\ UNCHANGED <<today, runs>>
    BY <2>1 DEF TakesLock, Fetches, Writes
  <2>3. /\ \A b \in Actors : b # a => job'[b] = job[b]
        /\ job'[a].from = job[a].from /\ job'[a].to = job[a].to /\ job'[a].end = job[a].end
    BY <1>0, <2>1 DEF TakesLock, Fetches, Writes, IInv, TypeOK, Jobs
  <2> QED BY <1>0, <1>1, <2>2, <2>3
<1>5. CASE \E a \in Actors : GivesUp(a) \/ RunFails(a)
  <2>1. PICK a \in Actors : job' = [job EXCEPT ![a] = Idle] /\ UNCHANGED <<today, runs>>
    BY <1>5 DEF GivesUp, RunFails
  <2>2. \A b \in Actors : job'[b] = job[b] \/ job'[b].pc = "idle"
    BY <2>1, IdleIsJob DEF IInv, TypeOK
  <2> QED BY <1>0, <1>1, <2>1, <2>2
<1>6. CASE \E a \in Actors : Finishes(a)
  <2>1. PICK a \in Actors : Finishes(a)
    BY <1>6
  <2> DEFINE run == [poll |-> a \in Pollers, from |-> job[a].from, to |-> job[a].to]
  <2>2. job[a].pc = "finishing" /\ runs' = runs \cup {run} /\ today' = today
    BY <2>1 DEF Finishes
  <2>3. PICK j \in IF job[a].to = job[a].end THEN {Idle} ELSE NextMonth(job[a].to + 1, job[a].end) :
          job' = [job EXCEPT ![a] = j]
    BY <2>1 DEF Finishes
  <2>4. /\ run.poll = (a \in Pollers) /\ run.from = job[a].from /\ run.to = job[a].to
        /\ run \in runs' /\ runs \subseteq runs' /\ \A r \in runs' : r \in runs \/ r = run
    BY <2>2
  <2> HIDE DEF run
  <2>5. a \in Pollers => /\ today <= job[a].to + 1 /\ job[a].to = job[a].end
                         /\ job[a].from + Lookback <= job[a].to /\ Because(job[a].from, job[a].to)
    BY <2>2 DEF HoleInv, PollsBecause
  <2>6. \A r \in runs' : r \in runs \/ (r.poll => today <= r.to + 1 /\ r.to \in Days)
    BY <1>0, <2>4, <2>5
  <2>7. ASSUME NEW from \in Days, NEW to \in Days, to <= today, Because(from, to) PROVE Because(from, to)'
    BY <2>4, <2>6, <2>7, StillBecause
  <2>8. RunsReachBack'
    BY <1>0, <2>4, <2>5 DEF HoleInv, RunsReachBack
  <2>9. ASSUME NEW r \in runs', r.poll PROVE Because(r.from, r.to)'
    <3>1. CASE r \in runs
      BY <1>0, <2>7, <2>9, <3>1 DEF HoleInv, RunsBecause
    <3>2. CASE r = run
      BY <1>0, <2>4, <2>5, <2>7, <2>9, <3>2
    <3> QED BY <2>4, <3>1, <3>2
  <2>10. \A p \in Pollers : job'[p].pc # "idle" => job'[p] = job[p] /\ job[p].pc # "idle"
    <3>1. job'[a] = j /\ \A b \in Actors : b # a => job'[b] = job[b]
      BY <2>3 DEF IInv, TypeOK
    <3>2. a \in Pollers => j.pc = "idle"
      BY <2>3, <2>5, IdleIsJob
    <3> QED BY <1>0, <3>1, <3>2
  <2>11. ASSUME NEW p \in Pollers, job'[p].pc # "idle"
         PROVE  /\ job'[p].to = job'[p].end /\ today' <= job'[p].end + 1
                /\ job'[p].from + Lookback <= job'[p].to
                /\ Because(job[p].from, job[p].to)'
    <3>1. job'[p] = job[p] /\ job[p].pc # "idle"
      BY <2>10, <2>11
    <3>2. /\ job[p].to = job[p].end /\ today <= job[p].end + 1
          /\ job[p].from + Lookback <= job[p].to /\ Because(job[p].from, job[p].to)
      BY <3>1 DEF HoleInv, PollsBecause
    <3>3. PICK from \in Days, to \in Days : from = job[p].from /\ to = job[p].to
      BY <1>0
    <3>4. Because(from, to)'
      BY <1>0, <2>7, <3>2, <3>3
    <3> QED BY <1>0, <2>2, <3>1, <3>2, <3>3, <3>4 DEF Because
  <2> QED BY <2>8, <2>9, <2>11 DEF HoleInv, RunsBecause, PollsBecause
<1>7. CASE DayPasses
  <2>1. /\ today' = today + 1 /\ UNCHANGED <<runs, job>>
        /\ \A p \in Pollers : job[p].pc # "idle" => job[p].end = today
    BY <1>7 DEF DayPasses
  <2>2. PollsBecause'
    BY <1>0, <2>1 DEF HoleInv, PollsBecause, Because, Days
  <2> QED BY <2>1, <2>2 DEF HoleInv, RunsReachBack, RunsBecause, Because
<1>8. CASE DeviceRevises \/ UNCHANGED vars
  BY <1>1, <1>8 DEF DeviceRevises, vars
<1> QED BY <1>2, <1>3, <1>4, <1>5, <1>6, <1>7, <1>8 DEF Next

\* For any overlap of polls, sync-now requests, midnights and backfills: a day
\* left out after a poll has a catch-up that was cut or a backfill right after
\* it, and polls never skip one by themselves (service.py:29-45,
\* repository.py:40-52).
THEOREM HolesAreExplained == Spec => []HolesExplained
<1>1. Init => HoleInv
  BY IdleIsJob, RangeAssumption DEF Init, HoleInv, RunsReachBack, RunsBecause, PollsBecause, Actors
<1>2. ASSUME IInv, HoleInv PROVE HolesExplained
  <2> SUFFICES ASSUME NEW d \in Days, d \notin Covered,
                      NEW s \in runs, s.poll, s.to < d,
                      NEW t \in runs, d < t.to
               PROVE  \E r \in runs :
                        LET first == IF r.poll THEN r.from ELSE Least(r.from, r.to - Lookback)
                        IN /\ d < r.from /\ \A e \in d .. first - 1 : e \notin Covered
                           /\ r.poll => Length(r) = MaxRange
    BY DEF HolesExplained
  <2>1. /\ \A r \in runs : r.from \in Nat /\ r.to \in Nat /\ r.from <= r.to /\ r.poll \in BOOLEAN
        /\ \A r \in runs : r.poll => r.from + Lookback <= r.to
        /\ d \in Nat /\ Lookback \in Nat
    <3>1. \A r \in runs : r.from \in Days /\ r.to \in Days /\ r.poll \in BOOLEAN
      BY <1>2 DEF IInv, TypeOK
    <3>2. Lookback \in Nat /\ \A k \in Days : k \in Nat
      BY RangeAssumption DEF Days
    <3> QED BY <1>2, <3>1, <3>2 DEF HoleInv, RunsReachBack
  <2>2. \A r \in runs : r.to < d \/ d < r.from
    BY <2>1 DEF Covered
  <2> DEFINE After == {r.from : r \in {q \in runs : d < q.from}}
  <2>3. PICK m \in After : \A k \in After : m <= k
    <3>1. d < t.from
      BY <2>1, <2>2
    <3> QED BY <2>1, <3>1, Smallest
  <2>4. m \in Nat /\ d < m /\ \A r \in runs : d < r.from => m <= r.from
    BY <2>1, <2>3
  <2>5. PICK n \in runs : n.from = m
    BY <2>3
  <2>6. \A e \in d .. m - 1 : e \notin Covered
    <3> SUFFICES ASSUME NEW e \in d .. m - 1, NEW r \in runs, e \in r.from .. r.to PROVE FALSE
      BY DEF Covered
    <3> QED BY <2>1, <2>2, <2>4
  <2> HIDE DEF After
  <2>7. CASE \E r \in runs : r.from = m /\ ~r.poll
    <3>1. PICK r \in runs : r.from = m /\ ~r.poll
      BY <2>7
    <3>2. \A e \in d .. Least(r.from, r.to - Lookback) - 1 : e \in d .. m - 1
      BY <2>1, <2>4, <3>1 DEF Least
    <3> QED BY <2>4, <2>6, <3>1, <3>2
  <2>8. CASE \A r \in runs : r.from = m => r.poll
    <3> DEFINE Ends == {r.to : r \in {q \in runs : q.from = m}}
    <3>1. PICK last \in Ends : \A k \in Ends : last <= k
      <4>1. Ends \subseteq Nat /\ Ends # {}
        BY <2>1, <2>5
      <4> HIDE DEF Ends
      <4> QED BY <4>1, Smallest
    <3>2. PICK r \in runs : r.from = m /\ \A q \in runs : q.from = m => r.to <= q.to
      BY <3>1
    <3> HIDE DEF Ends
    <3>3. r.poll /\ Because(m, r.to)
      BY <1>2, <2>8, <3>2 DEF HoleInv, RunsBecause
    <3>4. CASE r.to - m + 1 = MaxRange
      BY <2>4, <2>6, <3>2, <3>3, <3>4 DEF Length
    <3>5. CASE \A q \in runs : q.poll => q.to + 1 >= r.to
      <4>1. s.to + 1 >= r.to
        BY <3>5
      <4> QED BY <2>1, <2>4, <3>2, <4>1
    <3>6. CASE \E q \in runs : /\ q.to <= r.to /\ m = Least(r.to - Lookback, q.to + 1)
                               /\ q.to < r.to \/ ~q.poll \/ q.from < m
      <4>1. PICK q \in runs : /\ q.to <= r.to /\ m = Least(r.to - Lookback, q.to + 1)
                              /\ q.to < r.to \/ ~q.poll \/ q.from < m
        BY <3>6
      <4>2. m <= r.to - Lookback /\ m <= q.to + 1
        BY <2>1, <4>1 DEF Least
      <4>3. d < q.from /\ m <= q.from
        BY <2>1, <2>2, <2>4, <4>2
      <4>4. m = r.to - Lookback
        BY <2>1, <4>1, <4>3 DEF Least
      <4>5. CASE q.poll
        <5>1. q.from = m
          BY <2>1, <2>4, <4>1, <4>3, <4>4, <4>5
        <5> QED BY <2>1, <2>4, <3>2, <4>1, <4>5, <5>1
      <4>6. CASE ~q.poll
        <5>1. \A e \in d .. Least(q.from, q.to - Lookback) - 1 : e \in d .. m - 1
          BY <2>1, <2>4, <4>1, <4>3, <4>4 DEF Least
        <5> QED BY <2>6, <4>3, <4>6, <5>1
      <4> QED BY <2>1, <4>5, <4>6
    <3> QED BY <3>3, <3>4, <3>5, <3>6 DEF Because
  <2> QED BY <2>7, <2>8
<1> QED BY <1>1, <1>2, NextHole, Inductive, PTL DEF Spec
=============================================================================
