------------------------- MODULE WfhPoliciesProofs -------------------------
(***************************************************************************)
(* Theorems about WfhPolicies: type correctness, revoked policies stay as  *)
(* they are whatever is in flight, policies overlap only if they were      *)
(* written side by side, and the exempt set of a window is exact.          *)
(***************************************************************************)
EXTENDS WfhPolicies, TLAPS

\* A patch in flight holds the lock of a policy that stands, and will change
\* nothing but valid dates of it.
PatchesHold ==
  \A w \in Writers :
    writer[w].op = "patch"
    => /\ writer[w].id \in Standing
       /\ writer[w].row.employee = policy[writer[w].id].employee
       /\ Valid(policy[writer[w].id].type, writer[w].row.start, writer[w].row.end)

\* A creation in flight will insert a valid row.
CreationsValid ==
  \A w \in Writers :
    writer[w].op = "create"
    => /\ writer[w].row.employee \in Employees
       /\ writer[w].row.status = "pending"
       /\ Valid(writer[w].row.type, writer[w].row.start, writer[w].row.end)

RecallsNamed ==
  \A r \in Recallers : recaller[r] # NoRecall => recaller[r].employee \in Employees

TypeInv == TypeOK /\ PatchesHold /\ CreationsValid /\ RecallsNamed

LEMMA IdleType == Idle \in Writing
  <1>1. NoPolicy \in Policies
    BY WfhBounds DEF NoPolicy, Policies, Types, Dates, Open
  <1> QED BY <1>1 DEF Idle, Writing

\* A commit ends the request and changes of the others what they have missed.
LEMMA CommitsType ==
  ASSUME TypeOK, NEW w \in Writers, NEW i \in Ids, Commits(w, i)
  PROVE  /\ writer' \in [Writers -> Writing] /\ raced' \subseteq Ids \X Ids
         /\ writer'[w] = Idle
         /\ \A v \in Writers \ {w} :
              /\ writer'[v].op = writer[v].op /\ writer'[v].id = writer[v].id
              /\ writer'[v].row = writer[v].row /\ writer'[v].checked = writer[v].checked
              /\ writer[v].checked => writer'[v].missed = writer[v].missed \cup {i}
  <1>1. /\ writer \in [Writers -> Writing] /\ raced \subseteq Ids \X Ids
        /\ writer[w].missed \subseteq Ids
    BY DEF TypeOK, Writing
  <1>2. \A v \in Writers : writer'[v] = IF v = w THEN Idle
                                        ELSE IF writer[v].checked
                                        THEN [writer[v] EXCEPT !.missed = @ \cup {i}] ELSE writer[v]
    BY DEF Commits
  <1>3. \A x \in Writing : /\ [x EXCEPT !.missed = @ \cup {i}] \in Writing
                           /\ [x EXCEPT !.missed = @ \cup {i}].op = x.op
                           /\ [x EXCEPT !.missed = @ \cup {i}].id = x.id
                           /\ [x EXCEPT !.missed = @ \cup {i}].row = x.row
                           /\ [x EXCEPT !.missed = @ \cup {i}].checked = x.checked
                           /\ [x EXCEPT !.missed = @ \cup {i}].missed = x.missed \cup {i}
    BY DEF Writing
  <1>4. \A v \in Writers : writer'[v] \in Writing
    BY <1>1, <1>2, <1>3, IdleType
  <1>5. writer' \in [Writers -> Writing]
    BY <1>4 DEF Commits
  <1>6. raced' \subseteq Ids \X Ids
    BY <1>1 DEF Commits
  <1> QED BY <1>1, <1>2, <1>3, <1>5, <1>6

\* Changing the status or the dates of a policy keeps its type.
LEMMA Edited ==
  ASSUME NEW p \in Policies
  PROVE  /\ \A s \in {"approved", "revoked"} : [p EXCEPT !.status = s] \in Policies
         /\ \A start \in Dates, end \in Dates \cup {Open} :
              [p EXCEPT !.start = start, !.end = end] \in Policies
  BY DEF Policies

LEMMA InitTypes == Init => TypeInv
<1> SUFFICES ASSUME Init PROVE TypeInv
  OBVIOUS
<1>1. NoPolicy \in Policies
  BY WfhBounds DEF NoPolicy, Policies, Types, Dates, Open
<1>2. TypeOK
  BY <1>1, IdleType, WfhBounds DEF Init, TypeOK, Stored, NoRecall, NoPolicy, Dates
<1>3. QED
  BY <1>2 DEF Init, TypeInv, PatchesHold, CreationsValid, RecallsNamed, Idle

LEMMA CreateTypes ==
  ASSUME TypeInv, NEW w \in Writers, NEW e \in Employees, NEW type \in Types, NEW start \in Dates,
         NEW end \in Dates \cup {Open}, CreateChecks(w, e, type, start, end)
  PROVE  TypeInv'
<1> DEFINE row == [employee |-> e, type |-> type, start |-> start, end |-> end, status |-> "pending"]
<1>1. row \in Policies
  BY DEF Policies
<1> DEFINE q == [op |-> "create", id |-> 0, row |-> row, checked |-> TRUE, missed |-> {}]
<1>2. /\ writer' = [writer EXCEPT ![w] = q] /\ q.op = "create" /\ q.row = row
      /\ UNCHANGED <<policy, recalls, recaller, raced>> /\ Valid(type, start, end)
  BY DEF CreateChecks
<1>6. q \in Writing
  BY <1>1 DEF Writing
<1> HIDE DEF q
<1>3. TypeOK'
  BY <1>2, <1>6 DEF TypeInv, TypeOK, Stored
<1>4. (PatchesHold /\ CreationsValid /\ RecallsNamed)'
  BY <1>2 DEF TypeInv, TypeOK, PatchesHold, CreationsValid, RecallsNamed, Standing, Stored
<1>5. QED
  BY <1>3, <1>4 DEF TypeInv

LEMMA PatchTypes ==
  ASSUME TypeInv, NEW w \in Writers, NEW i \in Ids, NEW start \in Dates,
         NEW end \in Dates \cup {Open}, PatchLocks(w, i, start, end)
  PROVE  TypeInv'
<1> DEFINE row == [policy[i] EXCEPT !.start = start, !.end = end]
<1>1. policy[i] \in Policies /\ row \in Policies
  BY Edited DEF TypeInv, TypeOK
<1>2. row.employee = policy[i].employee /\ row.start = start /\ row.end = end
  BY <1>1 DEF Policies
<1> DEFINE q == [op |-> "patch", id |-> i, row |-> row, checked |-> FALSE, missed |-> {}]
<1>3. /\ writer' = [writer EXCEPT ![w] = q] /\ q.op = "patch" /\ q.id = i /\ q.row = row
      /\ UNCHANGED <<policy, recalls, recaller, raced>>
      /\ i \in Standing /\ Valid(policy[i].type, start, end)
  BY DEF PatchLocks
<1>7. q \in Writing
  BY <1>1 DEF Writing
<1> HIDE DEF q
<1>4. TypeOK'
  BY <1>3, <1>7 DEF TypeInv, TypeOK, Stored
<1>5. (PatchesHold /\ CreationsValid /\ RecallsNamed)'
  BY <1>2, <1>3 DEF TypeInv, TypeOK, PatchesHold, CreationsValid, RecallsNamed, Standing, Stored
<1>6. QED
  BY <1>4, <1>5 DEF TypeInv

LEMMA InsertTypes ==
  ASSUME TypeInv, NEW w \in Writers, CreateInserts(w)
  PROVE  TypeInv'
<1> DEFINE row == writer[w].row
<1>1. PICK i \in Ids \ Stored : policy' = [policy EXCEPT ![i] = row] /\ Commits(w, i)
  BY DEF CreateInserts
<1>2. /\ row \in Policies /\ row.employee \in Employees /\ row.status = "pending"
      /\ Valid(row.type, row.start, row.end)
  BY DEF CreateInserts, TypeInv, TypeOK, CreationsValid, Writing
<1>3. /\ UNCHANGED <<recalls, recaller>>
      /\ writer' \in [Writers -> Writing] /\ raced' \subseteq Ids \X Ids
      /\ \A v \in Writers : \/ writer'[v].op = "none"
                            \/ /\ writer'[v].op = writer[v].op /\ writer'[v].id = writer[v].id
                               /\ writer'[v].row = writer[v].row
  BY <1>1, CommitsType DEF CreateInserts, TypeInv, Idle
<1>4. /\ Stored' = Stored \cup {i} /\ Standing \subseteq Standing'
      /\ policy'[i] = row /\ \A j \in Stored : policy'[j] = policy[j]
  BY <1>1, <1>2 DEF Stored, Standing, TypeInv, TypeOK
<1>5. TypeOK'
  BY <1>1, <1>2, <1>3, <1>4 DEF TypeInv, TypeOK
<1>6. (PatchesHold /\ CreationsValid /\ RecallsNamed)'
  BY <1>3, <1>4 DEF TypeInv, TypeOK, PatchesHold, CreationsValid, RecallsNamed, Standing
<1>7. QED
  BY <1>5, <1>6 DEF TypeInv

LEMMA UpdateTypes ==
  ASSUME TypeInv, NEW w \in Writers, PatchUpdates(w)
  PROVE  TypeInv'
<1> DEFINE i == writer[w].id
           row == writer[w].row
<1>1. /\ row \in Policies /\ i \in Standing /\ i \in Ids
      /\ Valid(policy[i].type, row.start, row.end)
  BY DEF PatchUpdates, TypeInv, TypeOK, PatchesHold, Standing, Stored, Writing
<1>2. /\ policy[i] \in Policies /\ row.start \in Dates /\ row.end \in Dates \cup {Open}
  BY <1>1 DEF TypeInv, TypeOK, Policies
<1>3. policy' = [policy EXCEPT ![i] = [policy[i] EXCEPT !.start = row.start, !.end = row.end]]
  BY <1>1 DEF PatchUpdates, TypeInv, TypeOK
<1>4. /\ UNCHANGED <<recalls, recaller>>
      /\ writer' \in [Writers -> Writing] /\ raced' \subseteq Ids \X Ids
      /\ \A v \in Writers : \/ writer'[v].op = "none"
                            \/ /\ writer'[v].op = writer[v].op /\ writer'[v].id = writer[v].id
                               /\ writer'[v].row = writer[v].row
  BY <1>1, CommitsType DEF PatchUpdates, TypeInv, Idle
<1>5. /\ policy'[i] \in Policies /\ policy'[i].employee = policy[i].employee
      /\ policy'[i].status = policy[i].status /\ policy'[i].type = policy[i].type
      /\ policy'[i].start = row.start /\ policy'[i].end = row.end
      /\ \A j \in Ids \ {i} : policy'[j] = policy[j]
  <2>1. /\ policy'[i] = [policy[i] EXCEPT !.start = row.start, !.end = row.end]
        /\ \A j \in Ids \ {i} : policy'[j] = policy[j]
    BY <1>1, <1>3 DEF TypeInv, TypeOK
  <2>2. policy'[i] \in Policies
    BY <1>2, <2>1 DEF Policies
  <2>3. QED
    BY <1>2, <2>1, <2>2 DEF Policies
<1>6. Stored' = Stored /\ Standing' = Standing
  BY <1>1, <1>5 DEF Stored, Standing
<1>7. TypeOK'
  <2>1. policy' \in [Ids -> Policies]
    BY <1>1, <1>3, <1>5 DEF TypeInv, TypeOK
  <2>2. \A j \in Stored' : /\ policy'[j].employee \in Employees
                           /\ Valid(policy'[j].type, policy'[j].start, policy'[j].end)
    BY <1>1, <1>5, <1>6 DEF TypeInv, TypeOK, Stored
  <2>3. QED
    BY <1>4, <2>1, <2>2 DEF TypeInv, TypeOK
<1>8. (PatchesHold /\ CreationsValid /\ RecallsNamed)'
  <2>1. PatchesHold'
    BY <1>1, <1>4, <1>5, <1>6 DEF TypeInv, TypeOK, PatchesHold, Standing, Stored
  <2>2. QED
    BY <1>4, <2>1 DEF TypeInv, TypeOK, CreationsValid, RecallsNamed
<1>9. QED
  BY <1>7, <1>8 DEF TypeInv

\* Approve and Revoke change the status alone; a patch in flight keeps them out.
LEMMA StatusTypes ==
  ASSUME TypeInv, NEW i \in Ids, Approve(i) \/ Revoke(i)
  PROVE  TypeInv'
<1>1. PICK s \in {"approved", "revoked"} :
        policy' = [policy EXCEPT ![i] = [policy[i] EXCEPT !.status = s]]
  BY DEF Approve, Revoke, TypeInv, TypeOK
<1>2. policy[i] \in Policies
  BY DEF TypeInv, TypeOK
<1>3. /\ policy'[i] \in Policies /\ policy'[i].employee = policy[i].employee
      /\ policy'[i].type = policy[i].type /\ policy'[i].status = s
      /\ policy'[i].start = policy[i].start /\ policy'[i].end = policy[i].end
      /\ \A j \in Ids \ {i} : policy'[j] = policy[j]
  <2>1. /\ policy'[i] = [policy[i] EXCEPT !.status = s]
        /\ \A j \in Ids \ {i} : policy'[j] = policy[j]
    BY <1>1 DEF TypeInv, TypeOK
  <2>2. policy'[i] \in Policies
    BY <1>2, <2>1, Edited
  <2>3. QED
    BY <1>2, <2>1, <2>2 DEF Policies
<1>4. i \in Stored /\ Unlocked(i) /\ UNCHANGED <<recalls, writer, recaller, raced>>
  BY DEF Approve, Revoke, Standing
<1>5. Stored' = Stored /\ Standing \ {i} \subseteq Standing'
  BY <1>3, <1>4 DEF Stored, Standing
<1>6. TypeOK'
  <2>1. policy' \in [Ids -> Policies]
    BY <1>1, <1>3 DEF TypeInv, TypeOK
  <2>2. \A j \in Stored' : /\ policy'[j].employee \in Employees
                           /\ Valid(policy'[j].type, policy'[j].start, policy'[j].end)
    BY <1>3, <1>5 DEF TypeInv, TypeOK, Stored
  <2>3. QED
    BY <1>4, <2>1, <2>2 DEF TypeInv, TypeOK
<1>7. PatchesHold'
  BY <1>3, <1>4, <1>5 DEF TypeInv, PatchesHold, Unlocked, Standing, Stored
<1>8. QED
  BY <1>4, <1>6, <1>7 DEF TypeInv, CreationsValid, RecallsNamed

LEMMA RecallTypes ==
  ASSUME TypeInv, UNCHANGED <<policy, writer, raced>>,
         \/ UNCHANGED <<recalls, recaller>>
         \/ \E r \in Recallers, e \in Employees, d \in Dates : RecallChecks(r, e, d)
         \/ \E r \in Recallers : RecallInserts(r) \/ RecallFails(r)
         \/ \E key \in Employees \X Dates : RecallDeleted(key)
  PROVE  TypeInv'
<1>1. 1 \in Dates
  BY WfhBounds DEF Dates
<1>2. TypeOK' /\ RecallsNamed'
  <2>1. ASSUME NEW r \in Recallers, NEW e \in Employees, NEW d \in Dates, RecallChecks(r, e, d)
        PROVE  TypeOK' /\ RecallsNamed'
    BY <2>1 DEF TypeInv, TypeOK, RecallsNamed, Stored, RecallChecks
  <2>2. ASSUME NEW r \in Recallers, RecallInserts(r) \/ RecallFails(r)
        PROVE  TypeOK' /\ RecallsNamed'
    <3>1. <<recaller[r].employee, recaller[r].date>> \in Employees \X Dates
      BY <2>2 DEF TypeInv, TypeOK, RecallsNamed, RecallInserts, RecallFails
    <3>2. recaller' = [recaller EXCEPT ![r] = NoRecall] /\ recalls' \subseteq Employees \X Dates
      BY <2>2, <3>1 DEF TypeInv, TypeOK, RecallInserts, RecallFails
    <3>3. QED
      BY <1>1, <3>2 DEF TypeInv, TypeOK, RecallsNamed, Stored, NoRecall
  <2>3. ASSUME NEW key \in Employees \X Dates, RecallDeleted(key)
        PROVE  TypeOK' /\ RecallsNamed'
    BY <2>3 DEF TypeInv, TypeOK, RecallsNamed, Stored, RecallDeleted
  <2>4. CASE UNCHANGED <<recalls, recaller>>
    BY <2>4 DEF TypeInv, TypeOK, RecallsNamed, Stored
  <2>5. QED
    BY <2>1, <2>2, <2>3, <2>4
<1>3. QED
  BY <1>2 DEF TypeInv, PatchesHold, CreationsValid, Standing, Stored

LEMMA FailTypes ==
  ASSUME TypeInv, NEW w \in Writers, WriterFails(w)
  PROVE  TypeInv'
<1>1. /\ writer' = [writer EXCEPT ![w] = Idle] /\ UNCHANGED <<policy, recalls, recaller, raced>>
      /\ Idle \in Writing
  BY IdleType DEF WriterFails
<1>2. QED
  BY <1>1 DEF TypeInv, TypeOK, PatchesHold, CreationsValid, RecallsNamed, Standing, Stored, Idle

LEMMA CheckTypes ==
  ASSUME TypeInv, NEW w \in Writers, PatchChecks(w)
  PROVE  TypeInv'
<1>1. /\ writer' = [writer EXCEPT ![w].checked = TRUE]
      /\ UNCHANGED <<policy, recalls, recaller, raced>>
  BY DEF PatchChecks
<1>2. /\ writer' \in [Writers -> Writing]
      /\ \A v \in Writers : writer'[v].op = writer[v].op /\ writer'[v].id = writer[v].id
                            /\ writer'[v].row = writer[v].row
  BY <1>1 DEF TypeInv, TypeOK, Writing
<1>3. QED
  BY <1>1, <1>2 DEF TypeInv, TypeOK, PatchesHold, CreationsValid, RecallsNamed, Standing, Stored

LEMMA TypesPreserved == TypeInv /\ [Next]_vars => TypeInv'
<1> SUFFICES ASSUME TypeInv, [Next]_vars PROVE TypeInv'
  OBVIOUS
<1>1. CASE UNCHANGED vars
  BY <1>1, RecallTypes DEF vars
<1>2. ASSUME NEW r \in Recallers, NEW e \in Employees, NEW d \in Dates, RecallChecks(r, e, d)
      PROVE  TypeInv'
  BY <1>2, RecallTypes DEF RecallChecks
<1>3. ASSUME NEW r \in Recallers, RecallInserts(r) \/ RecallFails(r) PROVE TypeInv'
  BY <1>3, RecallTypes DEF RecallInserts, RecallFails
<1>4. ASSUME NEW key \in Employees \X Dates, RecallDeleted(key) PROVE TypeInv'
  BY <1>4, RecallTypes DEF RecallDeleted
<1>5. QED
  BY <1>1, <1>2, <1>3, <1>4, CreateTypes, PatchTypes, CheckTypes, InsertTypes, UpdateTypes, StatusTypes, FailTypes
     DEF Next

\* Whatever is in flight, the tables hold values of their types, and no
\* creation or patch leaves a stored policy with dates that PolicyIn refuses.
THEOREM TypeCorrect == Spec => []TypeOK
<1>1. TypeInv => TypeOK
  BY DEF TypeInv
<1>2. QED
  BY <1>1, InitTypes, TypesPreserved, PTL DEF Spec

----------------------------------------------------------------------------
\* For any number of requests at once, a revoked policy is never edited or
\* revived: patches hold the lock of a policy that stood when they took it.
THEOREM RevokedStays == Spec => RevokedForGood
<1> DEFINE Kept == \A i \in Stored : policy[i].status = "revoked" => policy'[i] = policy[i]
<1>1. TypeInv /\ [Next]_vars => Kept
  <2> SUFFICES ASSUME TypeInv, [Next]_vars, NEW i \in Stored, policy[i].status = "revoked"
               PROVE  policy'[i] = policy[i]
    OBVIOUS
  <2> USE DEF TypeInv, TypeOK, Stored, Standing, Ids
  <2>1. ASSUME NEW w \in Writers, CreateInserts(w) PROVE policy'[i] = policy[i]
    BY <2>1 DEF CreateInserts
  <2>2. ASSUME NEW w \in Writers, PatchUpdates(w) PROVE policy'[i] = policy[i]
    BY <2>2 DEF PatchUpdates, PatchesHold
  <2>3. ASSUME NEW j \in Ids, Approve(j) \/ Revoke(j) PROVE policy'[i] = policy[i]
    BY <2>3 DEF Approve, Revoke
  <2>4. CASE UNCHANGED policy
    BY <2>4
  <2>5. QED
    BY <2>1, <2>2, <2>3, <2>4
       DEF Next, vars, CreateChecks, PatchLocks, PatchChecks, WriterFails, RecallChecks, RecallInserts, RecallFails,
           RecallDeleted
<1>2. QED
  BY <1>1, InitTypes, TypesPreserved, PTL DEF Spec, RevokedForGood

----------------------------------------------------------------------------
\* A request that has checked its row knows of every standing policy that the row
\* meets, but for those that others have committed since.
Misses(w) ==
  writer[w].checked => Conflicts(writer[w].row, {writer[w].id}) \subseteq writer[w].missed
ChecksHold == \A w \in Writers : Misses(w)
CreationsChecked == \A w \in Writers : writer[w].op = "create" => writer[w].checked /\ writer[w].id = 0
RaceInv == OverlapNeedsRace /\ ChecksHold /\ CreationsChecked

LEMMA DatesAreNumbers == \A p \in Policies : p.start \in Int /\ p.end \in Int
  BY WfhBounds DEF Policies, Dates, Open

\* Two policies that share a date.
Share(p, q) == p.employee = q.employee /\ p.start <= q.end /\ q.start <= p.end

LEMMA ShareIsConflict ==
  ASSUME TypeOK, NEW row \in Policies, NEW j \in Standing, NEW S,
         Share(row, policy[j]) \/ Share(policy[j], row), j \notin S
  PROVE  j \in Conflicts(row, S)
<1>1. policy[j] \in Policies
  BY DEF TypeOK, Standing, Stored
<1>2. QED
  BY <1>1, DatesAreNumbers DEF Share, Conflicts

\* A commit of policy i by w: what stands then meets it only if w missed it, and
\* the others add it to what they missed.
LEMMA CommitRaces ==
  ASSUME TypeInv, RaceInv, NEW w \in Writers, NEW i \in Ids, Commits(w, i), writer[w].checked,
         \A j \in Ids \ {i} : policy'[j] = policy[j], TypeOK',
         policy'[i].employee = writer[w].row.employee,
         policy'[i].start = writer[w].row.start, policy'[i].end = writer[w].row.end,
         writer[w].id \in {0, i}, Standing' \subseteq Standing \cup {i}
  PROVE  RaceInv'
<1>0. /\ writer \in [Writers -> Writing] /\ writer[w].row \in Policies /\ raced \subseteq Ids \X Ids
      /\ policy'[i] \in Policies /\ writer[w].missed \subseteq Ids
      /\ \A v \in Writers : writer[v].row \in Policies
      /\ \A j \in Standing : j \in Ids /\ policy[j] \in Policies
      /\ 0 \notin Ids
  BY DEF TypeInv, TypeOK, Writing, Standing, Stored, Ids
<1>1. /\ raced' = {pair \in raced : i \notin {pair[1], pair[2]}} \cup ({i} \X (writer[w].missed \ {i}))
  BY DEF Commits
<1>2. ASSUME NEW j \in Standing' \ {i}, Share(policy'[i], policy[j]) \/ Share(policy[j], policy'[i])
      PROVE  <<i, j>> \in raced'
  <2>1. j \in Standing /\ j # 0 /\ j \notin {writer[w].id}
    BY <1>0, <1>2
  <2>2. Share(writer[w].row, policy[j]) \/ Share(policy[j], writer[w].row)
    BY <1>2 DEF Share
  <2>3. j \in Conflicts(writer[w].row, {writer[w].id})
    BY <1>0, <2>1, <2>2, ShareIsConflict DEF TypeInv
  <2>4. j \in writer[w].missed
    BY <2>3 DEF RaceInv, ChecksHold, Misses
  <2>5. QED
    BY <1>1, <1>2, <2>4
<1>3. OverlapNeedsRace'
  <2> SUFFICES ASSUME NEW j \in Standing', NEW k \in Standing', j # k, Share(policy'[j], policy'[k])
               PROVE  <<j, k>> \in raced' \/ <<k, j>> \in raced'
    BY DEF OverlapNeedsRace, Share
  <2>1. CASE j = i
    <3>1. Share(policy'[i], policy[k])
      BY <1>0, <2>1
    <3>2. QED
      BY <1>2, <2>1, <3>1
  <2>2. CASE k = i
    <3>1. Share(policy[j], policy'[i])
      BY <1>0, <2>2
    <3>2. QED
      BY <1>2, <2>2, <3>1
  <2>3. CASE j # i /\ k # i
    <3>1. j \in Standing /\ k \in Standing /\ Share(policy[j], policy[k])
      BY <1>0, <2>3
    <3>2. <<j, k>> \in raced \/ <<k, j>> \in raced
      BY <3>1 DEF RaceInv, OverlapNeedsRace, Share
    <3>3. QED
      BY <1>1, <2>3, <3>2
  <2>4. QED
    BY <2>1, <2>2, <2>3
<1>4. ChecksHold'
  <2> SUFFICES ASSUME NEW v \in Writers, writer'[v].checked, NEW j \in Conflicts(writer[v].row, {writer[v].id})'
               PROVE  j \in writer'[v].missed
    BY DEF ChecksHold, Misses
  <2>1. v # w
    BY CommitsType DEF TypeInv, Idle
  <2>2. /\ writer[v].checked /\ writer'[v].row = writer[v].row /\ writer'[v].id = writer[v].id
        /\ writer'[v].missed = writer[v].missed \cup {i}
    BY <2>1, CommitsType DEF TypeInv
  <2>3. CASE j = i
    BY <2>2, <2>3
  <2>4. CASE j # i
    <3>1. j \in Conflicts(writer[v].row, {writer[v].id})
      BY <1>0, <2>2, <2>4 DEF Conflicts
    <3>2. QED
      BY <2>2, <3>1 DEF RaceInv, ChecksHold, Misses
  <2>5. QED
    BY <2>3, <2>4
<1>5. CreationsChecked'
  BY CommitsType DEF TypeInv, RaceInv, CreationsChecked, Idle
<1>6. QED
  BY <1>3, <1>4, <1>5 DEF RaceInv

LEMMA RacesPreserved == TypeInv /\ RaceInv /\ [Next]_vars => RaceInv'
<1> SUFFICES ASSUME TypeInv, RaceInv, [Next]_vars PROVE RaceInv'
  OBVIOUS
<1>0. /\ policy \in [Ids -> Policies] /\ writer \in [Writers -> Writing] /\ TypeOK'
      /\ \A w \in Writers : writer[w].row \in Policies
  BY TypesPreserved DEF TypeInv, TypeOK, Writing
<1>1. ASSUME NEW w \in Writers, CreateInserts(w) PROVE RaceInv'
  <2> DEFINE row == writer[w].row
  <2>1. PICK i \in Ids \ Stored : policy' = [policy EXCEPT ![i] = row] /\ Commits(w, i)
    BY <1>1 DEF CreateInserts
  <2>2. writer[w].checked /\ writer[w].id = 0
    BY <1>1 DEF CreateInserts, RaceInv, CreationsChecked
  <2>3. policy'[i] = row /\ \A j \in Ids \ {i} : policy'[j] = policy[j]
    BY <1>0, <2>1
  <2>4. Standing' \subseteq Standing \cup {i}
    BY <2>3 DEF Standing, Stored
  <2>5. QED
    BY <1>0, <2>1, <2>2, <2>3, <2>4, CommitRaces
<1>2. ASSUME NEW w \in Writers, PatchUpdates(w) PROVE RaceInv'
  <2> DEFINE i == writer[w].id
             row == writer[w].row
  <2>1. i \in Standing /\ i \in Ids /\ row.employee = policy[i].employee
    BY <1>2 DEF PatchUpdates, PatchesHold, TypeInv, Standing, Stored
  <2>2. writer[w].checked /\ Commits(w, i)
    BY <1>2 DEF PatchUpdates
  <2>3. /\ policy'[i] = [policy[i] EXCEPT !.start = row.start, !.end = row.end]
        /\ \A j \in Ids \ {i} : policy'[j] = policy[j]
    BY <1>0, <1>2, <2>1 DEF PatchUpdates
  <2>4. /\ policy'[i].start = row.start /\ policy'[i].end = row.end
        /\ policy'[i].employee = row.employee
    <3>1. policy[i] \in Policies
      BY <1>0, <2>1
    <3>2. QED
      BY <2>1, <2>3, <3>1 DEF Policies
  <2>5. Standing' \subseteq Standing \cup {i}
    BY <2>3 DEF Standing, Stored
  <2> HIDE DEF i, row
  <2>6. QED
    BY <1>0, <2>1, <2>2, <2>3, <2>4, <2>5, CommitRaces DEF i, row
<1>3. ASSUME NEW i \in Ids, Approve(i) \/ Revoke(i) PROVE RaceInv'
  <2>1. PICK s \in {"approved", "revoked"} :
          policy' = [policy EXCEPT ![i] = [policy[i] EXCEPT !.status = s]]
    BY <1>0, <1>3 DEF Approve, Revoke
  <2>2. \A j \in Ids : /\ policy[j] \in Policies
                       /\ policy'[j] = IF j = i THEN [policy[i] EXCEPT !.status = s] ELSE policy[j]
    BY <1>0, <2>1
  <2>3. \A j \in Ids : /\ policy'[j].employee = policy[j].employee
                       /\ policy'[j].start = policy[j].start /\ policy'[j].end = policy[j].end
    BY <2>2 DEF Policies
  <2>4. i \in Standing /\ writer' = writer /\ raced' = raced
    BY <1>3 DEF Approve, Revoke, Standing
  <2>5. Standing' \subseteq Standing
    BY <2>2, <2>4 DEF Standing, Stored
  <2>6. OverlapNeedsRace'
    BY <2>3, <2>4, <2>5 DEF RaceInv, OverlapNeedsRace, Standing, Stored
  <2>7. \A row, S : Conflicts(row, S)' \subseteq Conflicts(row, S)
    BY <2>3, <2>5 DEF Conflicts, Standing, Stored
  <2>8. ChecksHold'
    BY <2>4, <2>7 DEF RaceInv, ChecksHold, Misses
  <2>9. QED
    BY <2>4, <2>6, <2>8 DEF RaceInv, CreationsChecked
<1>4. ASSUME UNCHANGED <<policy, raced>>,
             \A v \in Writers : \/ writer'[v] = writer[v]
                               \/ /\ writer'[v].checked => Conflicts(writer'[v].row, {writer'[v].id}) = {}
                                  /\ writer'[v].op = "create" => writer'[v].checked /\ writer'[v].id = 0
      PROVE  RaceInv'
  <2>1. OverlapNeedsRace'
    BY <1>4 DEF RaceInv, OverlapNeedsRace, Standing, Stored
  <2>2. \A row, S : Conflicts(row, S)' = Conflicts(row, S)
    BY <1>4 DEF Conflicts, Standing, Stored
  <2>3. ChecksHold'
    BY <1>4, <2>2 DEF RaceInv, ChecksHold, Misses
  <2>4. CreationsChecked'
    BY <1>4 DEF RaceInv, CreationsChecked
  <2>5. QED
    BY <2>1, <2>3, <2>4 DEF RaceInv
<1>5. ASSUME NEW w \in Writers, NEW e \in Employees, NEW type \in Types, NEW start \in Dates,
             NEW end \in Dates \cup {Open}, CreateChecks(w, e, type, start, end)
      PROVE  RaceInv'
  <2> DEFINE row == [employee |-> e, type |-> type, start |-> start, end |-> end, status |-> "pending"]
  <2>1. /\ Conflicts(row, {}) = {} /\ UNCHANGED <<policy, raced>>
        /\ writer' = [writer EXCEPT ![w] =
             [op |-> "create", id |-> 0, row |-> row, checked |-> TRUE, missed |-> {}]]
    BY <1>5 DEF CreateChecks
  <2> HIDE DEF row
  <2>2. Conflicts(row, {0}) = {}
    BY <2>1 DEF Conflicts
  <2>3. /\ writer'[w].row = row /\ writer'[w].id = 0 /\ writer'[w].checked
        /\ \A v \in Writers \ {w} : writer'[v] = writer[v]
    BY <1>0, <2>1
  <2>4. QED
    BY <1>4, <2>1, <2>2, <2>3
<1>6. ASSUME NEW w \in Writers, NEW i \in Ids, NEW start \in Dates, NEW end \in Dates \cup {Open},
             PatchLocks(w, i, start, end)
      PROVE  RaceInv'
  <2>1. /\ UNCHANGED <<policy, raced>> /\ writer'[w].op = "patch" /\ ~writer'[w].checked
        /\ \A v \in Writers \ {w} : writer'[v] = writer[v]
    BY <1>0, <1>6 DEF PatchLocks
  <2>2. QED
    BY <1>4, <2>1
<1>7. ASSUME NEW w \in Writers, PatchChecks(w) PROVE RaceInv'
  <2>1. /\ UNCHANGED <<policy, raced>> /\ Conflicts(writer[w].row, {writer[w].id}) = {}
        /\ writer'[w].op = "patch" /\ writer'[w].row = writer[w].row /\ writer'[w].id = writer[w].id
        /\ \A v \in Writers \ {w} : writer'[v] = writer[v]
    BY <1>0, <1>7 DEF PatchChecks, Writing
  <2>2. QED
    BY <1>4, <2>1
<1>8. ASSUME NEW w \in Writers, WriterFails(w) PROVE RaceInv'
  <2>1. /\ UNCHANGED <<policy, raced>> /\ writer'[w] = Idle
        /\ \A v \in Writers \ {w} : writer'[v] = writer[v]
    BY <1>0, <1>8 DEF WriterFails
  <2>2. QED
    BY <1>4, <2>1 DEF Idle
<1>9. CASE UNCHANGED <<policy, writer, raced>>
  BY <1>4, <1>9
<1>10. QED
  <2>1. ASSUME NEW r \in Recallers, NEW e \in Employees, NEW d \in Dates, RecallChecks(r, e, d)
        PROVE  UNCHANGED <<policy, writer, raced>>
    BY <2>1 DEF RecallChecks
  <2>2. ASSUME NEW r \in Recallers, RecallInserts(r) \/ RecallFails(r)
        PROVE  UNCHANGED <<policy, writer, raced>>
    BY <2>2 DEF RecallInserts, RecallFails
  <2>3. ASSUME NEW key \in Employees \X Dates, RecallDeleted(key) PROVE UNCHANGED <<policy, writer, raced>>
    BY <2>3 DEF RecallDeleted
  <2>4. CASE UNCHANGED vars
    BY <1>9, <2>4 DEF vars
  <2>5. QED
    BY <1>1, <1>2, <1>3, <1>5, <1>6, <1>7, <1>8, <1>9, <2>1, <2>2, <2>3, <2>4 DEF Next

\* For any number of requests at once and however long the sequence of creations,
\* patches, approvals and revocations: two policies of an employee that are not
\* revoked share a date only if the check of the one committed last ran before
\* the other was committed.
THEOREM OverlapsAreRaced == Spec => []OverlapNeedsRace
<1>1. Init => RaceInv
  BY DEF Init, RaceInv, OverlapNeedsRace, ChecksHold, Misses, CreationsChecked, Standing, Stored, NoPolicy, Idle
<1>2. RaceInv => OverlapNeedsRace
  BY DEF RaceInv
<1>3. QED
  BY <1>1, <1>2, RacesPreserved, InitTypes, TypesPreserved, PTL DEF Spec

----------------------------------------------------------------------------
(* The resolver *)

\* For any number of policies and recalls and any window, loading the policies
\* that meet the window and looking only at the employees they name gives the
\* exemptions that each employee and day has by itself.
THEOREM ResolverIsExact == Spec => []ResolverExact
<1>1. TypeInv => ResolverExact
  <2> SUFFICES ASSUME TypeInv, NEW from \in Dates, NEW to \in from .. LastDate, NEW d \in from .. to
               PROVE  ExemptSet(from, to)[d]
                        = {e \in Employees : Covering(e, d) # {} /\ <<e, d>> \notin recalls}
    BY DEF ResolverExact
  <2> DEFINE recalled == {key \in recalls : key[2] \in from .. to}
             named == {policy[i].employee : i \in Loaded(from, to)}
  <2>1. ExemptSet(from, to)[d] = {e \in named : IsExempt(e, d, Loaded(from, to), recalled)}
    BY DEF ExemptSet
  <2>2. named \subseteq Employees
    BY DEF Loaded, TypeInv, TypeOK
  <2>3. \A e : <<e, d>> \in recalled <=> <<e, d>> \in recalls
    OBVIOUS
  <2>4. \A i \in Stored : policy[i].start \in Dates /\ policy[i].end \in Dates \cup {Open}
    BY DEF TypeInv, TypeOK, Stored, Policies
  <2>5. \A e : {i \in Loaded(from, to) : /\ policy[i].employee = e /\ policy[i].status = "approved"
                                        /\ policy[i].start <= d /\ policy[i].end >= d}
             = Covering(e, d)
    BY <2>4, WfhBounds DEF Loaded, Covering, Dates, Open, Stored
  <2>6. \A e \in Employees : e \in named /\ IsExempt(e, d, Loaded(from, to), recalled)
                            <=> Covering(e, d) # {} /\ <<e, d>> \notin recalls
    BY <2>3, <2>5 DEF IsExempt
  <2> QED BY <2>1, <2>2, <2>6
<1> QED BY <1>1, InitTypes, TypesPreserved, PTL DEF Spec
=============================================================================
