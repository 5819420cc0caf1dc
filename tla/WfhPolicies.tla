---------------------------- MODULE WfhPolicies ----------------------------
(***************************************************************************)
(* Work-from-home policies and recalls (api/app/routers/wfh.py) and the    *)
(* resolver that metrics read them with (api/app/wfh/resolver.py).         *)
(*                                                                         *)
(* A creation checks for an overlap and then inserts; a patch locks its    *)
(* policy, checks and then updates.  Nothing keeps other requests from     *)
(* writing between the check and the COMMIT.  Approve and revoke are       *)
(* single UPDATEs that wait for a patch and then look at the status.       *)
(***************************************************************************)
EXTENDS Integers, FiniteSets

CONSTANTS
  Employees,
  Writers,       \* requests that create or patch policies, at once
  Recallers,     \* requests that create recalls, at once
  MaxPolicies,   \* bound on rows of wfh_policies
  LastDate,      \* bound on dates
  NoEmployee

ASSUME WfhBounds == MaxPolicies \in Nat /\ LastDate \in Nat \ {0} /\ NoEmployee \notin Employees

VARIABLES
  policy,    \* wfh_policies, by id
  recalls,   \* wfh_recalls: UNIQUE (employee_id, date)
  writer,    \* creations and patches in flight: the id they lock, the row to write
  recaller,  \* creations of a recall in flight: its employee and date
  raced      \* history: <<i, j>> if the check of what last wrote i did not see what last wrote j

vars == <<policy, recalls, writer, recaller, raced>>

Ids == 1 .. MaxPolicies
Dates == 1 .. LastDate
Types == {"temporary", "default"}

\* end_date IS NULL
Open == LastDate + 1

\* What PolicyIn accepts: a temporary policy has an end, and no end precedes
\* its start.
Valid(type, start, end) ==
  /\ start <= end
  /\ type = "temporary" => end # Open

NoPolicy == [employee |-> NoEmployee, type |-> "default", start |-> 1, end |-> Open, status |-> "none"]

\* "missed" is history: the policies that others have written since the check.
Idle == [op |-> "none", id |-> 0, row |-> NoPolicy, checked |-> FALSE, missed |-> {}]
NoRecall == [employee |-> NoEmployee, date |-> 1]

Init ==
  /\ policy = [i \in Ids |-> NoPolicy]
  /\ recalls = {}
  /\ writer = [w \in Writers |-> Idle]
  /\ recaller = [r \in Recallers |-> NoRecall]
  /\ raced = {}

Stored == {i \in Ids : policy[i].status # "none"}
Standing == {i \in Stored : policy[i].status # "revoked"}

----------------------------------------------------------------------------
\* Wrong... operators are variants that a slip in the code would leave; they
\* serve to see that a property can fail, and nothing uses them.

WrongUnlocked(i) == TRUE

\* The row lock of a policy is free.
Unlocked(i) == \A w \in Writers : ~(writer[w].op = "patch" /\ writer[w].id = i)

WrongConflicts(row, ignored) ==
  {i \in Stored \ ignored : /\ policy[i].status = "approved"
                            /\ policy[i].employee = row.employee
                            /\ policy[i].start <= row.end /\ policy[i].end >= row.start}

\* _overlap: the policies that stand in the way of a row.
Conflicts(row, ignored) ==
  {i \in Standing \ ignored : /\ policy[i].employee = row.employee
                              /\ policy[i].start <= row.end /\ policy[i].end >= row.start}

\* POST /admin/wfh/policies, up to the check.
CreateChecks(w, e, type, start, end) ==
  LET row == [employee |-> e, type |-> type, start |-> start, end |-> end, status |-> "pending"] IN
  /\ writer[w] = Idle
  /\ Valid(type, start, end)
  /\ Conflicts(row, {}) = {}
  /\ writer' = [writer EXCEPT ![w] =
       [op |-> "create", id |-> 0, row |-> row, checked |-> TRUE, missed |-> {}]]
  /\ UNCHANGED <<policy, recalls, recaller, raced>>

\* w commits policy i, which the checks made before did not see.
Commits(w, i) ==
  /\ writer' = [v \in Writers |-> IF v = w THEN Idle
                                  ELSE IF writer[v].checked
                                  THEN [writer[v] EXCEPT !.missed = @ \cup {i}]
                                  ELSE writer[v]]
  /\ raced' = {pair \in raced : i \notin {pair[1], pair[2]}} \cup ({i} \X (writer[w].missed \ {i}))

\* INSERT with the next id, and COMMIT.
CreateInserts(w) ==
  /\ writer[w].op = "create"
  /\ \E i \in Ids \ Stored :
       /\ \A j \in Ids \ Stored : i <= j
       /\ policy' = [policy EXCEPT ![i] = writer[w].row]
       /\ Commits(w, i)
  /\ UNCHANGED <<recalls, recaller>>

\* PATCH: SELECT .. FOR UPDATE; a revoked policy cannot be edited, the dates
\* that are not given stay, and nothing else of the row changes.
PatchLocks(w, i, start, end) ==
  /\ writer[w] = Idle
  /\ i \in Standing /\ Unlocked(i)
  /\ end \in Dates \cup {policy[i].end}
  /\ Valid(policy[i].type, start, end)
  /\ writer' = [writer EXCEPT ![w] =
       [op |-> "patch", id |-> i, row |-> [policy[i] EXCEPT !.start = start, !.end = end],
        checked |-> FALSE, missed |-> {}]]
  /\ UNCHANGED <<policy, recalls, recaller, raced>>

\* The check, which ignores the policy itself.
PatchChecks(w) ==
  /\ writer[w].op = "patch" /\ ~writer[w].checked
  /\ Conflicts(writer[w].row, {writer[w].id}) = {}
  /\ writer' = [writer EXCEPT ![w].checked = TRUE]
  /\ UNCHANGED <<policy, recalls, recaller, raced>>

\* The UPDATE of the dates and COMMIT.
PatchUpdates(w) ==
  LET i == writer[w].id
      row == writer[w].row IN
  /\ writer[w].op = "patch" /\ writer[w].checked
  /\ policy' = [policy EXCEPT ![i].start = row.start, ![i].end = row.end]
  /\ Commits(w, i)
  /\ UNCHANGED <<recalls, recaller>>

\* A patch meets a conflict, or a request is cut off: ROLLBACK.
WriterFails(w) ==
  /\ writer[w] # Idle
  /\ writer' = [writer EXCEPT ![w] = Idle]
  /\ UNCHANGED <<policy, recalls, recaller, raced>>

\* POST .../approve: UPDATE .. WHERE status = 'pending'
Approve(i) ==
  /\ i \in Stored /\ Unlocked(i)
  /\ policy[i].status = "pending"
  /\ policy' = [policy EXCEPT ![i].status = "approved"]
  /\ UNCHANGED <<recalls, writer, recaller, raced>>

\* POST .../revoke: UPDATE .. WHERE status <> 'revoked'; recalls stay.
Revoke(i) ==
  /\ i \in Standing /\ Unlocked(i)
  /\ policy' = [policy EXCEPT ![i].status = "revoked"]
  /\ UNCHANGED <<recalls, writer, recaller, raced>>

----------------------------------------------------------------------------
(* Recalls and the resolver *)

\* Policies of an employee that are approved and cover a date.
Covering(e, d) ==
  {i \in Stored : /\ policy[i].employee = e /\ policy[i].status = "approved"
                  /\ policy[i].start <= d /\ policy[i].end >= d}

\* POST .../recalls, up to the check.
RecallChecks(r, e, d) ==
  /\ recaller[r] = NoRecall
  /\ Covering(e, d) # {}
  /\ recaller' = [recaller EXCEPT ![r] = [employee |-> e, date |-> d]]
  /\ UNCHANGED <<policy, recalls, writer, raced>>

\* INSERT and COMMIT, if no row has the key.
RecallInserts(r) ==
  LET key == <<recaller[r].employee, recaller[r].date>> IN
  /\ recaller[r] # NoRecall
  /\ key \notin recalls
  /\ recalls' = recalls \cup {key}
  /\ recaller' = [recaller EXCEPT ![r] = NoRecall]
  /\ UNCHANGED <<policy, writer, raced>>

\* The unique key refuses the row, or the request is cut off.
RecallFails(r) ==
  /\ recaller[r] # NoRecall
  /\ recaller' = [recaller EXCEPT ![r] = NoRecall]
  /\ UNCHANGED <<policy, recalls, writer, raced>>

\* DELETE .../recalls/{id}
RecallDeleted(key) ==
  /\ key \in recalls
  /\ recalls' = recalls \ {key}
  /\ UNCHANGED <<policy, writer, recaller, raced>>

\* is_wfh_exempt, over the policies and recalls that were loaded.
IsExempt(e, d, loaded, recalled) ==
  /\ <<e, d>> \notin recalled
  /\ \E i \in loaded : /\ policy[i].employee = e /\ policy[i].status = "approved"
                       /\ policy[i].start <= d /\ policy[i].end >= d

WrongLoaded(from, to) ==
  {i \in Stored : policy[i].status = "approved" /\ policy[i].start <= from /\ policy[i].end >= to}

\* The policies and recalls exempt_set loads for the dates from .. to.
Loaded(from, to) ==
  {i \in Stored : policy[i].status = "approved" /\ policy[i].start <= to /\ policy[i].end >= from}

\* exempt_set: only employees with a loaded policy are looked at.
ExemptSet(from, to) ==
  [d \in from .. to |->
     {e \in {policy[i].employee : i \in Loaded(from, to)} :
        IsExempt(e, d, Loaded(from, to), {key \in recalls : key[2] \in from .. to})}]

----------------------------------------------------------------------------
Next ==
  \/ \E w \in Writers :
       \/ \E e \in Employees, type \in Types, start \in Dates, end \in Dates \cup {Open} :
            CreateChecks(w, e, type, start, end)
       \/ \E i \in Ids, start \in Dates, end \in Dates \cup {Open} : PatchLocks(w, i, start, end)
       \/ CreateInserts(w) \/ PatchChecks(w) \/ PatchUpdates(w) \/ WriterFails(w)
  \/ \E i \in Ids : Approve(i) \/ Revoke(i)
  \/ \E r \in Recallers :
       (\E e \in Employees, d \in Dates : RecallChecks(r, e, d)) \/ RecallInserts(r) \/ RecallFails(r)
  \/ \E key \in Employees \X Dates : RecallDeleted(key)

Spec == Init /\ [][Next]_vars

----------------------------------------------------------------------------
(* Properties *)

Policies == [employee : Employees \cup {NoEmployee}, type : Types, start : Dates,
             end : Dates \cup {Open}, status : {"none", "pending", "approved", "revoked"}]

Writing == [op : {"none", "create", "patch"}, id : Ids \cup {0}, row : Policies,
            checked : BOOLEAN, missed : SUBSET Ids]

\* The tables and the requests in flight hold values of their types, and stored
\* policies have the dates that PolicyIn and the table's CHECK ask for.
TypeOK ==
  /\ policy \in [Ids -> Policies]
  /\ \A i \in Stored : /\ policy[i].employee \in Employees
                       /\ Valid(policy[i].type, policy[i].start, policy[i].end)
  /\ recalls \subseteq Employees \X Dates
  /\ writer \in [Writers -> Writing]
  /\ recaller \in [Recallers -> [employee : Employees \cup {NoEmployee}, date : Dates]]
  /\ raced \subseteq Ids \X Ids

\* Two policies of an employee that are not revoked share a date ("409
\* conflicts_with_policy" wants none to) only if they were written side by side:
\* the check of the one that was committed last ran before the other was
\* committed.  Between requests that follow each other, creations, patches of
\* pending and approved policies, approvals and revocations keep them apart.
OverlapNeedsRace ==
  \A i, j \in Standing :
    /\ i # j
    /\ policy[i].employee = policy[j].employee
    /\ policy[i].start <= policy[j].end
    /\ policy[j].start <= policy[i].end
    => <<i, j>> \in raced \/ <<j, i>> \in raced

\* A revoked policy is a record of what was once allowed: nothing edits or
\* revives it, also when a patch or an approval was in flight.
RevokedForGood ==
  [][\A i \in Stored : policy[i].status = "revoked" => policy'[i] = policy[i]]_vars

\* For every window, the exempt set is what looking at each employee and day
\* alone gives: loading by window loses and adds nobody.
ResolverExact ==
  \A from \in Dates : \A to \in from .. LastDate : \A d \in from .. to :
    ExemptSet(from, to)[d] = {e \in Employees : Covering(e, d) # {} /\ <<e, d>> \notin recalls}
=============================================================================
