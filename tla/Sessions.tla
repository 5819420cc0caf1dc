------------------------------ MODULE Sessions ------------------------------
(***************************************************************************)
(* Refresh-token families (api/app/auth/sessions.py) under the requests    *)
(* that create, rotate and revoke them: login, Entra login, refresh,       *)
(* logout, change of password, reset and patch of a user, and the command  *)
(* line reset (api/app/auth/local.py, microsoft.py, admin.py, cli.py).     *)
(*                                                                         *)
(* A request is one transaction, or two; an action ends where it may wait  *)
(* for a row lock that another transaction holds, and its writes become    *)
(* visible when it commits.  "todo" is the snapshot of a statement UPDATE  *)
(* refresh_tokens: rows inserted by transactions that commit later are not *)
(* in it.  The FOR KEY SHARE locks of foreign keys, which keep out only a    *)
(* FOR UPDATE, are modelled where a transaction goes on to wait with them  *)
(* or holds tokens while it waits for one.                                  *)
(***************************************************************************)
EXTENDS Integers, FiniteSets

CONSTANTS
  Users,
  Requests,     \* requests that can be in flight at once
  Idle,         \* REFRESH_IDLE_TTL_DAYS
  LocalCap, EntraCap,   \* _family_cap by provider, from the start of the family
  Grace,        \* REFRESH_REUSE_GRACE_SECONDS
  MaxTokens,    \* bound on rows of refresh_tokens
  MaxTime,      \* bound on the clock
  NoUser, NoRequest

Tokens == 1 .. MaxTokens

ASSUME TokensAssumption == MaxTokens \in Nat /\ MaxTime \in Nat
ASSUME TimesAssumption == Idle \in Nat /\ Grace \in Nat /\ LocalCap \in Nat /\ EntraCap \in Nat
ASSUME RequestsAssumption == IsFiniteSet(Requests)
ASSUME NobodyAssumption == NoUser \notin Users /\ NoRequest \notin Requests

VARIABLES
  clock,
  active,       \* users.is_active
  entra,        \* the users whose auth_provider is "entra"; no request changes it
  token,        \* refresh_tokens, by id
  used,         \* ids handed out
  tokenLock,    \* who holds the row lock of a token
  userLock,     \* who holds FOR UPDATE or the lock of an UPDATE on a user
  req           \* the requests in flight

locks == <<tokenLock, userLock>>
vars == <<clock, active, entra, token, used, locks, req>>

\* The time of a revocation is read only of a token that has been replaced.
NoToken == [owner |-> NoUser, family |-> 0, state |-> "none", started |-> 0,
            expires |-> 0, replacedAt |-> 0, next |-> 0]
NoReq == [op |-> "none", pc |-> "idle", tok |-> 0, user |-> NoUser, now |-> 0,
          live |-> FALSE, todo |-> {}, revokes |-> FALSE, act |-> "keep"]

Stored == {t \in Tokens : token[t].state # "none"}
Live == {t \in Tokens : token[t].state = "live"}
FamilyOf(t) == {x \in Stored : token[x].family = token[t].family}
OwnedBy(u) == {x \in Stored : token[x].owner = u}

Init ==
  /\ clock = 0
  /\ active = [u \in Users |-> TRUE]
  /\ entra \in SUBSET Users
  /\ token = [t \in Tokens |-> NoToken]
  /\ used = 0
  /\ tokenLock = [t \in Tokens |-> NoRequest]
  /\ userLock = [u \in Users |-> NoRequest]
  /\ req = [r \in Requests |-> NoReq]

----------------------------------------------------------------------------
\* Wrong... operators are variants that a slip in the code would leave; they
\* serve to see that a property can fail, and nothing uses them.

TokenFree(t) == tokenLock[t] = NoRequest
UserFree(u) == userLock[u] = NoRequest

\* rotate_session holds the user FOR UPDATE.
LockedForUpdate(u) == userLock[u] # NoRequest /\ req[userLock[u]].op = "rotate"

\* Logins that have inserted their token and hold the user FOR KEY SHARE.
KeySharers(u) == {r \in Requests : req[r].pc = "inserted" /\ req[r].user = u}

\* The locks of r go with its transaction.
Release(r) ==
  /\ tokenLock' = [t \in Tokens |-> IF tokenLock[t] = r THEN NoRequest ELSE tokenLock[t]]
  /\ userLock' = [u \in Users |-> IF userLock[u] = r THEN NoRequest ELSE userLock[u]]

Ends(r) == req' = [req EXCEPT ![r] = NoReq] /\ Release(r)

\* Requests that may still insert a token.  (Bound: a request starts only while
\* an id is left for each of them.)
Inserting ==
  {r \in Requests : \/ req[r].pc \in {"token", "account", "verified", "insert", "inserted"}
                    \/ req[r].op = "change"}
IdLeft == used + Cardinality(Inserting) < MaxTokens

Earlier(a, b) == IF a <= b THEN a ELSE b
FamilyCap(u, started) == started + (IF u \in entra THEN EntraCap ELSE LocalCap)

Expiry(u, started, now) == Earlier(now + Idle, FamilyCap(u, started))

\* The row a login inserts: the first token of a new family.
FirstToken(u, now) ==
  [owner |-> u, family |-> used + 1, state |-> "live", started |-> now,
   expires |-> Expiry(u, now, now), replacedAt |-> 0, next |-> 0]

----------------------------------------------------------------------------
(* Logins *)

\* POST /auth/login: the password is verified and is_active read, unlocked.
LoginVerifies(r, u) ==
  /\ req[r] = NoReq /\ IdLeft
  /\ u \notin entra /\ active[u]
  /\ req' = [req EXCEPT ![r] = [NoReq EXCEPT !.op = "login", !.pc = "verified", !.user = u]]
  /\ UNCHANGED <<clock, active, entra, token, used, locks>>

\* UPDATE of the failed logins, which waits for the user's row, and COMMIT;
\* issue_session takes its time.  Nothing looks at is_active again.
LoginRecorded(r) ==
  /\ req[r].pc = "verified"
  /\ UserFree(req[r].user)
  /\ req' = [req EXCEPT ![r].pc = "insert", ![r].now = clock]
  /\ UNCHANGED <<clock, active, entra, token, used, locks>>

\* issue_session: the token is INSERTed.  Until the COMMIT no other transaction
\* sees it; the foreign key shares the user's row.
InsertSession(r) ==
  /\ req[r].pc = "insert"
  /\ ~LockedForUpdate(req[r].user)
  /\ req' = [req EXCEPT ![r].pc = "inserted"]
  /\ UNCHANGED <<clock, active, entra, token, used, locks>>

\* UPDATE of last_login_at, which waits for the user's row, and COMMIT.
IssueSession(r) ==
  LET u == req[r].user IN
  /\ req[r].pc = "inserted"
  /\ UserFree(u)
  /\ token' = [token EXCEPT ![used + 1] = FirstToken(u, req[r].now)]
  /\ used' = used + 1
  /\ Ends(r)
  /\ UNCHANGED <<clock, active, entra>>

\* resolve_sso_user updates the user and looks at is_active in the transaction
\* that issue_session commits.
EntraLogin(u) ==
  /\ u \in entra /\ UserFree(u) /\ active[u]
  /\ IdLeft
  /\ token' = [token EXCEPT ![used + 1] = FirstToken(u, clock)]
  /\ used' = used + 1
  /\ UNCHANGED <<clock, active, entra, locks, req>>

----------------------------------------------------------------------------
(* POST /auth/refresh: rotate_session *)

RefreshStarts(r, t) ==
  /\ req[r] = NoReq /\ IdLeft
  /\ t \in Stored
  /\ req' = [req EXCEPT ![r] = [NoReq EXCEPT !.op = "rotate", !.pc = "token", !.tok = t,
                                             !.user = token[t].owner, !.now = clock]]
  /\ UNCHANGED <<clock, active, entra, token, used, locks>>

\* SELECT .. FROM refresh_tokens .. FOR UPDATE: the row that the rest goes by.
RotateLocksToken(r) ==
  LET t == req[r].tok IN
  /\ req[r].pc = "token"
  /\ TokenFree(t)
  /\ tokenLock' = [tokenLock EXCEPT ![t] = r]
  /\ req' = [req EXCEPT ![r].pc = "account", ![r].live = t \in Live]
  /\ UNCHANGED <<clock, active, entra, token, used, userLock>>

\* SELECT .. FROM users .. FOR UPDATE does not wait.
AccountFree(u) == UserFree(u) /\ KeySharers(u) = {}

Lapsed(t, now) == now >= token[t].expires \/ now >= FamilyCap(token[t].owner, token[t].started)

\* A replaced token is honoured for a short while, if its replacement is live.
InGrace(t, now) ==
  /\ token[t].next # 0
  /\ now - token[t].replacedAt <= Grace
  /\ token[token[t].next].state = "live"
  /\ token[token[t].next].expires > now

\* The row INSERTed for the next cookie, and the UPDATE of the row it replaces.
Replace(t, u, now) ==
  /\ token' = [token EXCEPT
       ![used + 1] = [token[t] EXCEPT !.state = "live", !.expires = Expiry(u, token[t].started, now),
                                      !.replacedAt = 0, !.next = 0],
       ![t].state = "revoked", ![t].replacedAt = now, ![t].next = used + 1]
  /\ used' = used + 1

WrongRotate(r) ==
  LET t == req[r].tok
      u == req[r].user
      now == req[r].now IN
  /\ req[r].pc = "account"
  /\ AccountFree(u) /\ active[u] /\ ~Lapsed(t, now)
  /\ Replace(t, u, now)
  /\ Ends(r)
  /\ UNCHANGED <<clock, active, entra>>

\* The user's row is locked too, and everything is in order: the token is
\* replaced.
Rotate(r) ==
  LET t == req[r].tok
      u == req[r].user
      now == req[r].now IN
  /\ req[r].pc = "account"
  /\ AccountFree(u) /\ active[u] /\ ~Lapsed(t, now)
  /\ req[r].live
  /\ Replace(t, u, now)
  /\ Ends(r)
  /\ UNCHANGED <<clock, active, entra>>

\* A benign race: an access token, and no new refresh token.
AnswerInGrace(r) ==
  LET t == req[r].tok IN
  /\ req[r].pc = "account"
  /\ AccountFree(req[r].user) /\ active[req[r].user] /\ ~Lapsed(t, req[r].now)
  /\ ~req[r].live /\ InGrace(t, req[r].now)
  /\ Ends(r)
  /\ UNCHANGED <<clock, active, entra, token, used>>

Refused(r) ==
  \/ ~active[req[r].user]
  \/ Lapsed(req[r].tok, req[r].now)
  \/ ~req[r].live /\ ~InGrace(req[r].tok, req[r].now)

WrongRevokeFamily(r) ==
  /\ req[r].pc = "account"
  /\ Refused(r)
  /\ req' = [req EXCEPT ![r].pc = "sweep", ![r].todo = FamilyOf(req[r].tok) \cap Live]
  /\ UNCHANGED <<clock, active, entra, token, used, locks>>

\* The user is inactive, the token has lapsed or it is used again: UPDATE of
\* the family's rows that are not revoked.
RevokeFamily(r) ==
  LET t == req[r].tok
      u == req[r].user IN
  /\ req[r].pc = "account"
  /\ AccountFree(u)
  /\ Refused(r)
  /\ userLock' = [userLock EXCEPT ![u] = r]
  /\ req' = [req EXCEPT ![r].pc = "sweep", ![r].todo = FamilyOf(t) \cap Live]
  /\ UNCHANGED <<clock, active, entra, token, used, tokenLock>>

----------------------------------------------------------------------------
(* Logout, and the requests that revoke every session of a user *)

\* POST /auth/logout: the family is read and updated, whoever is using it.
LogoutStarts(r, t) ==
  /\ req[r] = NoReq
  /\ t \in Stored
  /\ req' = [req EXCEPT ![r] = [NoReq EXCEPT !.op = "logout", !.pc = "sweep", !.tok = t,
               !.user = token[t].owner, !.todo = FamilyOf(t)]]
  /\ UNCHANGED <<clock, active, entra, token, used, locks>>

\* PATCH /admin/users/{id} (revokes if the role is given or is_active becomes
\* false) and POST .../reset-password (a patch that only revokes).
PatchStarts(r, u, role, act) ==
  /\ req[r] = NoReq
  /\ req' = [req EXCEPT ![r] = [NoReq EXCEPT !.op = "patch", !.pc = "update", !.user = u,
               !.act = act, !.revokes = role \/ act = "off"]]
  /\ UNCHANGED <<clock, active, entra, token, used, locks>>

\* POST /auth/change-password, by a user who is active.
ChangePasswordStarts(r, u) ==
  /\ req[r] = NoReq /\ IdLeft
  /\ u \notin entra /\ active[u]
  /\ req' = [req EXCEPT ![r] = [NoReq EXCEPT !.op = "change", !.pc = "update", !.user = u,
               !.revokes = TRUE]]
  /\ UNCHANGED <<clock, active, entra, token, used, locks>>

\* cli reset-admin-password: the new password is committed on its own.
CliStarts(r, u) ==
  /\ req[r] = NoReq
  /\ u \notin entra /\ UserFree(u)
  /\ req' = [req EXCEPT ![r] = [NoReq EXCEPT !.op = "cli", !.pc = "update", !.user = u,
               !.revokes = TRUE]]
  /\ UNCHANGED <<clock, active, entra, token, used, locks>>

\* The UPDATE of users is in the transaction of revoke_all_for_user.
KeepsUserLock(r) == req[r].op # "cli"

\* UPDATE users, then the snapshot of revoke_all_for_user's UPDATE.
RevokeAll(r) ==
  LET u == req[r].user IN
  /\ req[r].pc = "update" /\ req[r].revokes
  /\ KeepsUserLock(r) => UserFree(u)
  /\ userLock' = IF KeepsUserLock(r) THEN [userLock EXCEPT ![u] = r] ELSE userLock
  /\ req' = [req EXCEPT ![r].pc = "sweep", ![r].todo = OwnedBy(u)]
  /\ UNCHANGED <<clock, active, entra, token, used, tokenLock>>

PatchedActive(r) ==
  [active EXCEPT ![req[r].user] = CASE req[r].act = "on" -> TRUE [] req[r].act = "off" -> FALSE
                                  [] OTHER -> active[req[r].user]]

\* A patch that revokes nothing.
PatchCommits(r) ==
  /\ req[r].pc = "update" /\ ~req[r].revokes
  /\ UserFree(req[r].user)
  /\ active' = PatchedActive(r)
  /\ Ends(r)
  /\ UNCHANGED <<clock, entra, token, used>>

\* The UPDATE reaches a row of its snapshot, and waits for it if it is locked.
SweepRow(r, t) ==
  /\ req[r].pc = "sweep" /\ t \in req[r].todo
  /\ TokenFree(t) \/ tokenLock[t] = r
  /\ tokenLock' = [tokenLock EXCEPT ![t] = r]
  /\ req' = [req EXCEPT ![r].todo = @ \ {t}]
  /\ UNCHANGED <<clock, active, entra, token, used, userLock>>

\* Rows that are revoked already keep their time: COALESCE, or the condition of
\* the UPDATE seen again on the row as it is now.
Revoked(r) ==
  [t \in Tokens |-> IF tokenLock[t] = r /\ token[t].state = "live"
                    THEN [token[t] EXCEPT !.state = "revoked"]
                    ELSE token[t]]

\* The log entry of a logout waits for a FOR UPDATE lock of the user (the
\* foreign key of auth_events); a changed password goes on to issue_session.
SweepCommits(r) ==
  LET u == req[r].user IN
  /\ req[r].pc = "sweep" /\ req[r].todo = {}
  /\ req[r].op = "logout" => ~LockedForUpdate(u)
  /\ token' = Revoked(r)
  /\ active' = PatchedActive(r)
  /\ Release(r)
  /\ req' = [req EXCEPT ![r] = IF req[r].op = "change"
                               THEN [NoReq EXCEPT !.op = "login", !.pc = "insert", !.user = u,
                                                  !.now = clock]
                               ELSE NoReq]
  /\ UNCHANGED <<clock, entra, used>>

----------------------------------------------------------------------------
(* Failures, deadlocks and time *)

\* A statement fails, the process dies or the connection is cut.
RequestFails(r) ==
  /\ req[r] # NoReq
  /\ Ends(r)
  /\ UNCHANGED <<clock, active, entra, token, used>>

\* The requests whose locks r waits for, when it can do nothing but wait.
WaitsFor(r) ==
  LET u == req[r].user IN
  CASE req[r].pc = "token" -> {tokenLock[req[r].tok]} \ {NoRequest}
    [] req[r].pc = "account" -> ({userLock[u]} \ {NoRequest}) \cup KeySharers(u)
    [] req[r].pc \in {"verified", "inserted"} -> {userLock[u]} \ {NoRequest}
    [] req[r].pc = "insert" -> IF LockedForUpdate(u) THEN {userLock[u]} ELSE {}
    [] req[r].pc = "update" -> IF KeepsUserLock(r) THEN {userLock[u]} \ {NoRequest} ELSE {}
    [] req[r].pc = "sweep" ->
         IF req[r].todo = {}
         THEN IF req[r].op = "logout" /\ LockedForUpdate(u) THEN {userLock[u]} ELSE {}
         ELSE IF \E t \in req[r].todo : tokenLock[t] \in {NoRequest, r} THEN {}
         ELSE {tokenLock[t] : t \in req[r].todo}
    [] OTHER -> {}

Deadlocked(r) ==
  \E S \in SUBSET Requests :
    r \in S /\ \A s \in S : WaitsFor(s) # {} /\ WaitsFor(s) \subseteq S

\* PostgreSQL aborts one of the transactions of a cycle.
DeadlockAborts(r) == Deadlocked(r) /\ RequestFails(r)

Tick ==
  /\ clock < MaxTime
  /\ clock' = clock + 1
  /\ UNCHANGED <<active, entra, token, used, locks, req>>

RequestStarts(r) ==
  \/ \E u \in Users :
       \/ LoginVerifies(r, u) \/ ChangePasswordStarts(r, u) \/ CliStarts(r, u)
       \/ \E role \in BOOLEAN, act \in {"keep", "on", "off"} : PatchStarts(r, u, role, act)
  \/ \E t \in Tokens : RefreshStarts(r, t) \/ LogoutStarts(r, t)

RequestStep(r) ==
  \/ LoginRecorded(r) \/ InsertSession(r) \/ IssueSession(r)
  \/ RotateLocksToken(r) \/ Rotate(r) \/ AnswerInGrace(r) \/ RevokeFamily(r)
  \/ RevokeAll(r) \/ PatchCommits(r)
  \/ (\E t \in Tokens : SweepRow(r, t)) \/ SweepCommits(r)

Next ==
  \/ \E u \in Users : EntraLogin(u)
  \/ \E r \in Requests : RequestStarts(r) \/ RequestStep(r) \/ RequestFails(r)
  \/ Tick

Spec == Init /\ [][Next]_vars

\* Requests take their steps (strong fairness: waiters are served in order), and
\* the deadlock detector runs.
FairSpec ==
  Spec /\ \A r \in Requests : SF_vars(RequestStep(r)) /\ WF_vars(DeadlockAborts(r))

----------------------------------------------------------------------------
(* Properties *)

TokenRecord == [owner : Users \cup {NoUser}, family : 0 .. MaxTokens,
                state : {"none", "live", "revoked"}, started : Nat, expires : Nat,
                replacedAt : Nat, next : 0 .. MaxTokens]
RequestRecord == [op : {"none", "login", "rotate", "logout", "patch", "change", "cli"},
                  pc : {"idle", "verified", "insert", "inserted", "token", "account", "update", "sweep"},
                  tok : 0 .. MaxTokens, user : Users \cup {NoUser}, now : 0 .. MaxTime,
                  live : BOOLEAN, todo : SUBSET Tokens, revokes : BOOLEAN,
                  act : {"keep", "on", "off"}]

\* The tables, the locks and the requests in flight hold values of their types.
TypeOK ==
  /\ clock \in 0 .. MaxTime
  /\ active \in [Users -> BOOLEAN] /\ entra \subseteq Users
  /\ token \in [Tokens -> TokenRecord]
  /\ used \in 0 .. MaxTokens
  /\ tokenLock \in [Tokens -> Requests \cup {NoRequest}]
  /\ userLock \in [Users -> Requests \cup {NoRequest}]
  /\ req \in [Requests -> RequestRecord]

\* However refreshes, logouts and revocations race, a family has at most one
\* live token: no cookie is ever rotated into two.
OneLivePerFamily ==
  \A t, x \in Live : token[t].family = token[x].family => t = x

\* No sequence of rotations carries a token past the absolute cap of its family,
\* which is the cap of the first login (AUTH_AUDIT.md: refresh families have
\* idle and absolute caps).
FamilyCapped ==
  \A t \in Stored :
    /\ token[t].expires <= FamilyCap(token[t].owner, token[t].started)
    /\ token[t].started = token[token[t].family].started

\* A family is one chain: each token but the first replaced exactly one other,
\* which is revoked, so that the token whose replacement is still live (the one
\* honoured in the grace time) is the last but one.
FamilyIsChain ==
  \A t \in Stored :
    LET replaced == {x \in FamilyOf(t) : token[x].next = t} IN
    /\ Cardinality(replaced) = IF token[t].family = t THEN 0 ELSE 1
    /\ \A x \in replaced : x < t /\ token[x].state = "revoked"

\* However refreshes, logins, revocations and replays race, a family stays one
\* chain of tokens with one live end and within its cap.
FamilySound == OneLivePerFamily /\ FamilyIsChain /\ FamilyCapped

\* When a reset, a patch or a change of password that revokes commits, no
\* session of the user that was open is live, the ones included that refreshes
\* renewed while the revocation waited.  A login whose INSERT has not been
\* committed (sessions.py:97-105) is not among them: it opens its session next.
RevocationIsComplete ==
  [][ \A r \in Requests :
        SweepCommits(r) /\ req[r].op \in {"patch", "change"}
        => \A t \in OwnedBy(req[r].user) : token'[t].state # "live" ]_vars

\* What such a login leaves to a user who has been deactivated stays a session
\* that was never refreshed: whatever races, nobody who is inactive holds a token
\* that a refresh handed out.
InactiveNotRefreshed ==
  \A t \in Live : ~active[token[t].owner] => token[t].family = t

\* A refresh that finds its token reused, lapsed or its user inactive leaves no
\* live token in the family, whatever rotations, logouts and grants it raced.
ReuseEndsFamily ==
  [][ \A r \in Requests :
        SweepCommits(r) /\ req[r].op = "rotate"
        => \A t \in FamilyOf(req[r].tok) : token'[t].state # "live" ]_vars

\* A sweep over the tokens of a user or of a family misses none that a refresh
\* beside it inserted, and the session of a login beside it is all that a user
\* keeps who is deactivated.
SweepsComplete == RevocationIsComplete /\ ReuseEndsFamily /\ []InactiveNotRefreshed

\* Families with a live token are open, the others that exist are closed.
Opened == {token[t].family : t \in Stored}
Closed == Opened \ {token[t].family : t \in Live}
Promise == INSTANCE SessionFamilies WITH Families <- Tokens, opened <- Opened, closed <- Closed

\* Whatever races, families are opened once and closed for good.
ImplementsFamilies == Promise!Spec

\* Every request ends, once the database has broken the deadlocks between
\* refreshes (token, then user) and revocations (user, then tokens).
RequestsEnd == \A r \in Requests : req[r] # NoReq ~> req[r] = NoReq
=============================================================================
