--------------------------- MODULE SessionsProofs ---------------------------
(***************************************************************************)
(* What refresh-token families keep to for any number of users, requests    *)
(* in flight and tokens, and any idle time, caps and grace.                 *)
(***************************************************************************)
EXTENDS Sessions, FiniteSetTheorems, TLAPS

----------------------------------------------------------------------------
(* Types, and room for every request that may insert a token *)

Inserts(q) ==
  q.pc \in {"token", "account", "verified", "insert", "inserted"} \/ q.op = "change"
Room == used + Cardinality(Inserting) <= MaxTokens
Reading == \A r \in Requests : req[r].pc \in {"token", "account"} => req[r].tok \in Tokens
TypeInv == TypeOK /\ Room /\ Reading

LEMMA InsertingFinite ==
  ASSUME TypeOK
  PROVE  /\ Inserting = {r \in Requests : Inserts(req[r])}
         /\ IsFiniteSet(Inserting) /\ Cardinality(Inserting) \in Nat
  <1>1. Inserting = {r \in Requests : Inserts(req[r])}
    BY DEF Inserting, Inserts
  <1>2. Inserting \in SUBSET Requests
    BY DEF Inserting
  <1> QED BY <1>1, <1>2, RequestsAssumption, FS_Subset, FS_CardinalityType

\* There is an id for a request that may insert a token, and for one that starts
\* while an id is left.
LEMMA IdForInsert ==
  ASSUME TypeInv, (\E r \in Requests : Inserts(req[r])) \/ IdLeft
  PROVE  used + 1 \in Tokens /\ used \in Nat
  <1>1. IsFiniteSet(Inserting) /\ Cardinality(Inserting) \in Nat /\ used \in 0 .. MaxTokens
    BY InsertingFinite DEF TypeInv, TypeOK
  <1>2. CASE IdLeft
    BY <1>1, <1>2, TokensAssumption DEF IdLeft, Tokens
  <1>3. CASE \E r \in Requests : Inserts(req[r])
    <2>1. Inserting # {}
      BY <1>3, InsertingFinite DEF TypeInv
    <2>2. Cardinality(Inserting) # 0
      BY <1>1, <2>1, FS_EmptySet
    <2> QED BY <1>1, <2>2, TokensAssumption DEF TypeInv, Room, Tokens
  <1> QED BY <1>2, <1>3

\* A step of one request that takes an id only if it then inserts nothing more.
LEMMA RoomKept ==
  ASSUME TypeInv, NEW r \in Requests, NEW q, req' = [req EXCEPT ![r] = q],
         \/ used' = used /\ (Inserts(q) => Inserts(req[r]) \/ IdLeft)
         \/ used' = used + 1 /\ Inserts(req[r]) /\ ~Inserts(q)
  PROVE  used' \in 0 .. MaxTokens /\ Room'
  <1>1. /\ IsFiniteSet(Inserting) /\ Cardinality(Inserting) \in Nat
        /\ used \in 0 .. MaxTokens /\ req \in [Requests -> RequestRecord]
        /\ Inserting = {x \in Requests : Inserts(req[x])}
        /\ used + Cardinality(Inserting) <= MaxTokens
    BY InsertingFinite DEF TypeInv, TypeOK, Room
  <1>2. \A x \in Requests : req'[x] = IF x = r THEN q ELSE req[x]
    BY <1>1
  <1>3. Inserting' = {x \in Requests : Inserts(req'[x])}
    BY DEF Inserting, Inserts
  <1>4. CASE used' = used /\ (Inserts(q) => Inserts(req[r]))
    <2>1. Inserting' \in SUBSET Inserting
      BY <1>1, <1>2, <1>3, <1>4
    <2>2. Cardinality(Inserting') <= Cardinality(Inserting) /\ Cardinality(Inserting') \in Nat
      BY <1>1, <2>1, FS_Subset, FS_CardinalityType
    <2> QED BY <1>1, <1>4, <2>2, TokensAssumption DEF Room
  <1>5. CASE used' = used /\ IdLeft
    <2>1. Inserting' \in SUBSET (Inserting \cup {r})
      BY <1>1, <1>2, <1>3
    <2>2. /\ IsFiniteSet(Inserting \cup {r})
          /\ Cardinality(Inserting \cup {r}) \in {Cardinality(Inserting), Cardinality(Inserting) + 1}
      BY <1>1, FS_AddElement, Zenon
    <2>3. /\ Cardinality(Inserting') <= Cardinality(Inserting \cup {r})
          /\ Cardinality(Inserting') \in Nat /\ Cardinality(Inserting \cup {r}) \in Nat
      BY <2>1, <2>2, FS_Subset, FS_CardinalityType
    <2> QED BY <1>1, <1>5, <2>2, <2>3, TokensAssumption DEF Room, IdLeft
  <1>6. CASE used' = used + 1 /\ Inserts(req[r]) /\ ~Inserts(q)
    <2>1. Inserting' = Inserting \ {r} /\ r \in Inserting
      BY <1>1, <1>2, <1>3, <1>6
    <2>2. Cardinality(Inserting') = Cardinality(Inserting) - 1 /\ Cardinality(Inserting') \in Nat
      BY <1>1, <2>1, FS_RemoveElement, FS_CardinalityType
    <2> QED BY <1>1, <1>6, <2>2, TokensAssumption DEF Room
  <1> QED BY <1>4, <1>5, <1>6

\* The rows that are inserted.
LEMMA FirstTokenType ==
  ASSUME TypeInv, used + 1 \in Tokens, NEW u \in Users \cup {NoUser}, NEW now \in Nat
  PROVE  FirstToken(u, now) \in TokenRecord
  <1>1. Expiry(u, now, now) \in Nat
    BY TimesAssumption DEF Expiry, Earlier, FamilyCap
  <1>2. used + 1 \in 0 .. MaxTokens /\ 0 \in 0 .. MaxTokens /\ 0 \in Nat
    BY TokensAssumption DEF Tokens
  <1> QED BY <1>1, <1>2 DEF FirstToken, TokenRecord

LEMMA NextTokenType ==
  ASSUME TypeInv, used + 1 \in Tokens, NEW t \in Tokens, NEW u, NEW now \in Nat
  PROVE  /\ [token[t] EXCEPT !.state = "live", !.expires = Expiry(u, token[t].started, now),
                             !.replacedAt = 0, !.next = 0] \in TokenRecord
         /\ [token[t] EXCEPT !.state = "revoked", !.replacedAt = now, !.next = used + 1] \in TokenRecord
  <1>1. token[t] \in TokenRecord
    BY DEF TypeInv, TypeOK
  <1>2. token[t].started \in Nat
    BY <1>1 DEF TokenRecord
  <1>3. Expiry(u, token[t].started, now) \in Nat
    BY <1>2, TimesAssumption DEF Expiry, Earlier, FamilyCap
  <1>4. used + 1 \in 0 .. MaxTokens /\ 0 \in 0 .. MaxTokens
    BY TokensAssumption DEF Tokens
  <1> QED BY <1>1, <1>3, <1>4 DEF TokenRecord

LEMMA NoReqType == NoReq \in RequestRecord
  BY TokensAssumption DEF NoReq, RequestRecord

LEMMA LoginType ==
  ASSUME NEW u \in Users \cup {NoUser}, NEW now \in 0 .. MaxTime
  PROVE  /\ [NoReq EXCEPT !.op = "login", !.pc = "verified", !.user = u] \in RequestRecord
         /\ [NoReq EXCEPT !.op = "login", !.pc = "insert", !.user = u, !.now = now] \in RequestRecord
  BY NoReqType DEF RequestRecord

\* The locks that are left when r ends, or that r takes.
LEMMA ReleaseType ==
  ASSUME TypeOK, NEW r \in Requests, Release(r)
  PROVE  /\ tokenLock' \in [Tokens -> Requests \cup {NoRequest}]
         /\ userLock' \in [Users -> Requests \cup {NoRequest}]
  BY DEF TypeOK, Release

\* What a step of one request must see to.
LEMMA RequestType ==
  ASSUME TypeInv, NEW r \in Requests, NEW q \in RequestRecord, req' = [req EXCEPT ![r] = q],
         \/ used' = used /\ (Inserts(q) => Inserts(req[r]) \/ IdLeft)
         \/ used' = used + 1 /\ Inserts(req[r]) /\ ~Inserts(q),
         q.pc \in {"token", "account"} => q.tok \in Tokens,
         clock' = clock, entra' = entra, active' \in [Users -> BOOLEAN],
         token' \in [Tokens -> TokenRecord],
         tokenLock' \in [Tokens -> Requests \cup {NoRequest}],
         userLock' \in [Users -> Requests \cup {NoRequest}]
  PROVE  TypeInv'
  <1>1. used' \in 0 .. MaxTokens /\ Room'
    BY RoomKept
  <1>2. req' \in [Requests -> RequestRecord] /\ Reading'
    BY DEF TypeInv, TypeOK, Reading
  <1> QED BY <1>1, <1>2 DEF TypeInv, TypeOK

LEMMA PatchedType ==
  ASSUME TypeOK, NEW r \in Requests
  PROVE  PatchedActive(r) \in [Users -> BOOLEAN]
  <1>1. req[r].act \in {"keep", "on", "off"} /\ active \in [Users -> BOOLEAN]
    BY DEF TypeOK, RequestRecord
  <1>2. req[r].act = "on" => PatchedActive(r) = [active EXCEPT ![req[r].user] = TRUE]
    BY DEF PatchedActive
  <1>3. req[r].act = "off" => PatchedActive(r) = [active EXCEPT ![req[r].user] = FALSE]
    BY DEF PatchedActive
  <1>4. req[r].act = "keep" => PatchedActive(r) = [active EXCEPT ![req[r].user] = active[req[r].user]]
    BY DEF PatchedActive
  <1> QED BY <1>1, <1>2, <1>3, <1>4

LEMMA RevokedType ==
  ASSUME token \in [Tokens -> TokenRecord], NEW r \in Requests
  PROVE  Revoked(r) \in [Tokens -> TokenRecord]
  <1>1. \A x \in TokenRecord : [x EXCEPT !.state = "revoked"] \in TokenRecord
    BY DEF TokenRecord
  <1> QED BY <1>1 DEF Revoked

LEMMA InitType == Init => TypeInv
  <1> SUFFICES ASSUME Init PROVE TypeInv
    OBVIOUS
  <1>1. NoToken \in TokenRecord
    BY TokensAssumption DEF NoToken, TokenRecord
  <1>2. TypeOK
    BY <1>1, NoReqType, TokensAssumption DEF Init, TypeOK
  <1>3. Inserting = {}
    BY DEF Init, Inserting, NoReq
  <1>4. Reading
    BY DEF Init, Reading, NoReq
  <1> QED BY <1>2, <1>3, <1>4, FS_EmptySet, TokensAssumption DEF TypeInv, Room, Init

LEMMA NextType == TypeInv /\ [Next]_vars => TypeInv'
  <1> SUFFICES ASSUME TypeInv, [Next]_vars PROVE TypeInv'
    OBVIOUS
  <1> USE DEF locks
  <1>0. /\ clock \in 0 .. MaxTime /\ clock \in Nat /\ MaxTime \in Nat /\ MaxTokens \in Nat
        /\ active \in [Users -> BOOLEAN] /\ token \in [Tokens -> TokenRecord]
        /\ tokenLock \in [Tokens -> Requests \cup {NoRequest}]
        /\ userLock \in [Users -> Requests \cup {NoRequest}]
        /\ req \in [Requests -> RequestRecord]
        /\ \A r \in Requests : /\ req[r] \in RequestRecord /\ req[r].now \in 0 .. MaxTime
                               /\ req[r].now \in Nat
    BY TokensAssumption DEF TypeInv, TypeOK, RequestRecord
  <1>1. ASSUME NEW r \in Requests, NEW u \in Users,
               LoginVerifies(r, u) \/ ChangePasswordStarts(r, u) \/ CliStarts(r, u)
               \/ \E role \in BOOLEAN, act \in {"keep", "on", "off"} : PatchStarts(r, u, role, act)
        PROVE  TypeInv'
    <2>1. /\ UNCHANGED <<clock, active, entra, token, used, tokenLock, userLock>>
          /\ LoginVerifies(r, u) \/ ChangePasswordStarts(r, u) => IdLeft
      BY <1>1 DEF LoginVerifies, ChangePasswordStarts, CliStarts, PatchStarts
    <2>2. PICK q \in RequestRecord : /\ req' = [req EXCEPT ![r] = q]
                                     /\ Inserts(q) => IdLeft
                                     /\ q.pc \notin {"token", "account"}
      <3>1. CASE LoginVerifies(r, u)
        <4> DEFINE q == [NoReq EXCEPT !.op = "login", !.pc = "verified", !.user = u]
        <4>1. q \in RequestRecord /\ q.pc = "verified"
          BY <1>0, LoginType DEF NoReq
        <4>2. req' = [req EXCEPT ![r] = q]
          BY <3>1 DEF LoginVerifies
        <4> HIDE DEF q
        <4> QED BY <2>1, <3>1, <4>1, <4>2
      <3>2. CASE ChangePasswordStarts(r, u)
        <4> DEFINE q == [NoReq EXCEPT !.op = "change", !.pc = "update", !.user = u, !.revokes = TRUE]
        <4>1. q \in RequestRecord /\ q.pc = "update"
          BY NoReqType DEF RequestRecord, NoReq
        <4>2. req' = [req EXCEPT ![r] = q]
          BY <3>2 DEF ChangePasswordStarts
        <4> HIDE DEF q
        <4> QED BY <2>1, <3>2, <4>1, <4>2
      <3>3. CASE CliStarts(r, u)
        <4> DEFINE q == [NoReq EXCEPT !.op = "cli", !.pc = "update", !.user = u, !.revokes = TRUE]
        <4>1. q \in RequestRecord
          BY NoReqType DEF RequestRecord
        <4>2. ~Inserts(q) /\ q.pc = "update" /\ req' = [req EXCEPT ![r] = q]
          BY <3>3 DEF CliStarts, Inserts, NoReq
        <4> HIDE DEF q
        <4> QED BY <4>1, <4>2
      <3>4. ASSUME NEW role \in BOOLEAN, NEW act \in {"keep", "on", "off"}, PatchStarts(r, u, role, act)
            PROVE  \E q \in RequestRecord : /\ req' = [req EXCEPT ![r] = q]
                                          /\ ~Inserts(q) /\ q.pc = "update"
        <4> DEFINE q == [NoReq EXCEPT !.op = "patch", !.pc = "update", !.user = u,
                                      !.act = act, !.revokes = role \/ act = "off"]
        <4>1. q \in RequestRecord
          <5>1. \A v \in BOOLEAN :
                  [NoReq EXCEPT !.op = "patch", !.pc = "update", !.user = u,
                                !.act = act, !.revokes = v] \in RequestRecord
            BY NoReqType DEF RequestRecord
          <5> QED BY <5>1
        <4>2. ~Inserts(q) /\ q.pc = "update" /\ req' = [req EXCEPT ![r] = q]
          BY <3>4 DEF PatchStarts, Inserts, NoReq
        <4> HIDE DEF q
        <4> QED BY <4>1, <4>2
      <3> QED BY <1>1, <3>1, <3>2, <3>3, <3>4
    <2> QED BY <1>0, <2>1, <2>2, RequestType
  <1>2. ASSUME NEW r \in Requests, NEW t \in Tokens, RefreshStarts(r, t) \/ LogoutStarts(r, t)
        PROVE  TypeInv'
    <2>1. t \in 0 .. MaxTokens /\ token[t].owner \in Users \cup {NoUser}
      BY <1>0 DEF Tokens, TokenRecord
    <2>2. PICK q \in RequestRecord : /\ req' = [req EXCEPT ![r] = q]
                                     /\ Inserts(q) => IdLeft
                                     /\ q.pc \in {"token", "account"} => q.tok \in Tokens
      <3>1. CASE RefreshStarts(r, t)
        <4> DEFINE q == [NoReq EXCEPT !.op = "rotate", !.pc = "token", !.tok = t,
                                      !.user = token[t].owner, !.now = clock]
        <4>1. q \in RequestRecord /\ q.tok = t
          BY <1>0, <2>1, NoReqType DEF RequestRecord
        <4>2. req' = [req EXCEPT ![r] = q] /\ IdLeft
          BY <3>1 DEF RefreshStarts
        <4> HIDE DEF q
        <4> QED BY <4>1, <4>2
      <3>2. CASE LogoutStarts(r, t)
        <4> DEFINE q == [NoReq EXCEPT !.op = "logout", !.pc = "sweep", !.tok = t,
                                      !.user = token[t].owner, !.todo = FamilyOf(t)]
        <4>1. FamilyOf(t) \in SUBSET Tokens
          BY DEF FamilyOf, Stored
        <4>2. q \in RequestRecord
          BY <2>1, <4>1, NoReqType DEF RequestRecord
        <4>3. ~Inserts(q) /\ q.pc = "sweep" /\ req' = [req EXCEPT ![r] = q]
          BY <3>2 DEF LogoutStarts, Inserts, NoReq
        <4> HIDE DEF q
        <4> QED BY <4>2, <4>3
      <3> QED BY <1>2, <3>1, <3>2
    <2>3. UNCHANGED <<clock, active, entra, token, used, tokenLock, userLock>>
      BY <1>2 DEF RefreshStarts, LogoutStarts
    <2> QED BY <1>0, <2>2, <2>3, RequestType
  <1>14. ASSUME NEW r \in Requests, LoginRecorded(r) \/ InsertSession(r) PROVE TypeInv'
    <2>1. PICK q : /\ req' = [req EXCEPT ![r] = q] /\ q \in RequestRecord
                   /\ q.pc \in {"insert", "inserted"}
      <3>1. [req[r] EXCEPT !.pc = "insert", !.now = clock] \in RequestRecord
        BY <1>0 DEF RequestRecord
      <3>2. [req[r] EXCEPT !.pc = "inserted"] \in RequestRecord
        BY <1>0 DEF RequestRecord
      <3>3. CASE LoginRecorded(r)
        <4> DEFINE q == [req[r] EXCEPT !.pc = "insert", !.now = clock]
        <4>1. req' = [req EXCEPT ![r] = q] /\ q.pc = "insert"
          BY <1>0, <3>3 DEF LoginRecorded, RequestRecord
        <4> HIDE DEF q
        <4> QED BY <3>1, <4>1 DEF q
      <3>4. CASE InsertSession(r)
        <4> DEFINE q == [req[r] EXCEPT !.pc = "inserted"]
        <4>1. req' = [req EXCEPT ![r] = q] /\ q.pc = "inserted"
          BY <1>0, <3>4 DEF InsertSession, RequestRecord
        <4> HIDE DEF q
        <4> QED BY <3>2, <4>1 DEF q
      <3> QED BY <1>14, <3>3, <3>4
    <2>2. Inserts(req[r]) /\ UNCHANGED <<clock, active, entra, token, used, tokenLock, userLock>>
      BY <1>14 DEF LoginRecorded, InsertSession, Inserts
    <2> QED BY <1>0, <2>1, <2>2, RequestType
  <1>3. ASSUME NEW r \in Requests, IssueSession(r) PROVE TypeInv'
    <2>1. Inserts(req[r])
      BY <1>3 DEF IssueSession, Inserts
    <2>2. used + 1 \in Tokens
      BY <2>1, IdForInsert
    <2>3. token' = [token EXCEPT ![used + 1] = FirstToken(req[r].user, req[r].now)]
      BY <1>3 DEF IssueSession
    <2>4. FirstToken(req[r].user, req[r].now) \in TokenRecord
      <3>1. req[r].user \in Users \cup {NoUser} /\ req[r].now \in Nat
        BY <1>0 DEF RequestRecord
      <3> QED BY <2>2, <3>1, FirstTokenType
    <2>5. token' \in [Tokens -> TokenRecord]
      BY <1>0, <2>3, <2>4
    <2>6. ~Inserts(NoReq) /\ NoReq.pc = "idle"
      BY DEF Inserts, NoReq
    <2>7. /\ req' = [req EXCEPT ![r] = NoReq] /\ Release(r) /\ used' = used + 1
          /\ UNCHANGED <<clock, active, entra>>
      BY <1>3 DEF IssueSession, Ends
    <2> QED BY <1>0, <2>1, <2>5, <2>6, <2>7, NoReqType, ReleaseType, RequestType DEF TypeInv
  <1>4. ASSUME NEW u \in Users, EntraLogin(u) PROVE TypeInv'
    <2>1. used + 1 \in Tokens /\ used \in Nat
      BY <1>4, IdForInsert DEF EntraLogin
    <2>2. FirstToken(u, clock) \in TokenRecord
      BY <1>0, <2>1, FirstTokenType
    <2>3. TypeOK'
      BY <1>4, <2>1, <2>2, TokensAssumption DEF EntraLogin, TypeInv, TypeOK, Tokens
    <2>4. Inserting' = Inserting
      BY <1>4 DEF EntraLogin, Inserting
    <2>5. Cardinality(Inserting) \in Nat
      BY InsertingFinite DEF TypeInv
    <2>6. Room'
      BY <1>0, <1>4, <2>1, <2>4, <2>5 DEF EntraLogin, Room, IdLeft
    <2>7. Reading'
      BY <1>4 DEF EntraLogin, TypeInv, Reading
    <2> QED BY <2>3, <2>6, <2>7 DEF TypeInv
  <1>5. ASSUME NEW r \in Requests, RotateLocksToken(r) PROVE TypeInv'
    <2> DEFINE q == [req[r] EXCEPT !.pc = "account", !.live = req[r].tok \in Live]
    <2>1. q \in RequestRecord
      <3>1. \A v \in BOOLEAN : [req[r] EXCEPT !.pc = "account", !.live = v] \in RequestRecord
        BY <1>0 DEF RequestRecord
      <3>2. CASE req[r].tok \in Live
        <4>1. q = [req[r] EXCEPT !.pc = "account", !.live = TRUE]
          BY <3>2
        <4> QED BY <3>1, <4>1
      <3>3. CASE ~(req[r].tok \in Live)
        <4>1. (req[r].tok \in Live) = FALSE
          BY <3>3
        <4>2. q = [req[r] EXCEPT !.pc = "account", !.live = FALSE]
          BY <4>1
        <4> QED BY <3>1, <4>2
      <3> QED BY <3>2, <3>3
    <2>2. Inserts(req[r]) /\ q.tok \in Tokens
      BY <1>0, <1>5 DEF RotateLocksToken, Inserts, TypeInv, Reading, RequestRecord
    <2>3. /\ req' = [req EXCEPT ![r] = q] /\ UNCHANGED <<clock, active, entra, token, used, userLock>>
          /\ tokenLock' = [tokenLock EXCEPT ![req[r].tok] = r]
      BY <1>5 DEF RotateLocksToken
    <2> HIDE DEF q
    <2> QED BY <1>0, <2>1, <2>2, <2>3, RequestType
  <1>6. ASSUME NEW r \in Requests, Rotate(r) PROVE TypeInv'
    <2>1. Inserts(req[r]) /\ ~Inserts(NoReq) /\ NoReq.pc = "idle"
      BY <1>6 DEF Rotate, Inserts, NoReq
    <2>2. used + 1 \in Tokens
      BY <2>1, IdForInsert
    <2> DEFINE t == req[r].tok
               u == req[r].user
               now == req[r].now
               new == [token[t] EXCEPT !.state = "live", !.expires = Expiry(u, token[t].started, now),
                                       !.replacedAt = 0, !.next = 0]
               old == [token[t] EXCEPT !.state = "revoked", !.replacedAt = now, !.next = used + 1]
    <2>3. token' = [token EXCEPT ![used + 1] = new, ![t].state = "revoked", ![t].replacedAt = now,
                                 ![t].next = used + 1]
      BY <1>6 DEF Rotate, Replace
    <2>4. token' \in [Tokens -> TokenRecord]
      <3> DEFINE base == [token EXCEPT ![used + 1] = new]
      <3>1. new \in TokenRecord
        BY <1>0, <1>6, <2>2, NextTokenType DEF Rotate, TypeInv, Reading
      <3>2. base \in [Tokens -> TokenRecord]
        BY <1>0, <3>1
      <3>3. \A x \in TokenRecord : [x EXCEPT !.state = "revoked", !.replacedAt = now, !.next = used + 1] \in TokenRecord
        <4>1. used + 1 \in 0 .. MaxTokens
          BY <1>0, <2>2 DEF Tokens
        <4> QED BY <1>0, <4>1 DEF TokenRecord
      <3>4. token' = [base EXCEPT ![t] = [base[t] EXCEPT !.state = "revoked", !.replacedAt = now,
                                                         !.next = used + 1]]
        BY <2>3
      <3> HIDE DEF base
      <3> QED BY <3>2, <3>3, <3>4
    <2>5. /\ req' = [req EXCEPT ![r] = NoReq] /\ Release(r) /\ used' = used + 1
          /\ UNCHANGED <<clock, active, entra>>
      BY <1>6 DEF Rotate, Replace, Ends
    <2> QED BY <1>0, <2>1, <2>4, <2>5, NoReqType, ReleaseType, RequestType DEF TypeInv
  <1>7. ASSUME NEW r \in Requests, AnswerInGrace(r) \/ RequestFails(r) PROVE TypeInv'
    <2>1. ~Inserts(NoReq) /\ NoReq.pc = "idle"
      BY DEF Inserts, NoReq
    <2>2. /\ req' = [req EXCEPT ![r] = NoReq] /\ Release(r)
          /\ UNCHANGED <<clock, active, entra, token, used>>
      BY <1>7 DEF AnswerInGrace, RequestFails, Ends
    <2> QED BY <1>0, <2>1, <2>2, NoReqType, ReleaseType, RequestType DEF TypeInv
  <1>8. ASSUME NEW r \in Requests, RevokeFamily(r) \/ RevokeAll(r) PROVE TypeInv'
    <2>1. PICK S \in SUBSET Tokens : req' = [req EXCEPT ![r].pc = "sweep", ![r].todo = S]
      <3>1. FamilyOf(req[r].tok) \cap Live \in SUBSET Tokens /\ OwnedBy(req[r].user) \in SUBSET Tokens
        BY DEF FamilyOf, OwnedBy, Stored
      <3> QED BY <1>8, <3>1 DEF RevokeFamily, RevokeAll
    <2> DEFINE q == [req[r] EXCEPT !.pc = "sweep", !.todo = S]
    <2>2. q \in RequestRecord
      BY <1>0 DEF RequestRecord
    <2>3. (Inserts(q) => Inserts(req[r])) /\ q.pc = "sweep"
      BY <1>0 DEF Inserts, RequestRecord
    <2>4. req' = [req EXCEPT ![r] = q]
      BY <2>1
    <2> HIDE DEF q
    <2>5. /\ userLock' = userLock \/ userLock' = [userLock EXCEPT ![req[r].user] = r]
          /\ UNCHANGED <<clock, active, entra, token, used, tokenLock>>
      BY <1>8 DEF RevokeFamily, RevokeAll
    <2>6. userLock' \in [Users -> Requests \cup {NoRequest}]
      BY <1>0, <2>5
    <2> QED BY <1>0, <2>2, <2>3, <2>4, <2>5, <2>6, RequestType
  <1>9. ASSUME NEW r \in Requests, PatchCommits(r) PROVE TypeInv'
    <2>1. ~Inserts(NoReq) /\ NoReq.pc = "idle"
      BY DEF Inserts, NoReq
    <2>2. /\ req' = [req EXCEPT ![r] = NoReq] /\ Release(r)
          /\ active' = PatchedActive(r) /\ UNCHANGED <<clock, entra, token, used>>
      BY <1>9 DEF PatchCommits, Ends
    <2> QED BY <1>0, <2>1, <2>2, NoReqType, ReleaseType, RequestType, PatchedType DEF TypeInv
  <1>10. ASSUME NEW r \in Requests, NEW t \in Tokens, SweepRow(r, t) PROVE TypeInv'
    <2> DEFINE q == [req[r] EXCEPT !.todo = @ \ {t}]
    <2>1. q \in RequestRecord
      BY <1>0 DEF RequestRecord
    <2>2. (Inserts(q) => Inserts(req[r])) /\ q.pc = "sweep"
      BY <1>0, <1>10 DEF Inserts, RequestRecord, SweepRow
    <2>3. /\ req' = [req EXCEPT ![r] = q] /\ tokenLock' = [tokenLock EXCEPT ![t] = r]
          /\ UNCHANGED <<clock, active, entra, token, used, userLock>>
      BY <1>10 DEF SweepRow
    <2> HIDE DEF q
    <2> QED BY <1>0, <2>1, <2>2, <2>3, RequestType
  <1>11. ASSUME NEW r \in Requests, SweepCommits(r) PROVE TypeInv'
    <2> DEFINE q == [NoReq EXCEPT !.op = "login", !.pc = "insert", !.user = req[r].user, !.now = clock]
    <2>1. q \in RequestRecord /\ q.pc = "insert"
      <3>1. req[r].user \in Users \cup {NoUser}
        BY <1>0 DEF RequestRecord
      <3>2. q \in RequestRecord
        BY <1>0, <3>1, LoginType
      <3> QED BY <3>2 DEF NoReq
    <2>2. ~Inserts(NoReq) /\ NoReq.pc = "idle"
      BY DEF Inserts, NoReq
    <2>3. /\ req' = [req EXCEPT ![r] = IF req[r].op = "change" THEN q ELSE NoReq]
          /\ Release(r) /\ token' = Revoked(r) /\ active' = PatchedActive(r)
          /\ UNCHANGED <<clock, entra, used>>
      BY <1>11 DEF SweepCommits
    <2> HIDE DEF q
    <2>4. token' \in [Tokens -> TokenRecord]
      BY <1>0, <2>3, RevokedType
    <2>5. CASE req[r].op = "change"
      BY <1>0, <2>1, <2>3, <2>4, <2>5, ReleaseType, RequestType, PatchedType DEF TypeInv, Inserts
    <2>6. CASE req[r].op # "change"
      BY <1>0, <2>2, <2>3, <2>4, <2>6, NoReqType, ReleaseType, RequestType, PatchedType DEF TypeInv
    <2> QED BY <2>5, <2>6
  <1>12. CASE Tick
    <2>1. clock' \in 0 .. MaxTime
      BY <1>0, <1>12 DEF Tick
    <2> QED BY <1>12, <2>1 DEF Tick, TypeInv, TypeOK, Room, Inserting, Reading
  <1>13. CASE UNCHANGED vars
    BY <1>13 DEF vars, TypeInv, TypeOK, Room, Inserting, Reading
  <1> QED
    BY <1>1, <1>2, <1>3, <1>4, <1>5, <1>6, <1>7, <1>8, <1>9, <1>10, <1>11, <1>12, <1>13, <1>14
       DEF Next, RequestStarts, RequestStep

\* Rows, locks and requests keep to their types.
THEOREM TypeCorrect == Spec => []TypeOK
  <1>1. TypeInv => TypeOK
    BY DEF TypeInv
  <1> QED BY <1>1, InitType, NextType, PTL DEF Spec

----------------------------------------------------------------------------
(* Families *)

\* Ids are handed out in order.
IdsInOrder == \A t \in Tokens : t \in Stored <=> t <= used

\* A token is of a user and of a family that its first token opened, for that user.
Belongs ==
  \A t \in Stored :
    /\ token[t].owner \in Users
    /\ token[t].family \in Stored /\ token[t].family <= t
    /\ token[token[t].family].family = token[t].family
    /\ token[token[t].family].owner = token[t].owner

\* A token is replaced once, by a later one of its family, and replaces one
\* unless it is the first.
Linked ==
  /\ \A t \in Stored : token[t].next # 0 =>
       /\ token[t].next \in Stored /\ t < token[t].next /\ token[t].state = "revoked"
       /\ token[token[t].next].family = token[t].family
       /\ token[t].next # token[t].family
  /\ \A t, x \in Stored : token[t].next = token[x].next /\ token[t].next # 0 => t = x
  /\ \A t \in Stored : token[t].family # t => \E x \in Stored : token[x].next = t

\* A request works for an existing user; a refresh for the owner of its token,
\* whose row it has locked before it looks at the account.
Works(r) ==
  /\ req[r].pc # "idle" => req[r].user \in Users
  /\ req[r].op \in {"rotate", "logout"} =>
       req[r].tok \in Stored /\ token[req[r].tok].owner = req[r].user
  /\ req[r].pc \in {"token", "account"} => req[r].op = "rotate"
  /\ req[r].pc = "update" => req[r].op \in {"patch", "change", "cli"}
  /\ req[r].pc = "account" =>
       tokenLock[req[r].tok] = r /\ (req[r].live => req[r].tok \in Live)

\* What a sweep is to revoke.
Swept(r) == IF req[r].op = "rotate" THEN FamilyOf(req[r].tok) ELSE OwnedBy(req[r].user)

\* A sweep that has locked the user has before it, or has locked, every live
\* token it is to revoke, those inserted since its snapshot included.
Sweeps(r) ==
  req[r].pc = "sweep" /\ req[r].op \in {"patch", "change", "rotate"} =>
    /\ userLock[req[r].user] = r
    /\ \A t \in Swept(r) \cap Live : t \in req[r].todo \/ tokenLock[t] = r

TokensInv == IdsInOrder /\ Belongs /\ Linked /\ OneLivePerFamily /\ FamilyCapped
RequestsInv == \A r \in Requests : Works(r) /\ Sweeps(r)
FamilyInv == TokensInv /\ RequestsInv

LEMMA StoredInTokens == Stored \subseteq Tokens /\ Live \subseteq Stored
  BY DEF Stored, Live

\* Tokens of a family are of one user.
LEMMA FamilyOfOne ==
  ASSUME Belongs, NEW t \in Stored, NEW x \in FamilyOf(t)
  PROVE  x \in Stored /\ token[x].owner = token[t].owner
  BY DEF Belongs, FamilyOf

\* What the requests of A do leaves the invariants of the others: their locks
\* and the tokens under their locks stay, and a token is inserted only while
\* nobody has its user.
LEMMA OthersKept ==
  ASSUME TypeInv, FamilyInv, Belongs', NEW A \in SUBSET Requests,
         \A s \in Requests \ A :
           /\ req'[s] = req[s]
           /\ \A t \in Tokens : tokenLock[t] = s => tokenLock'[t] = s
           /\ \A u \in Users : userLock[u] = s => userLock'[u] = s
           /\ \A t \in Live : tokenLock[t] = s => t \in Live',
         \A t \in Stored : t \in Stored' /\ token'[t].owner = token[t].owner
                                         /\ token'[t].family = token[t].family,
         \A t \in Live' : t \in Live \/ (t \notin Stored /\ userLock[token'[t].owner] = NoRequest),
         \A r \in A : Works(r)' /\ Sweeps(r)'
  PROVE  RequestsInv'
  <1>1. ASSUME NEW s \in Requests \ A PROVE Works(s)'
    BY <1>1, StoredInTokens DEF FamilyInv, RequestsInv, Works
  <1>2. ASSUME NEW s \in Requests \ A PROVE Sweeps(s)'
    <2> SUFFICES ASSUME req[s].pc = "sweep", req[s].op \in {"patch", "change", "rotate"}
                 PROVE  /\ userLock'[req[s].user] = s
                        /\ \A t \in Swept(s)' \cap Live' : t \in req[s].todo \/ tokenLock'[t] = s
      BY <1>2 DEF Sweeps
    <2>1. /\ userLock[req[s].user] = s /\ req[s].user \in Users
          /\ \A t \in Swept(s) \cap Live : t \in req[s].todo \/ tokenLock[t] = s
          /\ req[s].op = "rotate" => req[s].tok \in Stored /\ token[req[s].tok].owner = req[s].user
      BY <1>2 DEF FamilyInv, RequestsInv, Works, Sweeps
    <2>2. \A t \in Swept(s)' : t \in Stored' /\ token'[t].owner = req[s].user
      <3>1. CASE req[s].op = "rotate"
        <4>1. req[s].tok \in Stored' /\ token'[req[s].tok].owner = req[s].user
          BY <2>1, <3>1
        <4>2. \A t \in Stored' : token'[t].family = token'[req[s].tok].family
                                 => token'[t].owner = token'[req[s].tok].owner
          BY <4>1 DEF Belongs
        <4> QED BY <1>2, <3>1, <4>1, <4>2 DEF Swept, FamilyOf
      <3>2. CASE req[s].op # "rotate"
        BY <1>2, <3>2 DEF Swept, OwnedBy
      <3> QED BY <3>1, <3>2
    <2>3. \A t \in Swept(s)' \cap Live' : t \in Live
      BY <2>1, <2>2, NobodyAssumption
    <2>4. \A t \in Swept(s)' \cap Live : t \in Swept(s)
      BY <1>2, <2>1, StoredInTokens DEF Swept, FamilyOf, OwnedBy
    <2> QED BY <1>2, <2>1, <2>3, <2>4, StoredInTokens
  <1> QED BY <1>1, <1>2 DEF RequestsInv

----------------------------------------------------------------------------
(* What the three ways to change tokens do to the families *)

\* Revoking any tokens leaves the families as they are, with fewer live tokens.
LEMMA Revoking ==
  ASSUME TypeInv, TokensInv, NEW R \in SUBSET Tokens, used' = used, entra' = entra,
         token' = [t \in Tokens |-> IF t \in R /\ token[t].state = "live"
                                    THEN [token[t] EXCEPT !.state = "revoked"] ELSE token[t]]
  PROVE  /\ TokensInv'
         /\ Stored' = Stored /\ Live' = Live \ R
         /\ \A t \in Tokens : token'[t].owner = token[t].owner /\ token'[t].family = token[t].family
  <1>1. token \in [Tokens -> TokenRecord]
    BY DEF TypeInv, TypeOK
  <1>2. \A t \in Tokens :
          /\ token'[t].owner = token[t].owner /\ token'[t].family = token[t].family
          /\ token'[t].next = token[t].next /\ token'[t].started = token[t].started
          /\ token'[t].expires = token[t].expires
          /\ token'[t].state = IF t \in R /\ token[t].state = "live" THEN "revoked" ELSE token[t].state
    BY <1>1 DEF TokenRecord
  <1>3. Stored' = Stored /\ Live' = Live \ R
    BY <1>2 DEF Stored, Live
  <1> USE StoredInTokens DEF TokensInv
  <1>4. IdsInOrder'
    BY <1>3 DEF IdsInOrder
  <1>5. Belongs'
    BY <1>2, <1>3 DEF Belongs
  <1>6. Linked'
    BY <1>2, <1>3 DEF Linked
  <1>7. OneLivePerFamily'
    BY <1>2, <1>3 DEF OneLivePerFamily
  <1>8. FamilyCapped'
    BY <1>2, <1>3 DEF FamilyCapped, FamilyCap, Belongs
  <1> QED BY <1>2, <1>3, <1>4, <1>5, <1>6, <1>7, <1>8

\* A login opens a family of its own.
LEMMA Opening ==
  ASSUME TypeInv, TokensInv, used + 1 \in Tokens, NEW u \in Users, NEW now \in Nat,
         token' = [token EXCEPT ![used + 1] = FirstToken(u, now)],
         used' = used + 1, entra' = entra
  PROVE  /\ TokensInv'
         /\ used + 1 \notin Stored /\ Stored' = Stored \cup {used + 1} /\ Live' = Live \cup {used + 1}
         /\ token'[used + 1] = FirstToken(u, now)
         /\ \A t \in Stored : token'[t] = token[t]
  <1> DEFINE n == used + 1
  <1>1. token \in [Tokens -> TokenRecord] /\ used \in Nat /\ Tokens \subseteq Nat
    BY TokensAssumption DEF TypeInv, TypeOK, Tokens
  <1>2. n \notin Stored
    BY <1>1 DEF TokensInv, IdsInOrder
  <1>3. \A t \in Tokens : token'[t] = IF t = n THEN FirstToken(u, now) ELSE token[t]
    BY <1>1
  <1>4. /\ FirstToken(u, now).owner = u /\ FirstToken(u, now).family = n
        /\ FirstToken(u, now).state = "live" /\ FirstToken(u, now).next = 0
        /\ FirstToken(u, now).started = now
        /\ FirstToken(u, now).expires = Expiry(u, now, now)
    BY DEF FirstToken
  <1>5. Stored' = Stored \cup {n} /\ Live' = Live \cup {n}
    BY <1>3, <1>4 DEF Stored, Live
  <1> USE StoredInTokens DEF TokensInv
  <1> HIDE DEF n
  <1>6. IdsInOrder'
    BY <1>1, <1>5 DEF IdsInOrder, n
  <1>7. \A t \in Stored : t # n /\ token[t].family # n /\ token[t].next # n
    BY <1>1, <1>2 DEF Belongs, Linked, n
  <1>8. /\ \A t \in Stored : token'[t] = token[t]
        /\ token'[n].owner = u /\ token'[n].family = n /\ token'[n].state = "live"
        /\ token'[n].next = 0 /\ token'[n].started = now /\ token'[n].expires = Expiry(u, now, now)
    BY <1>3, <1>4, <1>7 DEF n
  <1>9. Belongs'
    BY <1>1, <1>5, <1>7, <1>8 DEF Belongs, n
  <1>10. Linked'
    <2>1. ASSUME NEW t \in Stored', token'[t].next # 0
          PROVE  /\ token'[t].next \in Stored' /\ t < token'[t].next /\ token'[t].state = "revoked"
                 /\ token'[token'[t].next].family = token'[t].family
                 /\ token'[t].next # token'[t].family
      <3>1. t \in Stored
        BY <1>5, <1>8, <2>1
      <3> QED BY <1>5, <1>8, <2>1, <3>1 DEF Linked
    <2>2. ASSUME NEW t \in Stored', NEW x \in Stored', token'[t].next = token'[x].next, token'[t].next # 0
          PROVE  t = x
      <3>1. t \in Stored /\ x \in Stored
        BY <1>5, <1>8, <2>2
      <3> QED BY <1>8, <2>2, <3>1 DEF Linked
    <2>3. ASSUME NEW t \in Stored', token'[t].family # t
          PROVE  \E x \in Stored' : token'[x].next = t
      <3>1. t \in Stored
        BY <1>5, <1>8, <2>3
      <3>2. PICK x \in Stored : token[x].next = t
        BY <1>8, <2>3, <3>1 DEF Linked
      <3> QED BY <1>5, <1>8, <3>2
    <2> QED BY <2>1, <2>2, <2>3 DEF Linked
  <1>11. OneLivePerFamily'
    <2> SUFFICES ASSUME NEW t \in Live', NEW x \in Live', token'[t].family = token'[x].family
                 PROVE  t = x
      BY DEF OneLivePerFamily
    <2> QED BY <1>5, <1>7, <1>8 DEF OneLivePerFamily
  <1>12. FamilyCapped'
    <2>1. Expiry(u, now, now) <= FamilyCap(u, now)
      BY TimesAssumption DEF Expiry, Earlier, FamilyCap
    <2> SUFFICES ASSUME NEW t \in Stored'
                 PROVE  /\ token'[t].expires <= FamilyCap(token'[t].owner, token'[t].started)
                        /\ token'[t].started = token'[token'[t].family].started
      BY DEF FamilyCapped, FamilyCap
    <2>2. CASE t = n
      BY <1>8, <2>1, <2>2 DEF FamilyCap
    <2>3. CASE t \in Stored
      BY <1>8, <2>3 DEF FamilyCapped, FamilyCap, Belongs
    <2> QED BY <1>5, <2>2, <2>3
  <1> QED BY <1>2, <1>3, <1>5, <1>6, <1>8, <1>9, <1>10, <1>11, <1>12 DEF n

\* A rotation puts a live token in the place of the one that was live.
LEMMA Replacing ==
  ASSUME TypeInv, TokensInv, used + 1 \in Tokens, NEW k \in Live, NEW now \in Nat,
         Replace(k, token[k].owner, now), entra' = entra
  PROVE  /\ TokensInv'
         /\ used + 1 \notin Stored /\ Stored' = Stored \cup {used + 1}
         /\ Live' = (Live \ {k}) \cup {used + 1}
         /\ token'[used + 1].owner = token[k].owner /\ token'[used + 1].family = token[k].family
         /\ \A t \in Stored : token'[t].owner = token[t].owner /\ token'[t].family = token[t].family
  <1> DEFINE n == used + 1
             u == token[k].owner
  <1>1. token \in [Tokens -> TokenRecord] /\ used \in Nat /\ Tokens \subseteq Nat
    BY TokensAssumption DEF TypeInv, TypeOK, Tokens
  <1>2. n \notin Stored /\ k # n /\ k \in Stored /\ k \in Tokens
    BY <1>1, StoredInTokens DEF TokensInv, IdsInOrder
  <1>3. \A t \in Tokens :
          token'[t] = IF t = n THEN [token[k] EXCEPT !.state = "live", !.expires = Expiry(u, token[k].started, now),
                                                     !.replacedAt = 0, !.next = 0]
                      ELSE IF t = k THEN [token[k] EXCEPT !.state = "revoked", !.replacedAt = now, !.next = n]
                      ELSE token[t]
    BY <1>1, <1>2 DEF Replace
  <1>4. /\ token'[n].owner = u /\ token'[n].family = token[k].family
        /\ token'[n].state = "live" /\ token'[n].next = 0
        /\ token'[n].started = token[k].started
        /\ token'[n].expires = Expiry(u, token[k].started, now)
    BY <1>1, <1>2, <1>3 DEF TokenRecord
  <1>5. /\ token'[k].owner = u /\ token'[k].family = token[k].family
        /\ token'[k].state = "revoked" /\ token'[k].next = n
        /\ token'[k].started = token[k].started /\ token'[k].expires = token[k].expires
    BY <1>1, <1>2, <1>3 DEF TokenRecord
  <1>6. \A t \in Tokens \ {n, k} : token'[t] = token[t]
    BY <1>3
  <1>7. Stored' = Stored \cup {n} /\ Live' = (Live \ {k}) \cup {n}
    BY <1>2, <1>4, <1>5, <1>6 DEF Stored, Live
  <1> USE StoredInTokens DEF TokensInv
  <1> HIDE DEF n, u
  <1>8. IdsInOrder'
    BY <1>1, <1>7 DEF IdsInOrder, n, Replace
  <1>9. \A t \in Stored : t # n /\ t < n /\ token[t].family # n /\ token[t].next # n
    BY <1>1, <1>2 DEF Belongs, Linked, IdsInOrder, n
  <1>10. token[k].next = 0
    BY <1>2 DEF Linked, Live
  <1>11. /\ \A t \in Stored : /\ token'[t].owner = token[t].owner /\ token'[t].family = token[t].family
                              /\ token'[t].started = token[t].started
                              /\ token'[t].expires = token[t].expires
                              /\ t # k => token'[t] = token[t]
    BY <1>5, <1>6, <1>9 DEF u
  <1>12. Belongs'
    <2> SUFFICES ASSUME NEW t \in Stored'
                 PROVE  /\ token'[t].owner \in Users
                        /\ token'[t].family \in Stored' /\ token'[t].family <= t
                        /\ token'[token'[t].family].family = token'[t].family
                        /\ token'[token'[t].family].owner = token'[t].owner
      BY DEF Belongs
    <2>1. CASE t \in Stored
      BY <1>7, <1>11, <2>1 DEF Belongs
    <2>2. CASE t = n
      <3>1. /\ token[k].owner \in Users /\ token[k].family \in Stored /\ token[k].family <= k /\ k < n
            /\ token[token[k].family].family = token[k].family
            /\ token[token[k].family].owner = token[k].owner
        BY <1>2, <1>9 DEF Belongs
      <3>2. token[k].family <= n
        <4>1. token[k].family \in Nat /\ k \in Nat /\ n \in Nat
          BY <1>1, <1>2, <3>1 DEF n
        <4> QED BY <3>1, <4>1
      <3> QED BY <1>4, <1>7, <1>11, <2>2, <3>1, <3>2 DEF u
    <2> QED BY <1>7, <2>1, <2>2
  <1>13. Linked'
    <2>1. ASSUME NEW t \in Stored', token'[t].next # 0
          PROVE  /\ token'[t].next \in Stored' /\ t < token'[t].next /\ token'[t].state = "revoked"
                 /\ token'[token'[t].next].family = token'[t].family
                 /\ token'[t].next # token'[t].family
      <3>1. CASE t = k
        BY <1>2, <1>4, <1>5, <1>7, <1>9, <3>1
      <3>2. CASE t \in Stored \ {k}
        BY <1>7, <1>11, <2>1, <3>2 DEF Linked
      <3> QED BY <1>4, <1>7, <2>1, <3>1, <3>2
    <2>2. ASSUME NEW t \in Stored', NEW x \in Stored', token'[t].next = token'[x].next, token'[t].next # 0
          PROVE  t = x
      <3>1. t \in Stored /\ x \in Stored
        BY <1>4, <1>7, <2>2
      <3> QED BY <1>5, <1>9, <1>11, <2>2, <3>1 DEF Linked
    <2>3. ASSUME NEW t \in Stored', token'[t].family # t
          PROVE  \E x \in Stored' : token'[x].next = t
      <3>1. CASE t = n
        BY <1>2, <1>5, <1>7, <3>1
      <3>2. CASE t \in Stored
        <4>1. PICK x \in Stored : token[x].next = t
          BY <1>11, <2>3, <3>2 DEF Linked
        <4>2. x # k
          BY <1>1, <1>10, <3>2, <4>1 DEF Tokens
        <4> QED BY <1>7, <1>11, <4>1, <4>2
      <3> QED BY <1>7, <3>1, <3>2
    <2> QED BY <2>1, <2>2, <2>3 DEF Linked
  <1>14. OneLivePerFamily'
    <2> SUFFICES ASSUME NEW t \in Live', NEW x \in Live', token'[t].family = token'[x].family
                 PROVE  t = x
      BY DEF OneLivePerFamily
    <2> QED BY <1>4, <1>7, <1>11 DEF OneLivePerFamily
  <1>15. FamilyCapped'
    <2>1. token[k].started \in Nat
      BY <1>1, <1>2 DEF TokenRecord
    <2>2. Expiry(u, token[k].started, now) <= FamilyCap(u, token[k].started)
      BY <2>1, TimesAssumption DEF Expiry, Earlier, FamilyCap
    <2> SUFFICES ASSUME NEW t \in Stored'
                 PROVE  /\ token'[t].expires <= FamilyCap(token'[t].owner, token'[t].started)
                        /\ token'[t].started = token'[token'[t].family].started
      BY DEF FamilyCapped, FamilyCap
    <2>3. CASE t \in Stored
      BY <1>11, <2>3 DEF FamilyCapped, FamilyCap, Belongs
    <2>4. CASE t = n
      <3>1. token[k].family \in Stored /\ token[k].started = token[token[k].family].started
        BY <1>2 DEF Belongs, FamilyCapped
      <3> QED BY <1>4, <1>11, <2>2, <2>4, <3>1 DEF FamilyCap
    <2> QED BY <1>7, <2>3, <2>4
  <1> QED BY <1>2, <1>4, <1>7, <1>8, <1>11, <1>12, <1>13, <1>14, <1>15 DEF n, u

----------------------------------------------------------------------------
(* The steps *)

LEMMA InitFamilies == Init => FamilyInv
  <1> SUFFICES ASSUME Init PROVE FamilyInv
    OBVIOUS
  <1>1. Stored = {} /\ Live = {}
    BY DEF Init, Stored, Live, NoToken
  <1>2. IdsInOrder
    BY <1>1, TokensAssumption DEF IdsInOrder, Init, Tokens
  <1>3. Belongs /\ Linked /\ OneLivePerFamily /\ FamilyCapped
    BY <1>1 DEF Belongs, Linked, OneLivePerFamily, FamilyCapped
  <1>4. RequestsInv
    BY DEF Init, RequestsInv, Works, Sweeps, NoReq
  <1> QED BY <1>2, <1>3, <1>4 DEF FamilyInv, TokensInv

\* The end of a request frees its locks only, and it has nothing more to do.
LEMMA Released ==
  ASSUME TypeInv, NEW r \in Requests, Release(r), req' = [req EXCEPT ![r] = NoReq]
  PROVE  /\ \A s \in Requests \ {r} :
              /\ req'[s] = req[s]
              /\ \A t \in Tokens : tokenLock[t] = s => tokenLock'[t] = s
              /\ \A u \in Users : userLock[u] = s => userLock'[u] = s
         /\ Works(r)' /\ Sweeps(r)'
  BY DEF Release, TypeInv, TypeOK, Works, Sweeps, NoReq

\* Steps that leave the tokens alone.
LEMMA TokensAlone ==
  ASSUME FamilyInv, UNCHANGED <<token, used, entra>>
  PROVE  /\ TokensInv' /\ Belongs' /\ Stored' = Stored /\ Live' = Live
         /\ \A t \in Stored : token'[t].owner = token[t].owner /\ token'[t].family = token[t].family
  <1>1. Stored' = Stored /\ Live' = Live
    BY DEF Stored, Live
  <1>2. TokensInv'
    BY <1>1 DEF FamilyInv, TokensInv, IdsInOrder, Belongs, Linked, OneLivePerFamily, FamilyCapped, FamilyCap
  <1> QED BY <1>1, <1>2 DEF TokensInv

LEMMA RequestAlone ==
  ASSUME TypeInv, FamilyInv, NEW r \in Requests, UNCHANGED <<token, used, entra>>,
         \A s \in Requests \ {r} :
           /\ req'[s] = req[s]
           /\ \A t \in Tokens : tokenLock[t] = s => tokenLock'[t] = s
           /\ \A u \in Users : userLock[u] = s => userLock'[u] = s,
         Works(r)', Sweeps(r)'
  PROVE  FamilyInv'
  <1>1. {r} \in SUBSET Requests
    OBVIOUS
  <1>2. RequestsInv'
    BY <1>1, TokensAlone, OthersKept
  <1> QED BY <1>2, TokensAlone DEF FamilyInv

LEMMA NextFamilies == TypeInv /\ FamilyInv /\ [Next]_vars => FamilyInv'
  <1> SUFFICES ASSUME TypeInv, FamilyInv, [Next]_vars PROVE FamilyInv'
    OBVIOUS
  <1> USE DEF locks
  <1>0. /\ token \in [Tokens -> TokenRecord] /\ req \in [Requests -> RequestRecord]
        /\ tokenLock \in [Tokens -> Requests \cup {NoRequest}]
        /\ userLock \in [Users -> Requests \cup {NoRequest}]
        /\ \A r \in Requests : req[r] \in RequestRecord /\ Works(r) /\ Sweeps(r)
    BY DEF TypeInv, TypeOK, FamilyInv, RequestsInv
  <1>1. ASSUME NEW r \in Requests, NEW u \in Users,
               LoginVerifies(r, u) \/ ChangePasswordStarts(r, u) \/ CliStarts(r, u)
               \/ \E role \in BOOLEAN, act \in {"keep", "on", "off"} : PatchStarts(r, u, role, act)
        PROVE  FamilyInv'
    <2>1. PICK q : /\ req' = [req EXCEPT ![r] = q] /\ q.user = u
                   /\ q.pc = "verified" \/ (q.pc = "update" /\ q.op \in {"patch", "change", "cli"})
                   /\ q.op \notin {"rotate", "logout"}
      <3>1. CASE LoginVerifies(r, u)
        <4> DEFINE q == [NoReq EXCEPT !.op = "login", !.pc = "verified", !.user = u]
        <4>1. q.user = u /\ q.pc = "verified" /\ q.op = "login"
          BY DEF NoReq
        <4>2. req' = [req EXCEPT ![r] = q]
          BY <3>1 DEF LoginVerifies
        <4> HIDE DEF q
        <4> QED BY <4>1, <4>2
      <3>2. CASE ChangePasswordStarts(r, u)
        <4> DEFINE q == [NoReq EXCEPT !.op = "change", !.pc = "update", !.user = u, !.revokes = TRUE]
        <4>1. q.user = u /\ q.pc = "update" /\ q.op = "change"
          BY DEF NoReq
        <4>2. req' = [req EXCEPT ![r] = q]
          BY <3>2 DEF ChangePasswordStarts
        <4> HIDE DEF q
        <4> QED BY <4>1, <4>2
      <3>3. CASE CliStarts(r, u)
        <4> DEFINE q == [NoReq EXCEPT !.op = "cli", !.pc = "update", !.user = u, !.revokes = TRUE]
        <4>1. q.user = u /\ q.pc = "update" /\ q.op = "cli"
          BY DEF NoReq
        <4>2. req' = [req EXCEPT ![r] = q]
          BY <3>3 DEF CliStarts
        <4> HIDE DEF q
        <4> QED BY <4>1, <4>2
      <3>4. ASSUME NEW role \in BOOLEAN, NEW act \in {"keep", "on", "off"}, PatchStarts(r, u, role, act)
            PROVE  \E q : req' = [req EXCEPT ![r] = q] /\ q.user = u /\ q.pc = "update" /\ q.op = "patch"
        <4> DEFINE q == [NoReq EXCEPT !.op = "patch", !.pc = "update", !.user = u,
                                      !.act = act, !.revokes = role \/ act = "off"]
        <4>1. q.user = u /\ q.pc = "update" /\ q.op = "patch"
          BY DEF NoReq
        <4>2. req' = [req EXCEPT ![r] = q]
          BY <3>4 DEF PatchStarts
        <4> HIDE DEF q
        <4> QED BY <4>1, <4>2
      <3> QED BY <1>1, <3>1, <3>2, <3>3, <3>4
    <2>2. UNCHANGED <<token, used, entra, tokenLock, userLock>>
      BY <1>1 DEF LoginVerifies, ChangePasswordStarts, CliStarts, PatchStarts
    <2>3. req'[r] = q
      BY <1>0, <2>1
    <2>4. Works(r)' /\ Sweeps(r)'
      BY <2>1, <2>3 DEF Works, Sweeps
    <2> QED BY <1>0, <2>1, <2>2, <2>4, RequestAlone
  <1>2. ASSUME NEW r \in Requests, NEW t \in Tokens, RefreshStarts(r, t) \/ LogoutStarts(r, t)
        PROVE  FamilyInv'
    <2>1. PICK q : /\ req' = [req EXCEPT ![r] = q] /\ q.user = token[t].owner /\ q.tok = t
                   /\ (q.pc = "token" /\ q.op = "rotate") \/ (q.pc = "sweep" /\ q.op = "logout")
      <3>1. CASE RefreshStarts(r, t)
        <4> DEFINE q == [NoReq EXCEPT !.op = "rotate", !.pc = "token", !.tok = t,
                                      !.user = token[t].owner, !.now = clock]
        <4>1. q.user = token[t].owner /\ q.tok = t /\ q.pc = "token" /\ q.op = "rotate"
          BY DEF NoReq
        <4>2. req' = [req EXCEPT ![r] = q]
          BY <3>1 DEF RefreshStarts
        <4> HIDE DEF q
        <4> QED BY <4>1, <4>2
      <3>2. CASE LogoutStarts(r, t)
        <4> DEFINE q == [NoReq EXCEPT !.op = "logout", !.pc = "sweep", !.tok = t,
                                      !.user = token[t].owner, !.todo = FamilyOf(t)]
        <4>1. q.user = token[t].owner /\ q.tok = t /\ q.pc = "sweep" /\ q.op = "logout"
          BY DEF NoReq
        <4>2. req' = [req EXCEPT ![r] = q]
          BY <3>2 DEF LogoutStarts
        <4> HIDE DEF q
        <4> QED BY <4>1, <4>2
      <3> QED BY <1>2, <3>1, <3>2
    <2>2. t \in Stored /\ UNCHANGED <<token, used, entra, tokenLock, userLock>>
      BY <1>2 DEF RefreshStarts, LogoutStarts
    <2>3. req'[r] = q /\ token[t].owner \in Users /\ t \in Stored'
      BY <1>0, <2>1, <2>2, TokensAlone DEF FamilyInv, TokensInv, Belongs
    <2>4. Works(r)' /\ Sweeps(r)'
      BY <2>1, <2>2, <2>3 DEF Works, Sweeps
    <2> QED BY <1>0, <2>1, <2>2, <2>4, RequestAlone
  <1>13. ASSUME NEW r \in Requests, LoginRecorded(r) \/ InsertSession(r) PROVE FamilyInv'
    <2>1. /\ req[r].pc \in {"verified", "insert"} /\ req'[r].pc \in {"insert", "inserted"}
          /\ req'[r].user = req[r].user /\ req'[r].tok = req[r].tok /\ req'[r].op = req[r].op
          /\ \A s \in Requests \ {r} : req'[s] = req[s]
      BY <1>0, <1>13 DEF LoginRecorded, InsertSession, RequestRecord
    <2>2. UNCHANGED <<token, used, entra, tokenLock, userLock>>
      BY <1>13 DEF LoginRecorded, InsertSession
    <2>3. Works(r)' /\ Sweeps(r)'
      BY <1>0, <2>1, <2>2, TokensAlone DEF Works, Sweeps
    <2> QED BY <2>1, <2>2, <2>3, RequestAlone
  <1>3. ASSUME NEW r \in Requests, IssueSession(r) PROVE FamilyInv'
    <2> DEFINE u == req[r].user
    <2>1. /\ req[r].pc = "inserted" /\ userLock[u] = NoRequest /\ used' = used + 1
          /\ req' = [req EXCEPT ![r] = NoReq] /\ Release(r) /\ entra' = entra
      BY <1>3 DEF IssueSession, UserFree, Ends
    <2>2. u \in Users /\ used + 1 \in Tokens
      <3>1. Inserts(req[r])
        BY <2>1 DEF Inserts
      <3> QED BY <1>0, <2>1, <3>1, IdForInsert DEF Works
    <2>3. PICK now \in Nat : token' = [token EXCEPT ![used + 1] = FirstToken(u, now)]
      <3>1. req[r].now \in Nat
        BY <1>0, TokensAssumption DEF TypeInv, TypeOK, RequestRecord
      <3> QED BY <1>3, <3>1 DEF IssueSession
    <2> HIDE DEF u
    <2>4. /\ TokensInv' /\ used + 1 \notin Stored
          /\ Stored' = Stored \cup {used + 1} /\ Live' = Live \cup {used + 1}
          /\ token'[used + 1] = FirstToken(u, now) /\ \A t \in Stored : token'[t] = token[t]
      BY <2>1, <2>2, <2>3, Opening DEF FamilyInv
    <2>5. token'[used + 1].owner = u
      BY <2>4 DEF FirstToken
    <2>6. /\ Works(r)' /\ Sweeps(r)'
          /\ \A s \in Requests \ {r} :
               /\ req'[s] = req[s]
               /\ \A t \in Tokens : tokenLock[t] = s => tokenLock'[t] = s
               /\ \A x \in Users : userLock[x] = s => userLock'[x] = s
               /\ \A t \in Live : tokenLock[t] = s => t \in Live'
      BY <2>1, <2>4, Released
    <2>7. /\ \A t \in Stored : t \in Stored' /\ token'[t].owner = token[t].owner
                                              /\ token'[t].family = token[t].family
          /\ \A t \in Live' : t \in Live \/ (t \notin Stored /\ userLock[token'[t].owner] = NoRequest)
      BY <2>1, <2>4, <2>5 DEF u
    <2>8. RequestsInv'
      <3>1. {r} \in SUBSET Requests /\ Belongs'
        BY <2>4 DEF TokensInv
      <3> QED BY <2>6, <2>7, <3>1, OthersKept
    <2> QED BY <2>4, <2>8 DEF FamilyInv
  <1>4. ASSUME NEW u \in Users, EntraLogin(u) PROVE FamilyInv'
    <2>1. /\ userLock[u] = NoRequest /\ used' = used + 1
          /\ token' = [token EXCEPT ![used + 1] = FirstToken(u, clock)]
          /\ UNCHANGED <<entra, tokenLock, userLock, req>>
      BY <1>4 DEF EntraLogin, UserFree
    <2>2. used + 1 \in Tokens /\ clock \in Nat
      BY <1>4, IdForInsert, TokensAssumption DEF EntraLogin, TypeInv, TypeOK
    <2>3. /\ TokensInv' /\ used + 1 \notin Stored
          /\ Stored' = Stored \cup {used + 1} /\ Live' = Live \cup {used + 1}
          /\ token'[used + 1] = FirstToken(u, clock) /\ \A t \in Stored : token'[t] = token[t]
      BY <2>1, <2>2, Opening DEF FamilyInv
    <2>4. token'[used + 1].owner = u
      BY <2>3 DEF FirstToken
    <2>5. /\ \A t \in Stored : t \in Stored' /\ token'[t].owner = token[t].owner
                                              /\ token'[t].family = token[t].family
          /\ \A t \in Live' : t \in Live \/ (t \notin Stored /\ userLock[token'[t].owner] = NoRequest)
      BY <2>1, <2>3, <2>4
    <2>6. RequestsInv'
      <3>1. {} \in SUBSET Requests /\ Belongs' /\ \A t \in Live : t \in Live'
        BY <2>3 DEF TokensInv
      <3> QED BY <2>1, <2>5, <3>1, OthersKept
    <2> QED BY <2>3, <2>6 DEF FamilyInv
  <1>5. ASSUME NEW r \in Requests, RotateLocksToken(r) PROVE FamilyInv'
    <2> DEFINE t == req[r].tok
    <2>1. /\ req[r].pc = "token" /\ tokenLock[t] = NoRequest
          /\ tokenLock' = [tokenLock EXCEPT ![t] = r]
          /\ req' = [req EXCEPT ![r].pc = "account", ![r].live = t \in Live]
          /\ UNCHANGED <<token, used, entra, userLock>>
      BY <1>5 DEF RotateLocksToken, TokenFree
    <2>2. /\ req'[r].pc = "account" /\ req'[r].op = req[r].op /\ req'[r].user = req[r].user
          /\ req'[r].tok = t /\ (req'[r].live => t \in Live)
      BY <1>0, <2>1 DEF RequestRecord
    <2>3. /\ req[r].op = "rotate" /\ t \in Stored /\ t \in Tokens /\ token[t].owner = req[r].user
          /\ req[r].user \in Users
      BY <1>0, <2>1, StoredInTokens DEF Works
    <2>4. Stored' = Stored /\ Live' = Live
      BY <2>1, TokensAlone
    <2>5. tokenLock'[t] = r
      BY <1>0, <2>1, <2>3
    <2>6. Works(r)' /\ Sweeps(r)'
      BY <2>1, <2>2, <2>3, <2>4, <2>5 DEF Works, Sweeps
    <2>7. \A s \in Requests \ {r} : req'[s] = req[s] /\ \A x \in Tokens : tokenLock[x] = s => tokenLock'[x] = s
      BY <1>0, <2>1, NobodyAssumption
    <2> QED BY <2>1, <2>6, <2>7, RequestAlone
  <1>6. ASSUME NEW r \in Requests, Rotate(r) PROVE FamilyInv'
    <2> DEFINE k == req[r].tok
               n == used + 1
    <2>1. /\ req[r].pc = "account" /\ userLock[req[r].user] = NoRequest /\ req[r].live
          /\ Replace(k, req[r].user, req[r].now)
          /\ req' = [req EXCEPT ![r] = NoReq] /\ Release(r) /\ entra' = entra
      BY <1>6 DEF Rotate, AccountFree, UserFree, Ends
    <2>2. /\ k \in Live /\ tokenLock[k] = r /\ req[r].user = token[k].owner /\ n \in Tokens
          /\ req[r].now \in Nat
      <3>1. Inserts(req[r])
        BY <2>1 DEF Inserts
      <3>2. req[r].now \in Nat
        BY <1>0, TokensAssumption DEF RequestRecord
      <3> QED BY <1>0, <2>1, <3>1, <3>2, IdForInsert DEF Works
    <2>3. Replace(k, token[k].owner, req[r].now)
      BY <2>1, <2>2
    <2>4. /\ TokensInv' /\ n \notin Stored /\ Stored' = Stored \cup {n} /\ Live' = (Live \ {k}) \cup {n}
          /\ token'[n].owner = token[k].owner
          /\ \A t \in Stored : token'[t].owner = token[t].owner /\ token'[t].family = token[t].family
      BY <2>1, <2>2, <2>3, Replacing DEF FamilyInv
    <2> HIDE DEF k, n
    <2>5. /\ Works(r)' /\ Sweeps(r)'
          /\ \A s \in Requests \ {r} :
               /\ req'[s] = req[s]
               /\ \A t \in Tokens : tokenLock[t] = s => tokenLock'[t] = s
               /\ \A x \in Users : userLock[x] = s => userLock'[x] = s
               /\ \A t \in Live : tokenLock[t] = s => t \in Live'
      BY <2>1, <2>2, <2>4, Released
    <2>6. \A t \in Live' : t \in Live \/ (t \notin Stored /\ userLock[token'[t].owner] = NoRequest)
      BY <2>1, <2>2, <2>4
    <2>7. RequestsInv'
      <3>1. {r} \in SUBSET Requests /\ Belongs'
        BY <2>4 DEF TokensInv
      <3>2. \A t \in Stored : t \in Stored' /\ token'[t].owner = token[t].owner
                                            /\ token'[t].family = token[t].family
        BY <2>4
      <3> QED BY <2>5, <2>6, <3>1, <3>2, OthersKept
    <2> QED BY <2>4, <2>7 DEF FamilyInv
  <1>7. ASSUME NEW r \in Requests, AnswerInGrace(r) \/ RequestFails(r) \/ PatchCommits(r) PROVE FamilyInv'
    <2>1. /\ req' = [req EXCEPT ![r] = NoReq] /\ Release(r) /\ UNCHANGED <<token, used, entra>>
      BY <1>7 DEF AnswerInGrace, RequestFails, PatchCommits, Ends
    <2> QED BY <2>1, Released, RequestAlone
  <1>8. ASSUME NEW r \in Requests, RevokeFamily(r) PROVE FamilyInv'
    <2> DEFINE t == req[r].tok
               u == req[r].user
    <2>1. /\ req[r].pc = "account" /\ userLock[u] = NoRequest
          /\ userLock' = [userLock EXCEPT ![u] = r]
          /\ req' = [req EXCEPT ![r].pc = "sweep", ![r].todo = FamilyOf(t) \cap Live]
          /\ UNCHANGED <<token, used, entra, tokenLock>>
      BY <1>8 DEF RevokeFamily, AccountFree, UserFree
    <2>2. /\ req'[r].pc = "sweep" /\ req'[r].op = req[r].op /\ req'[r].user = u /\ req'[r].tok = t
          /\ req'[r].todo = FamilyOf(t) \cap Live
      BY <1>0, <2>1 DEF RequestRecord
    <2>3. req[r].op = "rotate" /\ t \in Stored /\ token[t].owner = u /\ u \in Users
      BY <1>0, <2>1 DEF Works
    <2>4. Stored' = Stored /\ Live' = Live /\ userLock'[u] = r
      BY <1>0, <2>1, <2>3, TokensAlone
    <2>5. Swept(r)' = FamilyOf(t)
      BY <2>1, <2>2, <2>3, <2>4 DEF Swept, FamilyOf
    <2>6. Works(r)' /\ Sweeps(r)'
      <3>1. Works(r)'
        BY <2>1, <2>2, <2>3, <2>4 DEF Works
      <3>2. Sweeps(r)'
        BY <2>2, <2>3, <2>4, <2>5 DEF Sweeps
      <3> QED BY <3>1, <3>2
    <2>7. \A s \in Requests \ {r} : req'[s] = req[s] /\ \A x \in Users : userLock[x] = s => userLock'[x] = s
      BY <1>0, <2>1, NobodyAssumption
    <2> QED BY <2>1, <2>6, <2>7, RequestAlone
  <1>9. ASSUME NEW r \in Requests, RevokeAll(r) PROVE FamilyInv'
    <2> DEFINE u == req[r].user
    <2>1. /\ req[r].pc = "update" /\ (KeepsUserLock(r) => userLock[u] = NoRequest)
          /\ userLock' = IF KeepsUserLock(r) THEN [userLock EXCEPT ![u] = r] ELSE userLock
          /\ req' = [req EXCEPT ![r].pc = "sweep", ![r].todo = OwnedBy(u)]
          /\ UNCHANGED <<token, used, entra, tokenLock>>
      BY <1>9 DEF RevokeAll, UserFree
    <2>2. /\ req'[r].pc = "sweep" /\ req'[r].op = req[r].op /\ req'[r].user = u
          /\ req'[r].tok = req[r].tok /\ req'[r].todo = OwnedBy(u)
      BY <1>0, <2>1 DEF RequestRecord
    <2>3. req[r].op \in {"patch", "change", "cli"} /\ u \in Users
      BY <1>0, <2>1 DEF Works
    <2>4. /\ Stored' = Stored /\ Live' = Live
          /\ req[r].op # "cli" => userLock'[u] = r
      BY <1>0, <2>1, <2>3, TokensAlone DEF KeepsUserLock
    <2>5. Swept(r)' = OwnedBy(u)
      BY <2>1, <2>2, <2>3, <2>4 DEF Swept, OwnedBy
    <2>6. Works(r)' /\ Sweeps(r)'
      <3>1. Works(r)'
        BY <2>2, <2>3 DEF Works
      <3>2. Sweeps(r)'
        BY <2>2, <2>3, <2>4, <2>5 DEF Sweeps
      <3> QED BY <3>1, <3>2
    <2>7. \A s \in Requests \ {r} : req'[s] = req[s] /\ \A x \in Users : userLock[x] = s => userLock'[x] = s
      BY <1>0, <2>1, NobodyAssumption
    <2> QED BY <2>1, <2>6, <2>7, RequestAlone
  <1>10. ASSUME NEW r \in Requests, NEW t \in Tokens, SweepRow(r, t) PROVE FamilyInv'
    <2>1. /\ req[r].pc = "sweep" /\ tokenLock[t] \in {NoRequest, r}
          /\ tokenLock' = [tokenLock EXCEPT ![t] = r]
          /\ req' = [req EXCEPT ![r].todo = @ \ {t}]
          /\ UNCHANGED <<token, used, entra, userLock>>
      BY <1>10 DEF SweepRow, TokenFree
    <2>2. /\ req'[r].pc = "sweep" /\ req'[r].op = req[r].op /\ req'[r].user = req[r].user
          /\ req'[r].tok = req[r].tok /\ req'[r].todo = req[r].todo \ {t}
      BY <1>0, <2>1 DEF RequestRecord
    <2>3. Stored' = Stored /\ Live' = Live
      BY <2>1, TokensAlone
    <2>4. Swept(r)' = Swept(r)
      BY <2>1, <2>2, <2>3 DEF Swept, OwnedBy, FamilyOf
    <2>5. Works(r)'
      BY <1>0, <2>1, <2>2, <2>3 DEF Works
    <2>6. \A x \in Tokens : tokenLock'[x] = IF x = t THEN r ELSE tokenLock[x]
      BY <1>0, <2>1
    <2>7. Sweeps(r)'
      BY <1>0, <2>1, <2>2, <2>3, <2>4, <2>6, StoredInTokens DEF Sweeps
    <2>8. \A s \in Requests \ {r} : req'[s] = req[s] /\ \A x \in Tokens : tokenLock[x] = s => tokenLock'[x] = s
      BY <1>0, <2>1, <2>6, NobodyAssumption
    <2> QED BY <2>1, <2>5, <2>7, <2>8, RequestAlone
  <1>11. ASSUME NEW r \in Requests, SweepCommits(r) PROVE FamilyInv'
    <2> DEFINE R == {t \in Tokens : tokenLock[t] = r}
    <2>1. /\ req[r].pc = "sweep" /\ Release(r) /\ used' = used /\ entra' = entra
          /\ req' = [req EXCEPT ![r] = IF req[r].op = "change"
                                       THEN [NoReq EXCEPT !.op = "login", !.pc = "insert",
                                                          !.user = req[r].user, !.now = clock]
                                       ELSE NoReq]
          /\ token' = [t \in Tokens |-> IF t \in R /\ token[t].state = "live"
                                        THEN [token[t] EXCEPT !.state = "revoked"] ELSE token[t]]
      BY <1>11 DEF SweepCommits, Revoked
    <2>2. /\ TokensInv' /\ Stored' = Stored /\ Live' = Live \ R
          /\ \A t \in Tokens : token'[t].owner = token[t].owner /\ token'[t].family = token[t].family
      BY <2>1, Revoking DEF FamilyInv
    <2>3. \A s \in Requests \ {r} :
            /\ req'[s] = req[s]
            /\ \A t \in Tokens : tokenLock[t] = s => tokenLock'[t] = s
            /\ \A u \in Users : userLock[u] = s => userLock'[u] = s
            /\ \A t \in Live : tokenLock[t] = s => t \in Live'
      BY <1>0, <2>1, <2>2 DEF Release
    <2>4. Works(r)' /\ Sweeps(r)'
      <3>1. req'[r] = NoReq \/ (req'[r].pc = "insert" /\ req'[r].op = "login" /\ req'[r].user = req[r].user)
        BY <1>0, <2>1 DEF NoReq
      <3>2. req[r].user \in Users
        BY <1>0, <2>1 DEF Works
      <3> QED BY <3>1, <3>2 DEF Works, Sweeps, NoReq
    <2>5. RequestsInv'
      <3>1. {r} \in SUBSET Requests /\ Belongs' /\ Stored \subseteq Tokens
        BY <2>2, StoredInTokens DEF TokensInv
      <3> HIDE DEF R
      <3> QED BY <2>2, <2>3, <2>4, <3>1, OthersKept
    <2> QED BY <2>2, <2>5 DEF FamilyInv
  <1>12. CASE Tick \/ UNCHANGED vars
    <2>1. UNCHANGED <<token, used, entra, tokenLock, userLock, req>>
      BY <1>12 DEF Tick, vars
    <2>2. RequestsInv'
      <3>1. {} \in SUBSET Requests
        OBVIOUS
      <3> QED BY <2>1, <3>1, TokensAlone, OthersKept
    <2> QED BY <2>1, <2>2, TokensAlone DEF FamilyInv
  <1> QED
    BY <1>1, <1>2, <1>3, <1>4, <1>5, <1>6, <1>7, <1>8, <1>9, <1>10, <1>11, <1>12, <1>13
       DEF Next, RequestStarts, RequestStep

LEMMA SpecFamilies == Spec => [](TypeInv /\ FamilyInv)
  <1>1. Init => TypeInv /\ FamilyInv
    BY InitType, InitFamilies
  <1>2. TypeInv /\ FamilyInv /\ [Next]_vars => (TypeInv /\ FamilyInv)'
    BY NextType, NextFamilies
  <1> QED BY <1>1, <1>2, PTL DEF Spec

----------------------------------------------------------------------------
(* Results *)

LEMMA LinkedIsChain ==
  ASSUME TypeInv, TokensInv
  PROVE  FamilyIsChain
  <1> SUFFICES ASSUME NEW t \in Stored
               PROVE  LET replaced == {x \in FamilyOf(t) : token[x].next = t} IN
                      /\ Cardinality(replaced) = IF token[t].family = t THEN 0 ELSE 1
                      /\ \A x \in replaced : x < t /\ token[x].state = "revoked"
    BY DEF FamilyIsChain
  <1> DEFINE replaced == {x \in FamilyOf(t) : token[x].next = t}
  <1> USE DEF TokensInv
  <1>0. t # 0
    BY StoredInTokens DEF Tokens
  <1>1. \A x \in replaced : x < t /\ token[x].state = "revoked" /\ t # token[t].family
    BY <1>0 DEF FamilyOf, Linked
  <1>2. CASE token[t].family = t
    <2>1. replaced = {}
      BY <1>1, <1>2
    <2> QED BY <1>1, <1>2, <2>1, FS_EmptySet
  <1>3. CASE token[t].family # t
    <2>1. PICK x \in Stored : token[x].next = t
      BY <1>3 DEF Linked
    <2>2. token[x].family = token[t].family
      BY <1>0, <2>1 DEF Linked
    <2>3. \A y \in replaced : y = x
      BY <1>0, <2>1 DEF FamilyOf, Linked
    <2>4. replaced = {x}
      BY <2>1, <2>2, <2>3 DEF FamilyOf
    <2>5. Cardinality(replaced) = 1
      BY <2>4, FS_Singleton
    <2> QED BY <1>1, <1>3, <2>5
  <1> QED BY <1>2, <1>3

\* However many refreshes, logins, revocations and replays of old cookies race,
\* a family is one chain of tokens with at most one that is live, within the cap
\* of its first login.
THEOREM FamiliesAreSound == Spec => []FamilySound
  <1>1. TypeInv /\ FamilyInv => FamilySound
    BY LinkedIsChain DEF FamilySound, FamilyInv, TokensInv
  <1> QED BY <1>1, SpecFamilies, PTL

\* A sweep under the lock of the user leaves nothing live of what it is to revoke.
LEMMA SweepEnds ==
  ASSUME TypeInv, FamilyInv, NEW r \in Requests, SweepCommits(r),
         req[r].op \in {"patch", "change", "rotate"}, NEW t \in Swept(r)
  PROVE  token'[t].state # "live"
  <1>1. t \in Tokens /\ token[t] \in TokenRecord
    BY DEF Swept, FamilyOf, OwnedBy, Stored, TypeInv, TypeOK
  <1>2. t \in Live => tokenLock[t] = r
    BY DEF FamilyInv, RequestsInv, Sweeps, SweepCommits
  <1>3. token'[t] = IF tokenLock[t] = r /\ token[t].state = "live"
                    THEN [token[t] EXCEPT !.state = "revoked"] ELSE token[t]
    BY <1>1 DEF SweepCommits, Revoked
  <1> QED BY <1>1, <1>2, <1>3 DEF TokenRecord, Live

\* Only a patch changes is_active, and one that turns it off revokes.
TurnsOff ==
  \A r \in Requests : req[r].act # "keep" =>
    req[r].op = "patch" /\ (req[r].act = "off" => req[r].revokes)
InactiveInv == InactiveNotRefreshed /\ TurnsOff

LEMMA InitInactive == Init => InactiveInv
  BY DEF Init, InactiveInv, InactiveNotRefreshed, TurnsOff, Live, NoToken, NoReq

\* A request that keeps its operation and what it patches, or ends or starts.
LEMMA TurnsOffKept ==
  ASSUME TypeInv, TurnsOff, [Next]_vars
  PROVE  TurnsOff'
  <1>0. /\ req \in [Requests -> RequestRecord]
        /\ \A r \in Requests : req[r] \in RequestRecord
    BY DEF TypeInv, TypeOK
  <1>1. ASSUME NEW r \in Requests,
               \A s \in Requests \ {r} : req'[s] = req[s],
               \/ req'[r].act = "keep"
               \/ req'[r].op = "patch" /\ (req'[r].act = "off" => req'[r].revokes)
               \/ req'[r].op = req[r].op /\ req'[r].act = req[r].act /\ req'[r].revokes = req[r].revokes
        PROVE  TurnsOff'
    BY <1>1 DEF TurnsOff
  <1>2. ASSUME NEW r \in Requests, RequestStarts(r) PROVE TurnsOff'
    <2>1. \A s \in Requests \ {r} : req'[s] = req[s]
      BY <1>0, <1>2 DEF RequestStarts, LoginVerifies, ChangePasswordStarts, CliStarts, PatchStarts,
                       RefreshStarts, LogoutStarts
    <2>2. ASSUME NEW u \in Users, LoginVerifies(r, u) \/ ChangePasswordStarts(r, u) \/ CliStarts(r, u)
          PROVE  req'[r].act = "keep"
      BY <1>0, <2>2 DEF LoginVerifies, ChangePasswordStarts, CliStarts, NoReq
    <2>3. ASSUME NEW u \in Users, NEW role \in BOOLEAN, NEW act \in {"keep", "on", "off"},
                 PatchStarts(r, u, role, act)
          PROVE  req'[r].op = "patch" /\ (req'[r].act = "off" => req'[r].revokes)
      BY <1>0, <2>3 DEF PatchStarts, NoReq
    <2>4. ASSUME NEW t \in Tokens, RefreshStarts(r, t) \/ LogoutStarts(r, t) PROVE req'[r].act = "keep"
      BY <1>0, <2>4 DEF RefreshStarts, LogoutStarts, NoReq
    <2> QED BY <1>1, <1>2, <2>1, <2>2, <2>3, <2>4 DEF RequestStarts
  <1>3. ASSUME NEW r \in Requests, RequestStep(r) \/ RequestFails(r) PROVE TurnsOff'
    <2>1. NoReq.act = "keep"
      BY DEF NoReq
    <2>2. CASE req' = [req EXCEPT ![r] = NoReq]
      BY <1>0, <1>1, <2>1, <2>2
    <2>3. CASE LoginRecorded(r) \/ InsertSession(r) \/ RotateLocksToken(r)
      BY <1>0, <1>1, <2>3 DEF LoginRecorded, InsertSession, RotateLocksToken, RequestRecord
    <2>4. CASE RevokeFamily(r) \/ RevokeAll(r) \/ \E t \in Tokens : SweepRow(r, t)
      BY <1>0, <1>1, <2>4 DEF RevokeFamily, RevokeAll, SweepRow, RequestRecord
    <2>5. CASE SweepCommits(r)
      <3>1. (\A s \in Requests \ {r} : req'[s] = req[s]) /\ req'[r].act = "keep"
        BY <1>0, <2>1, <2>5 DEF SweepCommits, NoReq
      <3> QED BY <1>1, <3>1
    <2> QED
      BY <1>3, <2>2, <2>3, <2>4, <2>5
         DEF RequestStep, RequestFails, IssueSession, Rotate, AnswerInGrace, PatchCommits, Ends
  <1>4. CASE UNCHANGED req
    BY <1>4 DEF TurnsOff
  <1> QED BY <1>2, <1>3, <1>4 DEF Next, EntraLogin, Tick, vars

\* A patch that turns is_active off sweeps, and leaves nothing live; nothing that
\* is inserted or renewed later is of an inactive user, but by a login.
LEMMA NextInactive == TypeInv /\ FamilyInv /\ InactiveInv /\ [Next]_vars => InactiveInv'
  <1> SUFFICES ASSUME TypeInv, FamilyInv, InactiveInv, [Next]_vars PROVE InactiveNotRefreshed'
    BY TurnsOffKept DEF InactiveInv
  <1>0. /\ TokensInv /\ active \in [Users -> BOOLEAN]
        /\ \A t \in Live : token[t].owner \in Users
        /\ \A r \in Requests : req[r] \in RequestRecord /\ Works(r)
    BY StoredInTokens DEF TypeInv, TypeOK, FamilyInv, TokensInv, RequestsInv, Belongs
  <1>1. ASSUME token' = token, \A t \in Live : active'[token[t].owner] = FALSE => ~active[token[t].owner]
        PROVE  InactiveNotRefreshed'
    BY <1>0, <1>1 DEF InactiveInv, InactiveNotRefreshed, Live
  <1>2. ASSUME NEW r \in Requests, RequestStarts(r) \/ RequestFails(r) PROVE token' = token /\ active' = active
    BY <1>2 DEF RequestStarts, LoginVerifies, ChangePasswordStarts, CliStarts, PatchStarts, RefreshStarts,
                LogoutStarts, RequestFails
  <1>3. ASSUME NEW r \in Requests,
               \/ LoginRecorded(r) \/ InsertSession(r) \/ RotateLocksToken(r) \/ AnswerInGrace(r)
               \/ RevokeFamily(r) \/ RevokeAll(r) \/ \E t \in Tokens : SweepRow(r, t)
        PROVE  token' = token /\ active' = active
    BY <1>3 DEF LoginRecorded, InsertSession, RotateLocksToken, AnswerInGrace, RevokeFamily, RevokeAll, SweepRow
  <1>4. ASSUME NEW r \in Requests, req[r].act # "off", active' = PatchedActive(r), NEW u \in Users,
               active'[u] = FALSE
        PROVE  ~active[u]
    <2>1. req[r].act \in {"keep", "on"}
      BY <1>0, <1>4 DEF RequestRecord
    <2>2. CASE req[r].act = "on"
      BY <1>0, <1>4, <2>2 DEF PatchedActive
    <2>3. CASE req[r].act = "keep"
      BY <1>0, <1>4, <2>3 DEF PatchedActive
    <2> QED BY <2>1, <2>2, <2>3
  <1>5. ASSUME NEW r \in Requests, PatchCommits(r) PROVE InactiveNotRefreshed'
    <2>1. token' = token /\ active' = PatchedActive(r) /\ req[r].act # "off"
      BY <1>0, <1>5 DEF PatchCommits, InactiveInv, TurnsOff
    <2> QED BY <1>0, <1>1, <1>4, <2>1
  <1>6. ASSUME NEW u \in Users, NEW now \in Nat, used + 1 \in Tokens, used' = used + 1, entra' = entra,
               active' = active, token' = [token EXCEPT ![used + 1] = FirstToken(u, now)]
        PROVE  InactiveNotRefreshed'
    <2>1. /\ Live' = Live \cup {used + 1} /\ token'[used + 1] = FirstToken(u, now)
          /\ \A t \in Live : token'[t] = token[t]
      BY <1>0, <1>6, Opening, StoredInTokens
    <2>2. token'[used + 1].family = used + 1
      BY <2>1 DEF FirstToken
    <2> QED BY <1>6, <2>1, <2>2 DEF InactiveInv, InactiveNotRefreshed
  <1>7. ASSUME NEW u \in Users, EntraLogin(u) PROVE InactiveNotRefreshed'
    <2>1. clock \in Nat
      BY TokensAssumption DEF TypeInv, TypeOK
    <2> QED BY <1>6, <1>7, <2>1, IdForInsert DEF EntraLogin
  <1>8. ASSUME NEW r \in Requests, IssueSession(r) PROVE InactiveNotRefreshed'
    <2>1. req[r].user \in Users /\ used + 1 \in Tokens
      <3>1. Inserts(req[r])
        BY <1>8 DEF IssueSession, Inserts
      <3> QED BY <1>0, <1>8, <3>1, IdForInsert DEF IssueSession, Works
    <2>2. req[r].now \in Nat
      BY <1>0, TokensAssumption DEF RequestRecord
    <2> QED BY <1>6, <1>8, <2>1, <2>2 DEF IssueSession
  <1>9. ASSUME NEW r \in Requests, Rotate(r) PROVE InactiveNotRefreshed'
    <2> DEFINE k == req[r].tok
    <2>1. /\ req[r].pc = "account" /\ req[r].live /\ Replace(k, req[r].user, req[r].now)
          /\ entra' = entra /\ active' = active /\ active[req[r].user]
      BY <1>9 DEF Rotate
    <2>2. Inserts(req[r])
      BY <2>1 DEF Inserts
    <2>3. k \in Live /\ req[r].user = token[k].owner /\ used + 1 \in Tokens
      BY <1>0, <2>1, <2>2, IdForInsert DEF Works
    <2>4. req[r].now \in Nat
      BY <1>0, TokensAssumption DEF RequestRecord
    <2>5. /\ Live' = (Live \ {k}) \cup {used + 1} /\ token'[used + 1].owner = token[k].owner
          /\ \A t \in Live : token'[t].owner = token[t].owner /\ token'[t].family = token[t].family
      <3>1. Replace(k, token[k].owner, req[r].now)
        BY <2>1, <2>3
      <3> HIDE DEF k
      <3> QED BY <1>0, <2>1, <2>3, <2>4, <3>1, Replacing, StoredInTokens
    <2> HIDE DEF k
    <2> QED BY <2>1, <2>3, <2>5 DEF InactiveInv, InactiveNotRefreshed
  <1>10. ASSUME NEW r \in Requests, SweepCommits(r) PROVE InactiveNotRefreshed'
    <2> DEFINE R == {t \in Tokens : tokenLock[t] = r}
    <2>1. /\ used' = used /\ entra' = entra /\ active' = PatchedActive(r) /\ req[r].pc = "sweep"
          /\ token' = [t \in Tokens |-> IF t \in R /\ token[t].state = "live"
                                        THEN [token[t] EXCEPT !.state = "revoked"] ELSE token[t]]
      BY <1>10 DEF SweepCommits, Revoked
    <2>2. R \in SUBSET Tokens
      OBVIOUS
    <2> HIDE DEF R
    <2>3. /\ Stored' = Stored /\ Live' = Live \ R
          /\ \A t \in Tokens : token'[t].owner = token[t].owner /\ token'[t].family = token[t].family
      BY <1>0, <2>1, <2>2, Revoking
    <2>4. CASE req[r].act # "off"
      <3>1. \A t \in Live' : /\ t \in Live /\ token[t].owner \in Users
                              /\ token'[t].owner = token[t].owner /\ token'[t].family = token[t].family
        BY <1>0, <2>3, StoredInTokens
      <3>2. PatchedActive(r) \in [Users -> BOOLEAN]
        BY PatchedType DEF TypeInv
      <3>3. \A u \in Users : ~active'[u] => ~active[u]
        BY <1>4, <2>1, <2>4, <3>2
      <3> QED BY <3>1, <3>3 DEF InactiveInv, InactiveNotRefreshed
    <2>5. CASE req[r].act = "off"
      <3>1. req[r].op = "patch"
        BY <2>5 DEF InactiveInv, TurnsOff
      <3>2. \A t \in OwnedBy(req[r].user) : token'[t].state # "live"
        BY <1>10, <3>1, SweepEnds DEF Swept
      <3>3. ASSUME NEW t \in Live' PROVE token[t].owner # req[r].user /\ t \in Live
        BY <2>3, <3>2, <3>3, StoredInTokens DEF OwnedBy, Live
      <3>4. \A u \in Users \ {req[r].user} : active'[u] = active[u]
        BY <1>0, <2>1, <2>5 DEF PatchedActive
      <3> QED BY <1>0, <2>3, <3>3, <3>4, StoredInTokens DEF InactiveInv, InactiveNotRefreshed
    <2> QED BY <2>4, <2>5
  <1>11. CASE Tick \/ UNCHANGED vars
    BY <1>1, <1>11 DEF Tick, vars
  <1> QED
    BY <1>1, <1>2, <1>3, <1>5, <1>7, <1>8, <1>9, <1>10, <1>11 DEF Next, RequestStep

LEMMA SpecInactive == Spec => [](TypeInv /\ FamilyInv /\ InactiveInv)
  <1> QED BY InitInactive, NextInactive, SpecFamilies, PTL DEF Spec

\* For any number of requests at once: a reset, a patch or a change of password
\* closes every session of the user that is open when it commits, a refused
\* refresh all of its family, also if another refresh was inserting a token; and
\* what a login in flight leaves to an inactive user is never renewed.
THEOREM SweepsAreComplete == Spec => SweepsComplete
  <1>1. TypeInv /\ FamilyInv =>
          /\ \A r \in Requests :
               SweepCommits(r) /\ req[r].op \in {"patch", "change"}
               => \A t \in OwnedBy(req[r].user) : token'[t].state # "live"
          /\ \A r \in Requests :
               SweepCommits(r) /\ req[r].op = "rotate"
               => \A t \in FamilyOf(req[r].tok) : token'[t].state # "live"
    BY SweepEnds DEF Swept
  <1>2. InactiveInv => InactiveNotRefreshed
    BY DEF InactiveInv
  <1> QED
    BY <1>1, <1>2, SpecInactive, PTL DEF SweepsComplete, RevocationIsComplete, ReuseEndsFamily

----------------------------------------------------------------------------
(* The promise of families *)

LiveFamilies == {token[t].family : t \in Live}

LEMMA NoneOpenAtFirst == Init => Promise!Init
  <1> SUFFICES ASSUME Init PROVE Promise!Init
    OBVIOUS
  <1>1. Stored = {}
    BY DEF Init, Stored, NoToken
  <1> QED BY <1>1 DEF Promise!Init, Opened, Closed

\* The three ways to change tokens, and none, are steps of the promise.
LEMMA AloneKeeps ==
  ASSUME token' = token
  PROVE  UNCHANGED <<Opened, Closed>>
  BY DEF Opened, Closed, Stored, Live

LEMMA RevokingCloses ==
  ASSUME Belongs, Stored' = Stored, Live' \in SUBSET Live,
         \A t \in Stored : token'[t].family = token[t].family
  PROVE  Promise!Next \/ UNCHANGED <<Opened, Closed>>
  <1> DEFINE S == LiveFamilies \ LiveFamilies'
  <1>1. Opened' = Opened
    BY DEF Opened
  <1>2. LiveFamilies' \subseteq LiveFamilies /\ LiveFamilies \subseteq Opened
    BY StoredInTokens DEF LiveFamilies, Opened
  <1>3. Closed = Opened \ LiveFamilies /\ Closed' = Opened' \ LiveFamilies'
    BY DEF Closed, LiveFamilies
  <1>4. Closed' = Closed \cup S /\ S \subseteq Opened \ Closed
    BY <1>1, <1>2, <1>3
  <1>5. S = {} => UNCHANGED <<Opened, Closed>>
    BY <1>1, <1>4
  <1>6. S # {} => Promise!Close(S)
    BY <1>1, <1>4 DEF Promise!Close
  <1>7. S \in SUBSET Tokens
    BY StoredInTokens DEF LiveFamilies, Belongs
  <1> QED BY <1>5, <1>6, <1>7 DEF Promise!Next

LEMMA LoginOpens ==
  ASSUME Belongs, NEW n \in Tokens, n \notin Stored,
         Stored' = Stored \cup {n}, Live' = Live \cup {n}, token'[n].family = n,
         \A t \in Stored : token'[t] = token[t]
  PROVE  Promise!Next
  <1>1. \A t \in Stored : token[t].family # n
    BY DEF Belongs
  <1>2. n \notin Opened /\ Opened' = Opened \cup {n}
    BY <1>1 DEF Opened
  <1>3. LiveFamilies' = LiveFamilies \cup {n} /\ LiveFamilies \subseteq Opened
    BY StoredInTokens DEF LiveFamilies, Opened
  <1>4. Closed = Opened \ LiveFamilies /\ Closed' = Opened' \ LiveFamilies'
    BY DEF Closed, LiveFamilies
  <1>5. Closed' = Closed
    BY <1>2, <1>3, <1>4
  <1> QED BY <1>2, <1>5 DEF Promise!Next, Promise!Open

LEMMA ReplacingKeeps ==
  ASSUME NEW n, NEW k \in Live, n \notin Stored,
         Stored' = Stored \cup {n}, Live' = (Live \ {k}) \cup {n}, token'[n].family = token[k].family,
         \A t \in Stored : token'[t].family = token[t].family
  PROVE  UNCHANGED <<Opened, Closed>>
  <1>1. Opened' = Opened
    BY StoredInTokens DEF Opened
  <1>2. LiveFamilies' = LiveFamilies
    BY StoredInTokens DEF LiveFamilies
  <1> QED BY <1>1, <1>2 DEF Closed, LiveFamilies

LEMMA NextPromise ==
  ASSUME TypeInv, FamilyInv, [Next]_vars
  PROVE  Promise!Next \/ UNCHANGED <<Opened, Closed>>
  <1> USE DEF locks
  <1>0. /\ TokensInv /\ Belongs
        /\ \A r \in Requests : req[r] \in RequestRecord /\ Works(r)
    BY DEF TypeInv, TypeOK, FamilyInv, TokensInv, RequestsInv
  <1>1. ASSUME NEW r \in Requests, RequestStarts(r) \/ RequestFails(r) PROVE token' = token
    BY <1>1 DEF RequestStarts, LoginVerifies, ChangePasswordStarts, CliStarts, PatchStarts, RefreshStarts,
                LogoutStarts, RequestFails
  <1>2. ASSUME NEW r \in Requests,
               \/ LoginRecorded(r) \/ InsertSession(r) \/ RotateLocksToken(r) \/ AnswerInGrace(r) \/ RevokeFamily(r) \/ RevokeAll(r)
               \/ PatchCommits(r) \/ \E t \in Tokens : SweepRow(r, t)
        PROVE  token' = token
    BY <1>2 DEF LoginRecorded, InsertSession, RotateLocksToken, AnswerInGrace, RevokeFamily, RevokeAll, PatchCommits, SweepRow
  <1>3. CASE token' = token
    BY <1>3, AloneKeeps
  <1>4. ASSUME NEW u \in Users, NEW now \in Nat, used + 1 \in Tokens, used' = used + 1, entra' = entra,
               token' = [token EXCEPT ![used + 1] = FirstToken(u, now)]
        PROVE  Promise!Next
    <2>1. /\ used + 1 \notin Stored
          /\ Stored' = Stored \cup {used + 1} /\ Live' = Live \cup {used + 1}
          /\ token'[used + 1] = FirstToken(u, now) /\ \A t \in Stored : token'[t] = token[t]
      BY <1>0, <1>4, Opening
    <2>2. token'[used + 1].family = used + 1
      BY <2>1 DEF FirstToken
    <2> QED BY <1>0, <1>4, <2>1, <2>2, LoginOpens
  <1>5. ASSUME NEW u \in Users, EntraLogin(u) PROVE Promise!Next
    <2>1. clock \in Nat
      BY TokensAssumption DEF TypeInv, TypeOK
    <2> QED BY <1>4, <1>5, <2>1, IdForInsert DEF EntraLogin
  <1>6. ASSUME NEW r \in Requests, IssueSession(r) PROVE Promise!Next
    <2>1. req[r].user \in Users /\ used + 1 \in Tokens
      <3>1. Inserts(req[r])
        BY <1>6 DEF IssueSession, Inserts
      <3> QED BY <1>0, <1>6, <3>1, IdForInsert DEF IssueSession, Works
    <2>2. req[r].now \in Nat
      BY <1>0, TokensAssumption DEF TypeInv, TypeOK, RequestRecord
    <2> QED BY <1>4, <1>6, <2>1, <2>2 DEF IssueSession
  <1>7. ASSUME NEW r \in Requests, Rotate(r) PROVE UNCHANGED <<Opened, Closed>>
    <2> DEFINE k == req[r].tok
    <2>1. /\ req[r].pc = "account" /\ req[r].live /\ Replace(k, req[r].user, req[r].now) /\ entra' = entra
      BY <1>7 DEF Rotate
    <2>2. Inserts(req[r])
      BY <2>1 DEF Inserts
    <2>3. k \in Live /\ req[r].user = token[k].owner /\ used + 1 \in Tokens
      BY <1>0, <2>1, <2>2, IdForInsert DEF Works
    <2>4. req[r].now \in Nat
      BY <1>0, TokensAssumption DEF RequestRecord
    <2>5. /\ used + 1 \notin Stored /\ Stored' = Stored \cup {used + 1}
          /\ Live' = (Live \ {k}) \cup {used + 1} /\ token'[used + 1].family = token[k].family
          /\ \A t \in Stored : token'[t].family = token[t].family
      <3>1. Replace(k, token[k].owner, req[r].now)
        BY <2>1, <2>3
      <3> HIDE DEF k
      <3> QED BY <1>0, <2>1, <2>3, <2>4, <3>1, Replacing
    <2> HIDE DEF k
    <2> QED BY <2>3, <2>5, ReplacingKeeps
  <1>8. ASSUME NEW r \in Requests, SweepCommits(r) PROVE Promise!Next \/ UNCHANGED <<Opened, Closed>>
    <2> DEFINE R == {t \in Tokens : tokenLock[t] = r}
    <2>1. /\ used' = used /\ entra' = entra
          /\ token' = [t \in Tokens |-> IF t \in R /\ token[t].state = "live"
                                        THEN [token[t] EXCEPT !.state = "revoked"] ELSE token[t]]
      BY <1>8 DEF SweepCommits, Revoked
    <2>2. R \in SUBSET Tokens
      OBVIOUS
    <2> HIDE DEF R
    <2>3. /\ Stored' = Stored /\ Live' = Live \ R
          /\ \A t \in Tokens : token'[t].family = token[t].family
      BY <1>0, <2>1, <2>2, Revoking
    <2> QED BY <1>0, <2>3, StoredInTokens, RevokingCloses
  <1>9. CASE Tick \/ UNCHANGED vars
    BY <1>3, <1>9 DEF Tick, vars
  <1> QED BY <1>1, <1>2, <1>3, <1>5, <1>6, <1>7, <1>8, <1>9 DEF Next, RequestStep

\* For any users and requests, whatever races: a family is opened once, by a
\* login, and never comes back to life once it has no live token.
THEOREM FamiliesCloseForGood == Spec => ImplementsFamilies
  <1>1. TypeInv /\ FamilyInv /\ [Next]_vars => [Promise!Next]_<<Opened, Closed>>
    BY NextPromise
  <1> QED BY <1>1, NoneOpenAtFirst, SpecFamilies, PTL DEF Spec, ImplementsFamilies, Promise!Spec
=============================================================================
