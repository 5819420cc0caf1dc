------------------------ MODULE BrowserSessionProofs ------------------------
(***************************************************************************)
(* What holds of the tabs of a browser for any number of tabs and sign-ins  *)
(* and any life and margin of access tokens, as long as nothing gets lost.  *)
(***************************************************************************)
EXTENDS BrowserSession, TLAPS

Cookies == Token \cup {NoToken}
Tab ==
  [booting : BOOLEAN, user : Families \cup {0}, left : 0 .. Ttl, armed : BOOLEAN,
   refresh : {"none", "waiting", "sent", "answered"}, carried : Cookies,
   answer : [family : Families \cup {0}, cookie : Cookies], out : BOOLEAN,
   call : {"none", "check", "sent", "denied", "again", "failed"}]

----------------------------------------------------------------------------
(* Types *)

\* A token stays one when it ages.
LEMMA AgedType ==
  ASSUME NEW k \in Cookies, NEW f \in Families
  PROVE  Aged(k, f) \in Cookies /\ Later(k) \in Cookies
  BY DEF Aged, Later, Cookies, Token

\* The two lives of a token that the code sets.
LEMMA Lives == 0 \in 0 .. Ttl /\ Ttl \in 0 .. Ttl
  BY TimesAssumption

\* The values a tab takes.
LEMMA OpeningType == Opening \in Tab
  <1>1. NoAnswer \in [family : Families \cup {0}, cookie : Cookies] /\ NoToken \in Cookies
    BY DEF NoAnswer, Cookies
  <1>2. SignedOut \in Tab
    BY <1>1, Lives DEF SignedOut, Tab
  <1> QED BY <1>2 DEF Opening, Tab

LEMMA SetSessionType ==
  ASSUME NEW b \in Tab, NEW f \in Families \cup {0}
  PROVE  SetSession(b, f) \in Tab
  BY Lives DEF SetSession, Tab

LEMMA ClearSessionType ==
  ASSUME NEW b \in Tab
  PROVE  ClearSession(b) \in Tab
  BY Lives DEF ClearSession, Tab

LEMMA JoinedType ==
  ASSUME NEW b \in Tab
  PROVE  Joined(b) \in Tab
  BY DEF Joined, Tab

LEMMA SettledType ==
  ASSUME NEW b \in Tab
  PROVE  Settled(b) \in Tab
  BY DEF Settled, NoAnswer, Tab, Cookies

LEMMA RefreshedType ==
  ASSUME NEW b \in Tab
  PROVE  Refreshed(b) \in Tab
  <1>1. b.answer.family \in Families \cup {0}
    BY DEF Tab
  <1> QED BY <1>1, SetSessionType, ClearSessionType, SettledType DEF Refreshed

LEMMA HeldAfterType ==
  ASSUME NEW b \in Tab, NEW f \in Families
  PROVE  HeldAfter(b, f) \in Tab
  <1>1. b.carried \in Cookies /\ b.answer.cookie \in Cookies
    BY DEF Tab
  <1>2. Aged(b.carried, f) \in Cookies /\ Aged(b.answer.cookie, f) \in Cookies
    BY <1>1, AgedType
  <1>3. [b.answer EXCEPT !.cookie = Aged(@, f)] \in [family : Families \cup {0}, cookie : Cookies]
    BY <1>2 DEF Tab
  <1>4. HeldAfter(b, f) = [b EXCEPT !.carried = Aged(b.carried, f),
                                    !.answer = [b.answer EXCEPT !.cookie = Aged(@, f)]]
    BY DEF HeldAfter, Tab
  <1> QED BY <1>2, <1>3, <1>4 DEF Tab

LEMMA ReplyType ==
  ASSUME NEW b \in Tab
  PROVE  Reply(b) \in Tab
  BY JoinedType DEF Reply, Tab

Shape ==
  /\ jar \in Cookies
  /\ family \in [Families -> {"unused", "live", "ended"}]
  /\ active \in BOOLEAN /\ lost \in BOOLEAN /\ wronged \in BOOLEAN
  /\ lock \in Tabs \cup {Free}
  /\ tab \in [Tabs -> Tab]

LEMMA ShapeIsType == Shape <=> TypeOK
  BY DEF Shape, TypeOK, Tab, Cookies

LEMMA InitType == Init => Shape
  <1> SUFFICES ASSUME Init PROVE Shape
    OBVIOUS
  <1>1. jar \in Cookies
    <2>1. CASE jar = NoToken
      BY <2>1 DEF Cookies
    <2>2. CASE jar = [family |-> 1, status |-> "live"]
      BY <2>2, FamiliesAssumption DEF Cookies, Token
    <2> QED BY <2>1, <2>2 DEF Init
  <1>2. tab \in [Tabs -> Tab]
    BY OpeningType DEF Init
  <1>3. family \in [Families -> {"unused", "live", "ended"}]
    BY DEF Init
  <1> QED BY <1>1, <1>2, <1>3 DEF Init, Shape

LEMMA NextType == Shape /\ [Next]_vars => Shape'
  <1> SUFFICES ASSUME Shape, [Next]_vars PROVE Shape'
    OBVIOUS
  <1>0. \A u \in Tabs : tab[u] \in Tab
    BY DEF Shape
  <1>1. ASSUME NEW t \in Tabs, TimerFires(t) PROVE Shape'
    <2>1. \A b \in Tab : [b EXCEPT !.armed = FALSE] \in Tab
      BY DEF Tab
    <2>2. [Joined(tab[t]) EXCEPT !.armed = FALSE] \in Tab
      BY <1>0, <2>1, JoinedType
    <2> QED BY <1>1, <2>2 DEF TimerFires, Shape
  <1>2. ASSUME NEW t \in Tabs, Focus(t) PROVE Shape'
    BY <1>0, <1>2, JoinedType DEF Focus, Shape
  <1>3. ASSUME NEW t \in Tabs, RefreshTurn(t) PROVE Shape'
    <2>1. /\ [tab[t] EXCEPT !.refresh = "none", !.booting = FALSE] \in Tab
          /\ [tab[t] EXCEPT !.refresh = "sent", !.carried = jar] \in Tab
      BY <1>0 DEF Shape, Tab
    <2>2. \/ tab' = [tab EXCEPT ![t].refresh = "none", ![t].booting = FALSE]
          \/ tab' = [tab EXCEPT ![t].refresh = "sent", ![t].carried = jar]
      BY <1>3 DEF RefreshTurn
    <2>3. tab' \in [Tabs -> Tab]
      BY <2>1, <2>2 DEF Shape
    <2>4. lock' \in Tabs \cup {Free}
      BY <1>3 DEF RefreshTurn, Shape
    <2> QED BY <1>3, <2>3, <2>4 DEF RefreshTurn, Shape
  <1>4. ASSUME NEW t \in Tabs, ServeRefresh(t) PROVE Shape'
    <2> DEFINE k == tab[t].carried
               f == k.family
               Answer(b, cookie) == [b EXCEPT !.refresh = "answered", !.carried = NoToken,
                                              !.answer = [family |-> f, cookie |-> cookie]]
    <2>1. /\ active' = active /\ lock' = lock /\ lost' = lost
          /\ wronged' \in BOOLEAN
      BY <1>4 DEF ServeRefresh, Shape
    <2>2. k \in Cookies
      BY <1>0 DEF Tab
    <2>3. k # NoToken => f \in Families
      BY <2>2 DEF Cookies, Token
    <2>4. family' \in [Families -> {"unused", "live", "ended"}]
      BY <1>4, <2>3 DEF ServeRefresh, Shape
    <2>5. CASE Denied(t) /\ jar' = jar
      <3>1. [tab[t] EXCEPT !.refresh = "answered", !.carried = NoToken, !.answer = NoAnswer] \in Tab
        BY <1>0 DEF Tab, NoAnswer, Cookies
      <3> QED BY <2>1, <2>4, <2>5, <3>1 DEF Denied, Shape
    <2>6. ASSUME NEW c \in Cookies, k # NoToken PROVE \A b \in Tab : Answer(b, c) \in Tab
      BY <2>3, <2>6 DEF Tab, Cookies
    <2>7. CASE /\ k # NoToken
               /\ jar' = Aged(jar, f)
               /\ tab' = [u \in Tabs |->
                            IF u = t THEN Answer(tab[t], [family |-> f, status |-> "live"])
                            ELSE HeldAfter(tab[u], f)]
      <3>1. [family |-> f, status |-> "live"] \in Cookies
        BY <2>3, <2>7 DEF Cookies, Token
      <3>2. Answer(tab[t], [family |-> f, status |-> "live"]) \in Tab
        BY <1>0, <2>6, <2>7, <3>1
      <3>3. \A u \in Tabs : HeldAfter(tab[u], f) \in Tab
        BY <1>0, <2>3, <2>7, HeldAfterType
      <3>4. tab' \in [Tabs -> Tab]
        <4> HIDE DEF Answer, f
        <4> QED BY <2>7, <3>2, <3>3
      <3>5. jar' \in Cookies
        BY <2>3, <2>7, AgedType DEF Shape
      <3> QED BY <2>1, <2>4, <3>4, <3>5 DEF Shape
    <2>8. CASE k # NoToken /\ jar' = jar /\ tab' = [tab EXCEPT ![t] = Answer(@, NoToken)]
      <3>1. Answer(tab[t], NoToken) \in Tab
        BY <1>0, <2>6, <2>8 DEF Cookies
      <3> QED BY <2>1, <2>4, <2>8, <3>1 DEF Shape
    <2> QED BY <1>4, <2>5, <2>7, <2>8 DEF ServeRefresh
  <1>5. ASSUME NEW t \in Tabs, RefreshAnswer(t) PROVE Shape'
    <2>1. tab[t].answer.cookie \in Cookies
      BY <1>0 DEF Tab
    <2> QED BY <1>0, <1>5, <2>1, RefreshedType DEF RefreshAnswer, Shape
  <1>6. ASSUME NEW t \in Tabs, RefreshLost(t) PROVE Shape'
    <2> DEFINE Fallen(c) == [tab[t] EXCEPT !.refresh = "none", !.carried = NoToken,
                                         !.answer = NoAnswer, !.call = c]
    <2>1. Fallen(tab[t].call) \in Tab /\ Fallen("failed") \in Tab
      BY <1>0 DEF Tab, NoAnswer, Cookies
    <2>2. \/ tab' = [tab EXCEPT ![t] = Fallen(tab[t].call)]
          \/ tab' = [tab EXCEPT ![t] = Fallen("failed")]
      BY <1>0, <1>6 DEF RefreshLost, Shape, Tab
    <2> QED BY <1>6, <2>1, <2>2 DEF RefreshLost, Shape
  <1>7. ASSUME NEW t \in Tabs, NEW f \in Families, Login(t, f) PROVE Shape'
    <2>1. [family |-> f, status |-> "live"] \in Cookies
      BY DEF Cookies, Token
    <2>2. tab' \in [Tabs -> Tab]
      BY <1>0, <1>7, SetSessionType DEF Login, Shape
    <2> QED BY <1>7, <2>1, <2>2 DEF Login, Shape
  <1>8. ASSUME NEW t \in Tabs, Logout(t) PROVE Shape'
    <2>1. [tab[t] EXCEPT !.out = TRUE] \in Tab
      BY <1>0 DEF Tab
    <2>2. tab' \in [Tabs -> Tab]
      BY <1>8, <2>1 DEF Logout, Shape
    <2>3. family' \in [Families -> {"unused", "live", "ended"}]
      BY <1>8 DEF Logout, Shape
    <2> QED BY <1>8, <2>2, <2>3 DEF Logout, Shape
  <1>9. ASSUME NEW t \in Tabs, LogoutAnswer(t) PROVE Shape'
    <2>1. \A b \in Tab : [b EXCEPT !.out = FALSE] \in Tab
      BY DEF Tab
    <2>2. [ClearSession(tab[t]) EXCEPT !.out = FALSE] \in Tab
      BY <1>0, <2>1, ClearSessionType
    <2> QED BY <1>9, <2>2 DEF LogoutAnswer, Shape, Cookies
  <1>10. ASSUME NEW t \in Tabs, LogoutLost(t) PROVE Shape'
    BY <1>0, <1>10, ClearSessionType DEF LogoutLost, Shape
  <1>11. ASSUME NEW t \in Tabs, Reload(t) PROVE Shape'
    BY <1>11, OpeningType DEF Reload, Shape
  <1>12. ASSUME NEW t \in Tabs, IdleOut(t) PROVE Shape'
    BY <1>0, <1>12, ClearSessionType DEF IdleOut, Shape
  <1>13. ASSUME NEW t \in Tabs, Call(t) \/ CallAgain(t) \/ CallLost(t) \/ CallSend(t) PROVE Shape'
    <2>1. \A c \in {"check", "sent", "again", "failed"} : [tab[t] EXCEPT !.call = c] \in Tab
      BY <1>0 DEF Tab
    <2>2. \/ tab' = [tab EXCEPT ![t] = Joined(@)]
          \/ \E c \in {"check", "sent", "again", "failed"} : tab' = [tab EXCEPT ![t].call = c]
      BY <1>13 DEF Call, CallAgain, CallLost, CallSend
    <2>3. tab' \in [Tabs -> Tab]
      BY <1>0, <2>1, <2>2, JoinedType DEF Shape
    <2>4. /\ UNCHANGED <<jar, family, active, lock, wronged>>
          /\ lost' \in BOOLEAN
      BY <1>13 DEF Call, CallAgain, CallLost, CallSend, Shape
    <2> QED BY <2>3, <2>4 DEF Shape
  <1>14. ASSUME NEW t \in Tabs, CallReply(t) PROVE Shape'
    BY <1>0, <1>14, ReplyType DEF CallReply, Shape
  <1>15. ASSUME NEW f \in Families, ServerEnds(f) PROVE Shape'
    BY <1>15 DEF ServerEnds, Shape
  <1>16. CASE Deactivate
    BY <1>16 DEF Deactivate, Shape
  <1>17. CASE Tick
    <2>1. \A n \in 0 .. Ttl : Less(n) \in 0 .. Ttl
      BY TimesAssumption DEF Less
    <2>2. \A k \in Cookies : Later(k) \in Cookies
      BY AgedType, FamiliesAssumption
    <2>3. \A b \in Tab : [b EXCEPT !.left = Less(@), !.carried = Later(@)] \in Tab
      BY <2>1, <2>2 DEF Tab
    <2>4. tab' \in [Tabs -> Tab]
      BY <1>0, <1>17, <2>3 DEF Tick
    <2> QED BY <1>17, <2>2, <2>4 DEF Tick, Shape
  <1>18. CASE UNCHANGED vars
    BY <1>18 DEF vars, Shape
  <1> QED
    BY <1>1, <1>2, <1>3, <1>4, <1>5, <1>6, <1>7, <1>8, <1>9, <1>10, <1>11, <1>12, <1>13,
       <1>14, <1>15, <1>16, <1>17, <1>18 DEF Next, Step

\* The values are always of their types.
THEOREM TypeCorrect == Spec => []TypeOK
  BY InitType, NextType, ShapeIsType, PTL DEF Spec

----------------------------------------------------------------------------
(* What the tabs keep *)

Turn == {"sent", "answered"}

\* The tab that has sent a refresh, or has its answer on the way, has the lock.
LockKept == \A t \in Tabs : tab[t].refresh \in Turn <=> lock = t

\* A request belongs to a user, and a timer that is set has time left to fire in.
Tidy(b) ==
  /\ b.call # "none" => b.user # 0
  /\ b.armed => b.user # 0 /\ b.left >= Margin

Unrotated(k) == k = NoToken \/ k.status = "live"

\* While nothing gets lost: a tab whose timer has fired is on its way to a new
\* token, no refresh carries a token that was rotated before, and a request is
\* repeated only with a token that lasts.
Sound(b) ==
  /\ b.user # 0 /\ ~b.armed => b.refresh # "none" /\ (b.refresh = "waiting" => NearExpiry(b))
  /\ b.refresh = "sent" => Unrotated(b.carried)
  /\ b.refresh = "answered" => Unrotated(b.answer.cookie)
  /\ b.call = "again" => b.left > 0
  /\ b.call = "failed" => ~active

\* The cookie is the one to rotate next, or the tab with the lock is about to store that one.
JarFresh ==
  \/ Unrotated(jar)
  \/ \E t \in Tabs : tab[t].refresh = "answered" /\ tab[t].answer.cookie # NoToken

Kept ==
  /\ LockKept
  /\ ~wronged
  /\ \A t \in Tabs : Tidy(tab[t])
  /\ ~lost => JarFresh /\ \A t \in Tabs : Sound(tab[t])

LEMMA InitKept == Init => Kept
  <1> SUFFICES ASSUME Init PROVE Kept
    OBVIOUS
  <1>1. \A t \in Tabs : tab[t] = Opening
    BY DEF Init
  <1>2. /\ Opening.refresh = "waiting" /\ Opening.user = 0 /\ Opening.call = "none"
        /\ Opening.armed = FALSE
    BY DEF Opening, SignedOut
  <1>3. LockKept
    BY <1>1, <1>2, FamiliesAssumption DEF LockKept, Init, Turn
  <1>4. \A t \in Tabs : Tidy(tab[t]) /\ Sound(tab[t])
    BY <1>1, <1>2 DEF Tidy, Sound
  <1>5. JarFresh
    BY DEF JarFresh, Unrotated, Init
  <1> QED BY <1>3, <1>4, <1>5 DEF Kept, Init

\* What a step of one tab must see to that neither sends nor ends a refresh.
LEMMA TabStep ==
  ASSUME Shape, Kept, NEW t \in Tabs, NEW b \in Tab,
         tab' = [tab EXCEPT ![t] = b],
         b.refresh \in Turn \/ tab[t].refresh \in Turn =>
           b.refresh = tab[t].refresh /\ b.answer = tab[t].answer,
         jar' = jar \/ Unrotated(jar'),
         lock' = lock, wronged' = wronged, active' = active, lost => lost',
         Tidy(b), ~lost' => Sound(b)
  PROVE  Kept'
  <1>1. \A u \in Tabs : tab'[u] = IF u = t THEN b ELSE tab[u]
    BY DEF Shape
  <1>2. LockKept'
    BY <1>1 DEF Kept, LockKept, Turn
  <1>3. \A u \in Tabs : Tidy(tab[u])'
    BY <1>1 DEF Kept, Tidy
  <1>4. ASSUME ~lost' PROVE \A u \in Tabs : Sound(tab[u])'
    BY <1>1, <1>4 DEF Kept, Sound, Unrotated, NearExpiry
  <1>5. ASSUME ~lost' PROVE JarFresh'
    BY <1>1, <1>5 DEF Kept, JarFresh, Unrotated, Turn
  <1> QED BY <1>2, <1>3, <1>4, <1>5 DEF Kept

\* The same for a step that loses something.
LEMMA LossStep ==
  ASSUME Shape, Kept, NEW t \in Tabs, NEW b \in Tab,
         tab' = [tab EXCEPT ![t] = b],
         b.refresh \notin Turn, lock' = IF lock = t THEN Free ELSE lock,
         wronged' = wronged, lost', Tidy(b)
  PROVE  Kept'
  <1>1. \A u \in Tabs : tab'[u] = IF u = t THEN b ELSE tab[u]
    BY DEF Shape
  <1>2. LockKept'
    BY <1>1, FamiliesAssumption DEF Kept, LockKept
  <1>3. \A u \in Tabs : Tidy(tab[u])'
    BY <1>1 DEF Kept, Tidy
  <1> QED BY <1>2, <1>3 DEF Kept

\* How a tab joins a refresh.
LEMMA JoinedFields ==
  ASSUME NEW b \in Tab
  PROVE  /\ Joined(b).refresh = IF b.refresh = "none" THEN "waiting" ELSE b.refresh
         /\ Joined(b).user = b.user /\ Joined(b).left = b.left /\ Joined(b).armed = b.armed
         /\ Joined(b).carried = b.carried /\ Joined(b).answer = b.answer /\ Joined(b).call = b.call
  BY DEF Joined, Tab

LEMMA ClearedFields ==
  ASSUME NEW b \in Tab
  PROVE  /\ ClearSession(b).refresh = b.refresh /\ ClearSession(b).answer = b.answer
         /\ ClearSession(b).carried = b.carried
         /\ ClearSession(b).user = 0 /\ ~ClearSession(b).armed /\ ClearSession(b).call = "none"
  BY DEF ClearSession, Tab

LEMMA SetFields ==
  ASSUME NEW b \in Tab, NEW f \in Families
  PROVE  /\ SetSession(b, f).refresh = b.refresh /\ SetSession(b, f).answer = b.answer
         /\ SetSession(b, f).carried = b.carried /\ SetSession(b, f).call = b.call
         /\ SetSession(b, f).user = f /\ SetSession(b, f).armed /\ SetSession(b, f).left = Ttl
  BY DEF SetSession, Tab

LEMMA NextKept == Shape /\ Kept /\ [Next]_vars => Kept'
  <1> SUFFICES ASSUME Shape, Kept, [Next]_vars PROVE Kept'
    OBVIOUS
  <1> USE DEF Turn
  <1>0. /\ \A u \in Tabs : tab[u] \in Tab /\ Tidy(tab[u])
        /\ ~lost => \A u \in Tabs : Sound(tab[u])
    BY DEF Shape, Kept
  <1>1. ASSUME NEW t \in Tabs, TimerFires(t) PROVE Kept'
    <2> DEFINE b == [Joined(tab[t]) EXCEPT !.armed = FALSE]
    <2>1. Joined(tab[t]) \in Tab
      BY <1>0, JoinedType
    <2>2. /\ b \in Tab
          /\ b.refresh = Joined(tab[t]).refresh /\ b.user = Joined(tab[t]).user
          /\ b.left = Joined(tab[t]).left /\ b.carried = Joined(tab[t]).carried
          /\ b.answer = Joined(tab[t]).answer /\ b.call = Joined(tab[t]).call /\ ~b.armed
      BY <2>1 DEF Tab
    <2>3. /\ b.refresh = IF tab[t].refresh = "none" THEN "waiting" ELSE tab[t].refresh
          /\ b.user = tab[t].user /\ b.left = tab[t].left
          /\ b.carried = tab[t].carried /\ b.answer = tab[t].answer /\ b.call = tab[t].call
      BY <1>0, <2>2, JoinedFields
    <2> HIDE DEF b
    <2>4. Tidy(b)
      BY <1>0, <2>2, <2>3 DEF Tidy
    <2>5. ASSUME ~lost PROVE Sound(b)
      BY <1>0, <1>1, <2>3, <2>5 DEF Sound, TimerFires, NearExpiry
    <2>6. tab' = [tab EXCEPT ![t] = b] /\ UNCHANGED <<jar, lock, lost, wronged, active>>
      BY <1>1 DEF TimerFires, b
    <2> QED BY <2>2, <2>3, <2>4, <2>5, <2>6, TabStep
  <1>2. ASSUME NEW t \in Tabs, Focus(t) PROVE Kept'
    <2> DEFINE b == Joined(tab[t])
    <2>1. b \in Tab
      BY <1>0, JoinedType
    <2>2. /\ b.refresh = "waiting" /\ b.user = tab[t].user /\ b.left = tab[t].left
          /\ b.armed = tab[t].armed /\ b.call = tab[t].call
      BY <1>0, <1>2, JoinedFields DEF Focus
    <2> HIDE DEF b
    <2>3. Tidy(b)
      BY <1>0, <2>2 DEF Tidy
    <2>4. ASSUME ~lost PROVE Sound(b)
      BY <1>0, <1>2, <2>2, <2>4 DEF Sound, Focus, NearExpiry
    <2>5. /\ tab' = [tab EXCEPT ![t] = b] /\ tab[t].refresh = "none"
          /\ UNCHANGED <<jar, lock, lost, wronged, active>>
      BY <1>2 DEF Focus, b
    <2> QED BY <2>1, <2>2, <2>3, <2>4, <2>5, TabStep
  <1>3. ASSUME NEW t \in Tabs, RefreshTurn(t) PROVE Kept'
    <2>1. CASE tab[t].user # 0 /\ ~NearExpiry(tab[t])
      <3> DEFINE b == [tab[t] EXCEPT !.refresh = "none", !.booting = FALSE]
      <3>1. /\ b \in Tab /\ b.refresh = "none" /\ b.call = tab[t].call /\ b.user = tab[t].user
            /\ b.armed = tab[t].armed /\ b.left = tab[t].left
        BY <1>0 DEF Tab
      <3>2. /\ tab' = [tab EXCEPT ![t] = b] /\ tab[t].refresh = "waiting"
            /\ UNCHANGED <<jar, lock, lost, wronged, active>>
        BY <1>3, <2>1 DEF RefreshTurn
      <3> HIDE DEF b
      <3>3. Tidy(b)
        BY <1>0, <3>1 DEF Tidy
      <3>4. ASSUME ~lost PROVE Sound(b)
        BY <1>0, <2>1, <3>1, <3>2, <3>4 DEF Sound
      <3> QED BY <3>1, <3>2, <3>3, <3>4, TabStep
    <2>2. CASE ~(tab[t].user # 0 /\ ~NearExpiry(tab[t]))
      <3> DEFINE b == [tab[t] EXCEPT !.refresh = "sent", !.carried = jar]
      <3>1. /\ b \in Tab /\ b.refresh = "sent" /\ b.carried = jar /\ b.call = tab[t].call
            /\ b.user = tab[t].user /\ b.armed = tab[t].armed /\ b.left = tab[t].left
        BY <1>0 DEF Tab, Shape
      <3>2. /\ tab' = [tab EXCEPT ![t] = b] /\ lock = Free /\ lock' = t
            /\ UNCHANGED <<jar, lost, wronged, active>>
        BY <1>3, <2>2 DEF RefreshTurn, LockOpen
      <3> HIDE DEF b
      <3>3. \A u \in Tabs : tab'[u] = IF u = t THEN b ELSE tab[u]
        BY <3>2 DEF Shape
      <3>4. \A u \in Tabs : tab[u].refresh \notin Turn
        BY <3>2, FamiliesAssumption DEF Kept, LockKept
      <3>5. LockKept'
        BY <3>1, <3>2, <3>3, <3>4 DEF LockKept
      <3>6. \A u \in Tabs : Tidy(tab[u])'
        BY <1>0, <3>1, <3>3 DEF Tidy
      <3>7. ASSUME ~lost PROVE Unrotated(jar)
        BY <3>4, <3>7 DEF Kept, JarFresh
      <3>8. ASSUME ~lost' PROVE JarFresh' /\ \A u \in Tabs : Sound(tab[u])'
        <4>1. ~lost
          BY <3>2, <3>8
        <4>2. JarFresh'
          BY <3>2, <3>7, <4>1 DEF JarFresh, Unrotated
        <4> QED BY <1>0, <3>1, <3>2, <3>3, <3>7, <4>1, <4>2 DEF Sound, NearExpiry, Unrotated
      <3> QED BY <3>2, <3>5, <3>6, <3>8 DEF Kept
    <2> QED BY <2>1, <2>2
  <1>4. ASSUME NEW t \in Tabs, ServeRefresh(t) PROVE Kept'
    <2> DEFINE k == tab[t].carried
               Served(a) == [tab[t] EXCEPT !.refresh = "answered", !.carried = NoToken, !.answer = a]
    <2>1. /\ tab[t].refresh = "sent" /\ lock = t
          /\ active' = active /\ lock' = lock /\ lost' = lost
          /\ ~lost => Unrotated(k)
      BY <1>0, <1>4 DEF ServeRefresh, Kept, LockKept, Sound
    <2>2. ~wronged'
      <3>1. ~wronged
        BY DEF Kept
      <3>2. CASE wronged' = wronged
        BY <3>1, <3>2
      <3>3. CASE k # NoToken /\ k.status = "used" /\ wronged' = (wronged \/ ~lost)
        BY <2>1, <3>1, <3>3 DEF Unrotated
      <3> QED BY <1>4, <3>2, <3>3 DEF ServeRefresh
    <2>3. \A u \in Tabs \ {t} : tab[u].refresh \notin Turn
      BY <2>1 DEF Kept, LockKept
    <2>4. \A a : /\ Served(a).refresh = "answered" /\ Served(a).answer = a
                 /\ Served(a).call = tab[t].call /\ Served(a).user = tab[t].user
                 /\ Served(a).armed = tab[t].armed /\ Served(a).left = tab[t].left
      BY <1>0 DEF Tab
    <2>5. PICK a : /\ tab'[t] = Served(a)
                   /\ Unrotated(a.cookie)
                   /\ Unrotated(jar) => Unrotated(jar') \/ a.cookie # NoToken
                   /\ \A u \in Tabs \ {t} : tab'[u] = tab[u] \/ tab'[u] = HeldAfter(tab[u], k.family)
      <3>1. CASE Denied(t) /\ jar' = jar
        <4>1. tab'[t] = Served(NoAnswer) /\ \A u \in Tabs \ {t} : tab'[u] = tab[u]
          BY <3>1 DEF Denied, Shape
        <4>2. Unrotated(NoAnswer.cookie)
          BY DEF NoAnswer, Unrotated
        <4> HIDE DEF Served
        <4> QED BY <3>1, <4>1, <4>2
      <3>2. CASE jar' = jar /\ tab' = [tab EXCEPT ![t] = Served([family |-> k.family, cookie |-> NoToken])]
        <4> DEFINE a == [family |-> k.family, cookie |-> NoToken]
        <4>1. tab'[t] = Served(a) /\ \A u \in Tabs \ {t} : tab'[u] = tab[u]
          BY <3>2 DEF Shape
        <4>2. Unrotated(a.cookie)
          BY DEF Unrotated
        <4> HIDE DEF Served, a
        <4> QED BY <3>2, <4>1, <4>2
      <3>3. CASE /\ k # NoToken
                 /\ tab' = [u \in Tabs |->
                      IF u = t
                      THEN Served([family |-> k.family, cookie |-> [family |-> k.family, status |-> "live"]])
                      ELSE HeldAfter(tab[u], k.family)]
        <4> DEFINE a == [family |-> k.family, cookie |-> [family |-> k.family, status |-> "live"]]
        <4>1. tab'[t] = Served(a) /\ \A u \in Tabs \ {t} : tab'[u] = HeldAfter(tab[u], k.family)
          BY <3>3
        <4>2. a.cookie # NoToken
          BY <1>0, <3>3, NoTokenAssumption DEF Tab, Cookies, Token
        <4>3. Unrotated(a.cookie)
          BY DEF Unrotated
        <4> HIDE DEF Served, a
        <4> QED BY <4>1, <4>2, <4>3
      <3> QED BY <1>4, <3>1, <3>2, <3>3 DEF ServeRefresh
    <2> HIDE DEF Served
    <2>6. ASSUME NEW u \in Tabs \ {t}
          PROVE  /\ tab'[u].refresh = tab[u].refresh /\ tab'[u].call = tab[u].call
                 /\ tab'[u].user = tab[u].user /\ tab'[u].armed = tab[u].armed
                 /\ tab'[u].left = tab[u].left
      <3>1. \A b \in Tab : LET c == HeldAfter(b, k.family) IN
              /\ c.refresh = b.refresh /\ c.call = b.call /\ c.user = b.user
              /\ c.armed = b.armed /\ c.left = b.left
        BY DEF HeldAfter, Tab
      <3> QED BY <1>0, <2>5, <3>1
    <2>7. LockKept'
      BY <2>1, <2>3, <2>4, <2>5, <2>6 DEF LockKept
    <2>8. \A u \in Tabs : Tidy(tab[u])'
      BY <1>0, <2>4, <2>5, <2>6 DEF Tidy
    <2>9. ASSUME ~lost' PROVE \A u \in Tabs : Sound(tab[u])'
      BY <1>0, <2>1, <2>3, <2>4, <2>5, <2>6, <2>9 DEF Sound, NearExpiry, Unrotated
    <2>10. ASSUME ~lost' PROVE JarFresh'
      <3>1. Unrotated(jar)
        BY <2>1, <2>3, <2>10 DEF Kept, JarFresh
      <3> QED BY <2>4, <2>5, <3>1 DEF JarFresh, Unrotated
    <2> QED BY <2>1, <2>2, <2>7, <2>8, <2>9, <2>10 DEF Kept
  <1>5. ASSUME NEW t \in Tabs, RefreshAnswer(t) PROVE Kept'
    <2> DEFINE a == tab[t].answer
               c == IF a.family # 0 THEN SetSession(tab[t], a.family) ELSE ClearSession(tab[t])
               b == Refreshed(tab[t])
    <2>1. /\ a.family \in Families \cup {0} /\ a.cookie \in Cookies
          /\ tab[t].refresh = "answered" /\ lock = t
      BY <1>0, <1>5 DEF Tab, RefreshAnswer, Kept, LockKept
    <2>2. /\ c \in Tab
          /\ c.user # 0 => c.armed
          /\ c.armed => c.user # 0 /\ c.left = Ttl
          /\ c.call # "none" => c.user # 0 /\ c.call = tab[t].call
      <3>1. CASE a.family # 0
        BY <1>0, <2>1, <3>1, SetSessionType, SetFields
      <3>2. CASE a.family = 0
        BY <1>0, <3>2, ClearSessionType, ClearedFields
      <3> QED BY <3>1, <3>2
    <2>3. b = Settled(c)
      BY DEF Refreshed
    <2>4. /\ b \in Tab /\ b.refresh = "none"
          /\ b.user = c.user /\ b.armed = c.armed /\ b.left = c.left /\ b.call = c.call
      <3> HIDE DEF c, b
      <3> QED BY <2>2, <2>3, SettledType DEF Settled, Tab
    <2>5. /\ tab' = [tab EXCEPT ![t] = b] /\ lock' = Free
          /\ jar' = IF a.cookie = NoToken THEN jar ELSE a.cookie
          /\ UNCHANGED <<active, lost, wronged>>
      BY <1>5, <2>1 DEF RefreshAnswer
    <2> HIDE DEF c, b
    <2>6. \A u \in Tabs : tab'[u] = IF u = t THEN b ELSE tab[u]
      BY <2>5 DEF Shape
    <2>7. \A u \in Tabs \ {t} : tab[u].refresh \notin Turn
      BY <2>1 DEF Kept, LockKept
    <2>8. LockKept'
      BY <2>4, <2>5, <2>6, <2>7, FamiliesAssumption DEF LockKept
    <2>9. \A u \in Tabs : Tidy(tab[u])'
      <3>1. Tidy(b)
        BY <2>2, <2>4, TimesAssumption DEF Tidy
      <3> QED BY <1>0, <2>6, <3>1 DEF Tidy
    <2>10. ASSUME ~lost' PROVE JarFresh' /\ \A u \in Tabs : Sound(tab[u])'
      <3>1. ~lost /\ Sound(tab[t])
        BY <1>0, <2>5, <2>10
      <3>2. Unrotated(a.cookie)
        BY <2>1, <3>1 DEF Sound
      <3>3. a.cookie = NoToken => Unrotated(jar)
        BY <2>1, <2>7, <3>1 DEF Kept, JarFresh
      <3>4. Unrotated(jar)'
        BY <2>5, <3>2, <3>3 DEF Unrotated
      <3>5. Sound(b)
        BY <2>1, <2>2, <2>4, <3>1, TimesAssumption DEF Sound
      <3> QED BY <1>0, <2>5, <2>6, <3>1, <3>4, <3>5 DEF JarFresh, Sound, NearExpiry, Unrotated
    <2> QED BY <2>5, <2>8, <2>9, <2>10 DEF Kept
  <1>6. ASSUME NEW t \in Tabs, RefreshLost(t) PROVE Kept'
    <2> DEFINE Fallen(c) == [tab[t] EXCEPT !.refresh = "none", !.carried = NoToken,
                                           !.answer = NoAnswer, !.call = c]
    <2>1. PICK c \in {tab[t].call, "failed"} : /\ tab' = [tab EXCEPT ![t] = Fallen(c)]
                                               /\ c # "none" => tab[t].call # "none"
      BY <1>0, <1>6 DEF RefreshLost, Shape, Tab
    <2>2. /\ Fallen(c) \in Tab /\ Fallen(c).refresh = "none" /\ Fallen(c).call = c
          /\ Fallen(c).user = tab[t].user /\ Fallen(c).armed = tab[t].armed
          /\ Fallen(c).left = tab[t].left
      BY <1>0, <2>1 DEF Tab, NoAnswer, Cookies
    <2> HIDE DEF Fallen
    <2>3. Tidy(Fallen(c))
      BY <1>0, <2>1, <2>2 DEF Tidy
    <2>4. lock' = (IF lock = t THEN Free ELSE lock) /\ wronged' = wronged /\ lost'
      BY <1>6 DEF RefreshLost
    <2> QED BY <2>1, <2>2, <2>3, <2>4, LossStep
  <1>7. ASSUME NEW t \in Tabs, NEW f \in Families, Login(t, f) PROVE Kept'
    <2> DEFINE b == SetSession(tab[t], f)
    <2>1. /\ b \in Tab
          /\ b.refresh = tab[t].refresh /\ b.answer = tab[t].answer /\ b.carried = tab[t].carried
          /\ b.call = tab[t].call /\ b.user = f /\ b.armed /\ b.left = Ttl
      BY <1>0, SetSessionType, SetFields
    <2> HIDE DEF b
    <2>2. tab[t].call = "none" /\ f # 0
      BY <1>0, <1>7, FamiliesAssumption DEF Login, Tidy
    <2>3. Tidy(b)
      BY <2>1, <2>2, TimesAssumption DEF Tidy
    <2>4. ASSUME ~lost PROVE Sound(b)
      BY <1>0, <2>1, <2>2, <2>4 DEF Sound
    <2>5. tab' = [tab EXCEPT ![t] = b] /\ Unrotated(jar') /\ UNCHANGED <<lock, lost, wronged, active>>
      BY <1>7 DEF Login, Unrotated, b
    <2> QED BY <2>1, <2>3, <2>4, <2>5, TabStep
  <1>8. ASSUME NEW t \in Tabs, Logout(t) PROVE Kept'
    <2> DEFINE b == [tab[t] EXCEPT !.out = TRUE]
    <2>1. /\ b \in Tab
          /\ b.refresh = tab[t].refresh /\ b.answer = tab[t].answer /\ b.carried = tab[t].carried
          /\ b.call = tab[t].call /\ b.user = tab[t].user /\ b.armed = tab[t].armed
          /\ b.left = tab[t].left
      BY <1>0 DEF Tab
    <2> HIDE DEF b
    <2>2. Tidy(b) /\ (~lost => Sound(b))
      BY <1>0, <2>1 DEF Tidy, Sound, NearExpiry
    <2>3. tab' = [tab EXCEPT ![t] = b] /\ UNCHANGED <<jar, lock, lost, wronged, active>>
      BY <1>8 DEF Logout, b
    <2> QED BY <2>1, <2>2, <2>3, TabStep
  <1>9. ASSUME NEW t \in Tabs, LogoutAnswer(t) \/ LogoutLost(t) \/ IdleOut(t) PROVE Kept'
    <2> DEFINE c == ClearSession(tab[t])
    <2>1. /\ c \in Tab
          /\ c.refresh = tab[t].refresh /\ c.answer = tab[t].answer /\ c.carried = tab[t].carried
          /\ c.user = 0 /\ ~c.armed /\ c.call = "none"
      BY <1>0, ClearSessionType, ClearedFields
    <2>2. PICK b \in {c, [c EXCEPT !.out = FALSE]} : tab' = [tab EXCEPT ![t] = b]
      BY <1>9 DEF LogoutAnswer, LogoutLost, IdleOut
    <2>3. /\ b \in Tab
          /\ b.refresh = tab[t].refresh /\ b.answer = tab[t].answer /\ b.carried = tab[t].carried
          /\ b.user = 0 /\ ~b.armed /\ b.call = "none"
      <3> HIDE DEF c
      <3> QED BY <2>1, <2>2 DEF Tab
    <2>4. Tidy(b) /\ (~lost => Sound(b))
      BY <1>0, <2>3 DEF Tidy, Sound
    <2>5. /\ jar' = jar \/ Unrotated(jar')
          /\ lost => lost'
          /\ ~lost' => ~lost
          /\ UNCHANGED <<lock, wronged, active>>
      BY <1>9 DEF LogoutAnswer, LogoutLost, IdleOut, Unrotated
    <2> QED BY <2>2, <2>3, <2>4, <2>5, TabStep
  <1>10. ASSUME NEW t \in Tabs, Reload(t) PROVE Kept'
    <2>1. /\ Opening.refresh = "waiting" /\ Opening.user = 0 /\ Opening.call = "none"
          /\ ~Opening.armed
      BY DEF Opening, SignedOut
    <2>2. Tidy(Opening) /\ Sound(Opening)
      BY <2>1 DEF Tidy, Sound
    <2>3. /\ tab' = [tab EXCEPT ![t] = Opening]
          /\ lock' = IF lock = t THEN Free ELSE lock
          /\ lost' = (lost \/ tab[t].refresh \in Turn)
          /\ UNCHANGED <<jar, active, wronged>>
      BY <1>10 DEF Reload
    <2>4. CASE tab[t].refresh \in Turn
      BY <2>1, <2>2, <2>3, <2>4, OpeningType, LossStep
    <2>5. CASE tab[t].refresh \notin Turn
      <3>1. lock' = lock /\ lost' = lost
        BY <2>3, <2>5 DEF Kept, LockKept, Shape
      <3> QED BY <2>1, <2>2, <2>3, <2>5, <3>1, OpeningType, TabStep
    <2> QED BY <2>4, <2>5
  <1>11. ASSUME NEW t \in Tabs, Call(t) \/ CallAgain(t) \/ CallLost(t) PROVE Kept'
    <2>1. PICK c \in {"check", "again", "failed"} :
            /\ tab' = [tab EXCEPT ![t] = [@ EXCEPT !.call = c]]
            /\ tab[t].user # 0 \/ tab[t].call # "none"
            /\ c = "again" => tab[t].call = "denied" /\ tab[t].refresh = "none"
            /\ c = "failed" => lost'
            /\ lost => lost'
            /\ UNCHANGED <<jar, lock, wronged, active>>
      BY <1>11 DEF Call, CallAgain, CallLost
    <2> DEFINE b == [tab[t] EXCEPT !.call = c]
    <2>2. /\ b \in Tab
          /\ b.refresh = tab[t].refresh /\ b.answer = tab[t].answer /\ b.carried = tab[t].carried
          /\ b.call = c /\ b.user = tab[t].user /\ b.armed = tab[t].armed
          /\ b.left = tab[t].left
      BY <1>0 DEF Tab
    <2>3. tab' = [tab EXCEPT ![t] = b]
      BY <2>1
    <2> HIDE DEF b
    <2>4. tab[t].user # 0
      BY <1>0, <2>1 DEF Tidy
    <2>5. Tidy(b)
      BY <1>0, <2>2, <2>4 DEF Tidy
    <2>6. ASSUME ~lost' PROVE Sound(b)
      <3>1. Sound(tab[t])
        BY <1>0, <2>1, <2>6
      <3>2. c = "again" => b.left > 0
        BY <1>0, <2>1, <2>2, <2>4, <3>1, TimesAssumption DEF Sound, Tidy, Tab
      <3> QED BY <2>1, <2>2, <2>6, <3>1, <3>2 DEF Sound, NearExpiry
    <2> QED BY <2>1, <2>2, <2>3, <2>5, <2>6, TabStep
  <1>12. ASSUME NEW t \in Tabs, CallSend(t) PROVE Kept'
    <2>1. tab[t].call = "check" /\ UNCHANGED <<jar, lock, lost, wronged, active>>
      BY <1>12 DEF CallSend
    <2>2. CASE /\ NearExpiry(tab[t]) /\ tab[t].refresh = "none"
               /\ tab' = [tab EXCEPT ![t] = Joined(@)]
      <3> DEFINE b == Joined(tab[t])
      <3>1. /\ b \in Tab
            /\ b.refresh = "waiting" /\ b.user = tab[t].user /\ b.left = tab[t].left
            /\ b.armed = tab[t].armed /\ b.call = tab[t].call
        BY <1>0, <2>2, JoinedType, JoinedFields
      <3>2. tab' = [tab EXCEPT ![t] = b]
        BY <2>2
      <3> HIDE DEF b
      <3>3. Tidy(b)
        BY <1>0, <3>1 DEF Tidy
      <3>4. ASSUME ~lost PROVE Sound(b)
        BY <1>0, <2>2, <3>1, <3>4 DEF Sound, NearExpiry
      <3> QED BY <2>1, <2>2, <3>1, <3>2, <3>3, <3>4, TabStep
    <2>3. CASE tab' = [tab EXCEPT ![t].call = "sent"]
      <3> DEFINE b == [tab[t] EXCEPT !.call = "sent"]
      <3>1. /\ b \in Tab
            /\ b.refresh = tab[t].refresh /\ b.answer = tab[t].answer /\ b.carried = tab[t].carried
            /\ b.call = "sent" /\ b.user = tab[t].user /\ b.armed = tab[t].armed
            /\ b.left = tab[t].left
        BY <1>0 DEF Tab
      <3>2. tab' = [tab EXCEPT ![t] = b]
        BY <2>3
      <3> HIDE DEF b
      <3>3. Tidy(b) /\ (~lost => Sound(b))
        BY <1>0, <2>1, <3>1 DEF Tidy, Sound, NearExpiry
      <3> QED BY <2>1, <3>1, <3>2, <3>3, TabStep
    <2> QED BY <1>12, <2>2, <2>3 DEF CallSend
  <1>13. ASSUME NEW t \in Tabs, CallReply(t) PROVE Kept'
    <2>1. /\ tab[t].call \in {"sent", "again"} /\ tab' = [tab EXCEPT ![t] = Reply(@)]
          /\ UNCHANGED <<jar, lock, lost, wronged, active>>
      BY <1>13 DEF CallReply
    <2> DEFINE b == Reply(tab[t])
    <2>2. b \in Tab
      BY <1>0, ReplyType
    <2>3. tab[t].user # 0
      BY <1>0, <2>1 DEF Tidy
    <2>4. /\ b.answer = tab[t].answer /\ b.carried = tab[t].carried
          /\ b.user = tab[t].user /\ b.armed = tab[t].armed /\ b.left = tab[t].left
          /\ \/ b.refresh = tab[t].refresh
             \/ b.refresh = "waiting" /\ tab[t].refresh = "none" /\ b.call = "denied"
          /\ b.call \in {"none", "denied", "failed"}
          /\ b.call = "failed" => tab[t].call = "again" /\ ~Authorised(tab[t])
          /\ b.call = "denied" => ~Authorised(tab[t])
      <3>1. CASE Authorised(tab[t])
        BY <1>0, <3>1 DEF Reply, Tab
      <3>2. CASE ~Authorised(tab[t]) /\ tab[t].call = "sent"
        <4>1. Joined(tab[t]) \in Tab
          BY <1>0, JoinedType
        <4>2. b = [Joined(tab[t]) EXCEPT !.call = "denied"]
          BY <3>2 DEF Reply
        <4>3. /\ b.call = "denied" /\ b.refresh = Joined(tab[t]).refresh
              /\ b.answer = Joined(tab[t]).answer /\ b.carried = Joined(tab[t]).carried
              /\ b.user = Joined(tab[t]).user /\ b.armed = Joined(tab[t]).armed
              /\ b.left = Joined(tab[t]).left
          <5> HIDE DEF b
          <5> QED BY <4>1, <4>2 DEF Tab
        <4> HIDE DEF b
        <4> QED BY <1>0, <3>2, <4>3, JoinedFields
      <3>3. CASE ~Authorised(tab[t]) /\ tab[t].call = "again"
        BY <1>0, <3>3 DEF Reply, Tab
      <3> QED BY <2>1, <3>1, <3>2, <3>3
    <2>5. tab' = [tab EXCEPT ![t] = b]
      BY <2>1
    <2> HIDE DEF b
    <2>6. Tidy(b)
      BY <1>0, <2>3, <2>4 DEF Tidy
    <2>7. ASSUME ~lost PROVE Sound(b)
      <3>1. Sound(tab[t])
        BY <1>0, <2>7
      <3>2. b.call = "failed" => ~active
        BY <2>4, <3>1 DEF Sound, Authorised
      <3> QED BY <2>4, <3>1, <3>2 DEF Sound, NearExpiry
    <2> QED BY <2>1, <2>2, <2>4, <2>5, <2>6, <2>7, TabStep
  <1>14. CASE (\E f \in Families : ServerEnds(f)) \/ Deactivate \/ UNCHANGED vars
    <2>1. UNCHANGED <<jar, lock, lost, wronged, tab>> /\ (active' => active)
      BY <1>14 DEF ServerEnds, Deactivate, vars
    <2> QED BY <2>1, <1>0 DEF Kept, LockKept, JarFresh, Tidy, Sound, NearExpiry, Shape
  <1>15. CASE Tick
    <2> DEFINE b(u) == [tab[u] EXCEPT !.left = Less(@), !.carried = Later(@)]
    <2>1. /\ \A u \in Tabs : /\ tab'[u] = b(u)
                             /\ ~(tab[u].armed /\ NearExpiry(tab[u]))
                             /\ tab[u].refresh # "answered"
                             /\ ~(tab[u].call = "again" /\ tab[u].left = 1)
          /\ jar' = Later(jar) /\ UNCHANGED <<active, lock, lost, wronged>>
      BY <1>15 DEF Tick
    <2>2. ASSUME NEW u \in Tabs
          PROVE  /\ b(u).refresh = tab[u].refresh /\ b(u).answer = tab[u].answer
                 /\ b(u).carried = Later(tab[u].carried) /\ b(u).left = Less(tab[u].left)
                 /\ b(u).user = tab[u].user /\ b(u).armed = tab[u].armed /\ b(u).call = tab[u].call
      BY <1>0 DEF Tab
    <2> HIDE DEF b
    <2>3. \A k \in Cookies : Unrotated(k) => Unrotated(Later(k))
      BY DEF Unrotated, Later
    <2>4. LockKept'
      BY <2>1, <2>2 DEF Kept, LockKept
    <2>5. ASSUME NEW u \in Tabs PROVE Tidy(tab[u])'
      <3>1. tab[u].left \in Nat /\ Margin \in Nat
        BY <1>0, TimesAssumption DEF Tab
      <3>2. tab[u].armed => Less(tab[u].left) >= Margin
        BY <1>0, <2>1, <3>1 DEF Tidy, NearExpiry, Less
      <3> QED BY <1>0, <2>1, <2>2, <3>2 DEF Tidy
    <2>6. ASSUME ~lost' PROVE JarFresh'
      BY <2>1, <2>3, <2>6 DEF Kept, JarFresh, Shape, Unrotated
    <2>7. ASSUME ~lost', NEW u \in Tabs PROVE Sound(tab[u])'
      <3>1. Sound(tab[u]) /\ tab[u].left \in Nat /\ Margin \in Nat /\ tab[u].carried \in Cookies
        BY <1>0, <2>1, <2>7, TimesAssumption DEF Tab
      <3>2. NearExpiry(tab[u]) => NearExpiry(tab'[u])
        BY <2>1, <2>2, <3>1 DEF NearExpiry, Less
      <3>3. tab[u].call = "again" => Less(tab[u].left) > 0
        BY <2>1, <3>1 DEF Sound, Less
      <3> QED BY <2>1, <2>2, <2>3, <3>1, <3>2, <3>3 DEF Sound, NearExpiry, Unrotated
    <2> QED BY <2>1, <2>4, <2>5, <2>6, <2>7 DEF Kept
  <1> QED
    BY <1>1, <1>2, <1>3, <1>4, <1>5, <1>6, <1>7, <1>8, <1>9, <1>10, <1>11, <1>12, <1>13,
       <1>14, <1>15 DEF Next, Step

LEMMA SpecKept == Spec => [](Shape /\ Kept)
  <1>1. Init => Shape /\ Kept
    BY InitType, InitKept
  <1>2. Shape /\ Kept /\ [Next]_vars => (Shape /\ Kept)'
    BY NextType, NextKept
  <1> QED BY <1>1, <1>2, PTL DEF Spec

\* However many tabs take turns, and whatever they do between their turns, the
\* server never takes a rotation for theft unless an answer or a request was lost.
THEOREM NoTheftWithoutLoss == Spec => []ReuseOnlyAfterLoss
  <1>1. Kept => ReuseOnlyAfterLoss
    BY DEF Kept, ReuseOnlyAfterLoss
  <1> QED BY <1>1, SpecKept, PTL

\* For any margin and life of the access tokens, the timer of a signed-in tab
\* renews its token before it runs out, until something gets lost.
THEOREM AlwaysRenewed == Spec => []RenewedInTime
  <1>1. Shape /\ Kept => RenewedInTime
    <2> SUFFICES ASSUME Shape, Kept, NEW t \in Tabs,
                        tab[t].user # 0, tab[t].refresh = "none", ~lost
                 PROVE  tab[t].left > 0
      BY DEF RenewedInTime
    <2>1. Sound(tab[t]) /\ Tidy(tab[t])
      BY DEF Kept
    <2>2. tab[t].left \in Nat /\ Margin \in Nat \ {0}
      BY TimesAssumption DEF Shape, Tab
    <2> QED BY <2>1, <2>2 DEF Sound, Tidy
  <1> QED BY <1>1, SpecKept, PTL

\* One repetition is enough for every request of a user who is not deactivated,
\* until something gets lost.
THEOREM CallsFailForCause == Spec => []CallFailsForCause
  <1>1. Kept => CallFailsForCause
    BY DEF Kept, Sound, CallFailsForCause
  <1> QED BY <1>1, SpecKept, PTL
=============================================================================
