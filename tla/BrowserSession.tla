--------------------------- MODULE BrowserSession ---------------------------
(***************************************************************************)
(* A browser signed in to the dashboard: the session that auth.js keeps in  *)
(* each tab, the refresh the tabs take turns for, and the requests of       *)
(* api.js.  Tabs share the refresh cookie and the Web Lock "att-refresh",   *)
(* nothing else.  The server is the rotation of api/app/auth/sessions.py as *)
(* the browser meets it (Sessions models it for its own sake).  Time is     *)
(* counted down in minutes.                                                 *)
(***************************************************************************)
EXTENDS Integers, FiniteSets

CONSTANTS
  Tabs,
  Families,     \* sign-ins, numbered from 1; bounds how many there are
  Ttl,          \* life of an access token
  Margin,       \* refreshed when no more than this is left: 60000 ms
  NoToken, Free

ASSUME TimesAssumption == Margin \in Nat \ {0} /\ Ttl \in Nat /\ Ttl > Margin
ASSUME FamiliesAssumption == 1 \in Families /\ Families \subseteq Nat \ {0} /\ Free \notin Tabs

\* live: the token of the family that can be rotated; previous: the one rotated
\* for it, seconds ago, which the server still answers (grace); used: older.
Token == [family : Families, status : {"live", "previous", "used"}]
ASSUME NoTokenAssumption == NoToken \notin Token

VARIABLES
  jar,          \* the refresh cookie of the browser
  family,       \* server: "unused", "live" or "ended"
  active,       \* server: users.is_active
  lock,         \* who holds the Web Lock
  lost,         \* history: a request or an answer got lost, in part or by a reload
  wronged,      \* history: reuse detection ended a live family though nothing was lost
  tab

vars == <<jar, family, active, lock, lost, wronged, tab>>

\* What a refresh comes back with: the family signed in, or 0; the cookie set.
NoAnswer == [family |-> 0, cookie |-> NoToken]

\* user: the family whose user is shown, 0 for null; left: the life of the
\* access token; armed: refreshTimer is set; refresh, carried, answer:
\* refreshPromise; out: a logout is under way; call: a request of apiFetch.
SignedOut ==
  [booting |-> FALSE, user |-> 0, left |-> 0, armed |-> FALSE,
   refresh |-> "none", carried |-> NoToken, answer |-> NoAnswer, out |-> FALSE, call |-> "none"]

\* A page that opens starts bootSession.
Opening == [SignedOut EXCEPT !.booting = TRUE, !.refresh = "waiting"]

Init ==
  /\ jar \in {NoToken, [family |-> 1, status |-> "live"]}
  /\ family = [f \in Families |-> IF jar # NoToken /\ f = 1 THEN "live" ELSE "unused"]
  /\ active = TRUE /\ lock = Free /\ lost = FALSE /\ wronged = FALSE
  /\ tab = [t \in Tabs |-> Opening]

----------------------------------------------------------------------------
(* auth.js: the session of a tab *)

\* setSession: the refresh timer is set for the new token.
WrongSetSession(b, f) == [b EXCEPT !.user = f, !.left = Ttl]
SetSession(b, f) == [b EXCEPT !.user = f, !.left = Ttl, !.armed = TRUE]

\* clearSession; App goes to the login page, and nobody waits for a call.
ClearSession(b) == [b EXCEPT !.user = 0, !.left = 0, !.armed = FALSE, !.call = "none"]

NearExpiry(b) == b.user # 0 /\ b.left <= Margin

\* refreshSession: one promise per tab, which waits for its turn.
Joined(b) == IF b.refresh = "none" THEN [b EXCEPT !.refresh = "waiting"] ELSE b

\* The timer, or a tab that comes to the front close to expiry.
TimerFires(t) ==
  /\ tab[t].armed /\ NearExpiry(tab[t])
  /\ tab' = [tab EXCEPT ![t] = [Joined(@) EXCEPT !.armed = FALSE]]
  /\ UNCHANGED <<jar, family, active, lock, lost, wronged>>

Focus(t) ==
  /\ NearExpiry(tab[t]) /\ tab[t].refresh = "none"
  /\ tab' = [tab EXCEPT ![t] = Joined(@)]
  /\ UNCHANGED <<jar, family, active, lock, lost, wronged>>

\* withRefreshLock.
WrongLockOpen(t) == TRUE
LockOpen(t) == lock = Free

\* Inside the lock: nothing to do if the token has become fresh meanwhile,
\* otherwise POST /auth/refresh with whatever cookie there is.
RefreshTurn(t) ==
  /\ tab[t].refresh = "waiting" /\ LockOpen(t)
  /\ IF tab[t].user # 0 /\ ~NearExpiry(tab[t])
     THEN /\ tab' = [tab EXCEPT ![t].refresh = "none", ![t].booting = FALSE]
          /\ UNCHANGED lock
     ELSE /\ lock' = t
          /\ tab' = [tab EXCEPT ![t].refresh = "sent", ![t].carried = jar]
  /\ UNCHANGED <<jar, family, active, lost, wronged>>

\* Everybody who holds a token of family f, as the server sees it after a rotation.
Aged(k, f) ==
  IF k = NoToken \/ k.family # f THEN k
  ELSE [k EXCEPT !.status = IF @ = "live" THEN "previous" ELSE "used"]
HeldAfter(b, f) == [b EXCEPT !.carried = Aged(@, f), !.answer.cookie = Aged(@, f)]

Denied(t) == tab' = [tab EXCEPT ![t].refresh = "answered", ![t].carried = NoToken, ![t].answer = NoAnswer]

\* rotate_session: a 401 carries no cookie, and neither does an answer in grace.
ServeRefresh(t) ==
  LET k == tab[t].carried
      f == k.family
      Answer(b, cookie) == [b EXCEPT !.refresh = "answered", !.carried = NoToken,
                                     !.answer = [family |-> f, cookie |-> cookie]]
  IN
  /\ tab[t].refresh = "sent"
  /\ \/ /\ k = NoToken
        /\ Denied(t) /\ UNCHANGED <<jar, family, wronged>>
     \/ /\ k # NoToken /\ (~active \/ family[f] = "ended")
        /\ family' = [family EXCEPT ![f] = "ended"]
        /\ Denied(t) /\ UNCHANGED <<jar, wronged>>
     \/ /\ k # NoToken /\ active /\ family[f] = "live" /\ k.status = "live"
        /\ jar' = Aged(jar, f)
        /\ tab' = [u \in Tabs |->
                     IF u = t THEN Answer(tab[t], [family |-> f, status |-> "live"])
                     ELSE HeldAfter(tab[u], f)]
        /\ UNCHANGED <<family, wronged>>
     \/ /\ k # NoToken /\ active /\ family[f] = "live" /\ k.status = "previous"
        /\ tab' = [tab EXCEPT ![t] = Answer(@, NoToken)]
        /\ UNCHANGED <<jar, family, wronged>>
     \/ /\ k # NoToken /\ active /\ family[f] = "live" /\ k.status = "used"
        /\ family' = [family EXCEPT ![f] = "ended"]
        /\ wronged' = (wronged \/ ~lost)
        /\ Denied(t) /\ UNCHANGED jar
  /\ UNCHANGED <<active, lock, lost>>

\* refreshPromise is settled and the lock given back.
Settled(b) == [b EXCEPT !.refresh = "none", !.answer = NoAnswer, !.booting = FALSE]

WrongRefreshed(b) ==
  IF b.answer.family # 0 THEN Settled(SetSession(b, b.answer.family)) ELSE Settled(b)
Refreshed(b) ==
  IF b.answer.family # 0 THEN Settled(SetSession(b, b.answer.family))
  ELSE Settled(ClearSession(b))

RefreshAnswer(t) ==
  /\ tab[t].refresh = "answered"
  /\ jar' = IF tab[t].answer.cookie = NoToken THEN jar ELSE tab[t].answer.cookie
  /\ tab' = [tab EXCEPT ![t] = Refreshed(@)]
  /\ lock' = IF lock = t THEN Free ELSE lock
  /\ UNCHANGED <<family, active, lost, wronged>>

\* fetch rejects, before or after the server acted: the promise rejects, the
\* session stays as it is, the timer is not set again.  Boot has no handler for
\* it and stays on "Signing in...".  A call that waits for it fails.
RefreshLost(t) ==
  /\ tab[t].refresh \in {"sent", "answered"}
  /\ tab' = [tab EXCEPT ![t].refresh = "none", ![t].carried = NoToken, ![t].answer = NoAnswer,
                        ![t].call = IF @ = "denied" \/ (@ = "check" /\ NearExpiry(tab[t]))
                                     THEN "failed" ELSE @]
  /\ lock' = IF lock = t THEN Free ELSE lock
  /\ lost' = TRUE
  /\ UNCHANGED <<jar, family, active, wronged>>

----------------------------------------------------------------------------
(* Signing in and out *)

\* loginEmail; the page is LoginPage.jsx.  Neither takes the lock.
Login(t, f) ==
  /\ ~tab[t].booting /\ tab[t].user = 0 /\ active
  /\ family[f] = "unused"
  /\ family' = [family EXCEPT ![f] = "live"]
  /\ jar' = [family |-> f, status |-> "live"]
  /\ tab' = [tab EXCEPT ![t] = SetSession(@, f)]
  /\ UNCHANGED <<active, lock, lost, wronged>>

\* signOut: the server ends the family of the cookie, ...
Logout(t) ==
  /\ tab[t].user # 0 /\ ~tab[t].out
  /\ family' = IF jar = NoToken THEN family ELSE [family EXCEPT ![jar.family] = "ended"]
  /\ tab' = [tab EXCEPT ![t].out = TRUE]
  /\ UNCHANGED <<jar, active, lock, lost, wronged>>

\* ... and with its answer the cookie goes and the tab forgets the session.
LogoutAnswer(t) ==
  /\ tab[t].out
  /\ jar' = NoToken
  /\ tab' = [tab EXCEPT ![t] = [ClearSession(@) EXCEPT !.out = FALSE]]
  /\ UNCHANGED <<family, active, lock, lost, wronged>>

\* "local logout still succeeds", and leaves the cookie.
LogoutLost(t) ==
  /\ tab[t].user # 0 /\ ~tab[t].out
  /\ tab' = [tab EXCEPT ![t] = ClearSession(@)]
  /\ lost' = TRUE
  /\ UNCHANGED <<jar, family, active, lock, wronged>>

\* A password reset, or the caps of the family, end it; an administrator
\* deactivates the user.
ServerEnds(f) ==
  /\ family[f] = "live"
  /\ family' = [family EXCEPT ![f] = "ended"]
  /\ UNCHANGED <<jar, active, lock, lost, wronged, tab>>

Deactivate ==
  /\ active
  /\ active' = FALSE
  /\ family' = [f \in Families |-> IF family[f] = "live" THEN "ended" ELSE family[f]]
  /\ UNCHANGED <<jar, lock, lost, wronged, tab>>

\* The idle timer of App.jsx: handleLogout is local, no request, the cookie stays.
IdleOut(t) ==
  /\ tab[t].user # 0
  /\ tab' = [tab EXCEPT ![t] = ClearSession(@)]
  /\ UNCHANGED <<jar, family, active, lock, lost, wronged>>

\* Reloading the page forgets everything it knew; the browser gives the lock
\* back.  An answer of a refresh in flight is nobody's any more.
Reload(t) ==
  /\ tab' = [tab EXCEPT ![t] = Opening]
  /\ lock' = IF lock = t THEN Free ELSE lock
  /\ lost' = (lost \/ tab[t].refresh \in {"sent", "answered"})
  /\ UNCHANGED <<jar, family, active, wronged>>

----------------------------------------------------------------------------
(* apiFetch *)

Call(t) ==
  /\ tab[t].user # 0 /\ tab[t].call \in {"none", "failed"}
  /\ tab' = [tab EXCEPT ![t].call = "check"]
  /\ UNCHANGED <<jar, family, active, lock, lost, wronged>>

\* A token close to its end is refreshed first.
CallSend(t) ==
  /\ tab[t].call = "check"
  /\ \/ NearExpiry(tab[t]) /\ tab[t].refresh = "none" /\ tab' = [tab EXCEPT ![t] = Joined(@)]
     \/ ~NearExpiry(tab[t]) /\ tab' = [tab EXCEPT ![t].call = "sent"]
  /\ UNCHANGED <<jar, family, active, lock, lost, wronged>>

\* current_user on the server: it does not look at the family.
Authorised(b) == active /\ b.left > 0

\* A 401 is followed by refreshSession and one more attempt.
WrongReply(b) == [b EXCEPT !.call = IF Authorised(b) THEN "none" ELSE "failed"]
Reply(b) ==
  CASE Authorised(b) -> [b EXCEPT !.call = "none"]
    [] ~Authorised(b) /\ b.call = "sent" -> [Joined(b) EXCEPT !.call = "denied"]
    [] OTHER -> [b EXCEPT !.call = "failed"]

CallReply(t) ==
  /\ tab[t].call \in {"sent", "again"}
  /\ tab' = [tab EXCEPT ![t] = Reply(@)]
  /\ UNCHANGED <<jar, family, active, lock, lost, wronged>>

\* The refresh brought a token, or found the one there still fresh.
CallAgain(t) ==
  /\ tab[t].call = "denied" /\ tab[t].refresh = "none"
  /\ tab' = [tab EXCEPT ![t].call = "again"]
  /\ UNCHANGED <<jar, family, active, lock, lost, wronged>>

CallLost(t) ==
  /\ tab[t].call \in {"sent", "again"}
  /\ tab' = [tab EXCEPT ![t].call = "failed"]
  /\ lost' = TRUE
  /\ UNCHANGED <<jar, family, active, lock, wronged>>

----------------------------------------------------------------------------
(* Time *)

Less(n) == IF n > 0 THEN n - 1 ELSE 0
Later(k) == IF k # NoToken /\ k.status = "previous" THEN [k EXCEPT !.status = "used"] ELSE k

\* A minute passes, which is more than the grace of a rotation (10 s).  Timers
\* are on time; an answer on its way back takes less than a minute, a
\* repeated request less than its token lasts, a first request any time.
Tick ==
  /\ \A t \in Tabs : /\ ~(tab[t].armed /\ NearExpiry(tab[t]))
                     /\ tab[t].refresh # "answered"
                     /\ ~(tab[t].call = "again" /\ tab[t].left = 1)
  /\ jar' = Later(jar)
  /\ tab' = [t \in Tabs |->
       [tab[t] EXCEPT !.left = Less(@), !.carried = Later(@)]]
  /\ UNCHANGED <<family, active, lock, lost, wronged>>

Step(t) ==
  \/ TimerFires(t) \/ Focus(t) \/ RefreshTurn(t) \/ ServeRefresh(t) \/ RefreshAnswer(t)
  \/ RefreshLost(t) \/ (\E f \in Families : Login(t, f)) \/ Logout(t) \/ LogoutAnswer(t)
  \/ LogoutLost(t) \/ Reload(t) \/ IdleOut(t) \/ Call(t) \/ CallSend(t)
  \/ CallReply(t) \/ CallAgain(t) \/ CallLost(t)

Next == (\E t \in Tabs : Step(t)) \/ (\E f \in Families : ServerEnds(f)) \/ Deactivate \/ Tick

Spec == Init /\ [][Next]_vars
\* The server and the network get round to everything that is not lost, timers
\* fire and time passes; Web Locks are handed out in order of request.
Fairness ==
  /\ SF_vars(Tick)
  /\ \A t \in Tabs :
       /\ SF_vars(RefreshTurn(t))
       /\ WF_vars(TimerFires(t) \/ ServeRefresh(t) \/ RefreshAnswer(t))
       /\ WF_vars(CallReply(t))

FairSpec == Spec /\ Fairness

----------------------------------------------------------------------------
(* Properties *)

TypeOK ==
  /\ jar \in Token \cup {NoToken}
  /\ family \in [Families -> {"unused", "live", "ended"}]
  /\ active \in BOOLEAN /\ lost \in BOOLEAN /\ wronged \in BOOLEAN
  /\ lock \in Tabs \cup {Free}
  /\ tab \in [Tabs ->
       [booting : BOOLEAN, user : Families \cup {0}, left : 0 .. Ttl, armed : BOOLEAN,
        refresh : {"none", "waiting", "sent", "answered"}, carried : Token \cup {NoToken},
        answer : [family : Families \cup {0}, cookie : Token \cup {NoToken}], out : BOOLEAN,
        call : {"none", "check", "sent", "denied", "again", "failed"}]]

\* The tabs never race for the cookie: the server takes a reused token for
\* theft and ends the family of a signed-in user only if an answer that carried
\* a new cookie got lost (or the page was reloaded before it came).
ReuseOnlyAfterLoss == ~wronged

\* While nothing gets lost a signed-in tab never runs out of its access token,
\* unless its refresh is on the way: each session sets the timer for the next.
RenewedInTime ==
  \A t \in Tabs : tab[t].user # 0 /\ tab[t].refresh = "none" => lost \/ tab[t].left > 0

\* A request fails only if something got lost or the user was deactivated: a
\* token that ran out on the way is renewed and the request repeated, once.
CallFailsForCause ==
  \A t \in Tabs : tab[t].call = "failed" => lost \/ ~active

Unsettled(t) ==
  tab[t].booting \/ (tab[t].user # 0 /\ family[tab[t].user] = "ended")

\* A tab does not stay between signed in and signed out, whatever the other
\* tabs do with the lock and the cookie: "Signing in..." comes to an end, and a
\* user whose family has ended (signed out in another tab, password reset,
\* reuse, deactivation) is no longer shown.
SessionsSettle == \A t \in Tabs : Unsettled(t) ~> (~Unsettled(t) \/ lost)
=============================================================================
