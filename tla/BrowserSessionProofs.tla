-------------------------- MODULE BrowserSessionProofs --------------------------
(***************************************************************************)
(* Theorems about BrowserSession, for any number of tabs, of sessions, of  *)
(* rotations and of failures.                                              *)
(*                                                                         *)
(* That a used token comes back only after a loss is not inductive.  The   *)
(* invariant that is says where the current token of a session can be: in  *)
(* the cookie, or with the one tab that holds the lock, or in the answer   *)
(* to the sign-in that made the session.                                   *)
(***************************************************************************)
EXTENDS BrowserSession, TLAPS

Carried(t)  == restore[t] # None /\ restore[t].cookie # None
Moving(t)   == restore[t] # None /\ restore[t].stage # "waiting"
Rotating(t, id) == Carried(t) /\ restore[t].stage = "rotated" /\ restore[t].cookie.id = id
Issued(t)   == Asked(t, "login", "served")
Intact(id)  == Live(id) /\ id \notin lost

(* Only the tab with the lock has a refresh on its way or answered. *)
LockInv == \A t \in Tabs : /\ Moving(t) => holder = t
                           /\ Carried(t) => Moving(t) /\ restore[t].stage \in {"sent", "rotated"}

(* What a tab sends or was given is the current token. *)
CarriedInv ==
    \A t \in Tabs : Carried(t) /\ Intact(restore[t].cookie.id)
        => restore[t].cookie.jti = sessions[restore[t].cookie.id].jti

(* The cookie is the current token, or a newer one is on its way to it. *)
CookieInv ==
    cookie # None /\ Intact(cookie.id)
        => \/ cookie.jti = sessions[cookie.id].jti
           \/ \E t \in Tabs : Rotating(t, cookie.id)

(* Nobody else has a token of the session. *)
Unshared(id) ==
    /\ cookie # None => cookie.id # id
    /\ \A t \in Tabs : Carried(t) => restore[t].cookie.id # id
    /\ \A c \in strays : c.id # id

IssuedInv ==
    \A t \in Tabs : Issued(t) =>
        /\ request[t].cookie # None
        /\ request[t].cookie.jti = sessions[request[t].cookie.id].jti
        /\ Unshared(request[t].cookie.id)
        /\ \A r \in Tabs \ {t} : Issued(r) => request[r].cookie.id # request[t].cookie.id

UnusedInv ==
    \A id \in Sessions : sessions[id].state = "none" =>
        /\ Unshared(id)
        /\ \A t \in Tabs : Issued(t) => request[t].cookie.id # id

StraysInv == \A c \in strays : c.id \in lost

TokenInv ==
    /\ LockInv /\ CarriedInv /\ CookieInv
    /\ IssuedInv /\ UnusedInv /\ StraysInv /\ ReuseOnlyAfterLoss

-----------------------------------------------------------------------------
(* The rotation of a token touches one session, its counter only when the   *)
(* token is current and its state only when the token is used.              *)
LEMMA RotatedFacts ==
    ASSUME TypeOK, NEW c \in Cookies \cup {None}
    PROVE  /\ Rotated(c) \in [Sessions -> SessionRow]
           /\ \A id \in Sessions :
                /\ Rotated(c)[id].jti = IF Current(c) /\ c.id = id THEN c.jti + 1 ELSE sessions[id].jti
                /\ Rotated(c)[id].state = IF Reused(c) /\ c.id = id THEN "reuse" ELSE sessions[id].state
  BY BrowserAssumption DEF TypeOK, Rotated, Current, Reused, Live, SessionRow, Cookies

LEMMA RevokedFacts ==
    ASSUME TypeOK, NEW c \in Cookies \cup {None}
    PROVE  /\ Revoked(c) \in [Sessions -> SessionRow]
           /\ \A id \in Sessions :
                /\ Revoked(c)[id].jti = sessions[id].jti
                /\ Revoked(c)[id].state \in {sessions[id].state, "logout"}
                /\ sessions[id].state = "none" <=> Revoked(c)[id].state = "none"
  BY BrowserAssumption DEF TypeOK, Revoked, Live, SessionRow, Cookies

(* An answer that brings a session brings its token. *)
AnsweredInv ==
    \A t \in Tabs :
        /\ restore[t] # None /\ restore[t].stage = "rotated" => restore[t].cookie # None
        /\ Issued(t) => request[t].cookie # None

Typed == TypeOK /\ AnsweredInv

(* Who joins a refresh changes nothing of it but its callers. *)
LEMMA JoinedFacts ==
    ASSUME NEW r \in RestoreRow \cup {None}
    PROVE  /\ Joined(r) \in RestoreRow
           /\ r = None => Joined(r).stage = "waiting" /\ Joined(r).cookie = None
           /\ r # None => Joined(r).stage = r.stage /\ Joined(r).cookie = r.cookie
<1>1. CASE r = None
  BY <1>1, BrowserAssumption DEF Joined, Waiting, RestoreRow
<1>2. CASE r # None
  BY <1>2 DEF Joined, RestoreRow
<1> QED
  BY <1>1, <1>2

(* The initial state is one of the types. *)
LEMMA InitTyped == BrowserInit => Typed
  BY BrowserAssumption DEF BrowserInit, Typed, TypeOK, AnsweredInv, Issued, Asked, SessionRow,
     TabRow, RestoreRow, RequestRow, Loading, Waiting

(* Clearing a session leaves a tab and a channel. *)
LEMMA ClearsTyped ==
    ASSUME TypeOK, NEW t \in Tabs, Clears(t)
    PROVE  tab' \in [Tabs -> TabRow] /\ channel' \in [Tabs -> BOOLEAN]
  BY DEF TypeOK, Clears, SignedOut, TabRow

(* Every action keeps the types. *)
LEMMA StepTyped == Typed /\ [BrowserNext]_vars => TypeOK'
<1> SUFFICES ASSUME Typed, [BrowserNext]_vars PROVE TypeOK'
  OBVIOUS
<1> USE BrowserAssumption DEF Typed, TypeOK
<1>1. ASSUME NEW t \in Tabs, Renews(t) PROVE TypeOK'
  BY <1>1, JoinedFacts DEF Renews
<1>2. ASSUME NEW t \in Tabs, AcquireLock(t) PROVE TypeOK'
  <2>1. restore[t] \in RestoreRow
    BY <1>2 DEF AcquireLock
  <2>2. restore' \in [Tabs -> RestoreRow \cup {None}]
    BY <1>2, <2>1 DEF AcquireLock, RestoreRow
  <2> QED
    BY <1>2, <2>2 DEF AcquireLock
<1>3. ASSUME NEW t \in Tabs, Restored(t) PROVE TypeOK'
  <2>1. restore[t].cookie \in Cookies /\ restore[t].cookie.id \in Sessions
    BY <1>3 DEF Restored, AnsweredInv, RestoreRow, Cookies
  <2>2. SignedIn(restore[t].cookie.id) \in TabRow
    BY <2>1 DEF SignedIn, TabRow
  <2>3. tab' \in [Tabs -> TabRow] /\ retry' \in [Tabs -> Sessions \cup {None}]
    BY <1>3, <2>1, <2>2 DEF Restored
  <2> QED
    BY <1>3, <2>1, <2>3 DEF Restored, Release
<1>4. ASSUME NEW t \in Tabs, NotRestored(t) PROVE TypeOK'
  <2>1. SignedOut \in TabRow
    BY DEF SignedOut, TabRow
  <2>2. tab' \in [Tabs -> TabRow] /\ channel' \in [Tabs -> BOOLEAN]
    BY <1>4, <2>1, ClearsTyped DEF NotRestored
  <2> QED
    BY <1>4, <2>2 DEF NotRestored, Release
<1>5. ASSUME NEW t \in Tabs, RetryEnds(t) PROVE TypeOK'
  <2>1. tab' \in [Tabs -> TabRow] /\ channel' \in [Tabs -> BOOLEAN]
    BY <1>5, ClearsTyped DEF RetryEnds
  <2>2. trouble' \in Nat
    BY <1>5 DEF RetryEnds
  <2> QED
    BY <1>5, <2>1, <2>2 DEF RetryEnds
<1>6. ASSUME NEW t \in Tabs, NEW k \in {"login", "logout"}, Submits(t, k) PROVE TypeOK'
  BY <1>6 DEF Submits, RequestRow
<1>7. ASSUME NEW t \in Tabs, LoginAnswered(t) PROVE TypeOK'
  <2>1. request[t].cookie \in Cookies /\ request[t].cookie.id \in Sessions
    BY <1>7 DEF LoginAnswered, AnsweredInv, Issued, Asked, RequestRow, Cookies
  <2>2. SignedIn(request[t].cookie.id) \in TabRow
    BY <2>1 DEF SignedIn, TabRow
  <2> QED
    BY <1>7, <2>1, <2>2 DEF LoginAnswered
<1>8. ASSUME NEW t \in Tabs, LogoutAnswered(t) PROVE TypeOK'
  BY <1>8, ClearsTyped DEF LogoutAnswered
<1>9. ASSUME NEW t \in Tabs, SessionEndedArrives(t) PROVE TypeOK'
  BY <1>9 DEF SessionEndedArrives, SignedOut, TabRow
<1>10. ASSUME NEW t \in Tabs, Reload(t) PROVE TypeOK'
  BY <1>10 DEF Reload, Carries, Sent, Loading, Waiting, TabRow, RestoreRow, Cookies
<1>11. ASSUME NEW t \in Tabs, ServeRefresh(t) PROVE TypeOK'
  <2> DEFINE c == restore[t].cookie
  <2>1. restore[t] \in RestoreRow /\ c \in Cookies \cup {None}
    BY <1>11 DEF ServeRefresh, Sent, RestoreRow
  <2>2. sessions' \in [Sessions -> SessionRow]
    BY <1>11, <2>1, RotatedFacts DEF ServeRefresh
  <2>3. CASE Current(c)
    <3>1. [id |-> c.id, jti |-> c.jti + 1] \in Cookies
      BY <2>1, <2>3 DEF Current, Cookies
    <3>2. restore' = [restore EXCEPT ![t].stage = "rotated", ![t].cookie = [id |-> c.id, jti |-> c.jti + 1]]
      BY <1>11, <2>3 DEF ServeRefresh
    <3>3. restore' \in [Tabs -> RestoreRow \cup {None}]
      BY <3>1, <3>2, <2>1 DEF RestoreRow
    <3> QED
      BY <1>11, <2>2, <3>3 DEF ServeRefresh
  <2>4. CASE ~Current(c)
    <3>1. restore' = [restore EXCEPT ![t].stage = "refused", ![t].cookie = None]
      BY <1>11, <2>4 DEF ServeRefresh
    <3>2. restore' \in [Tabs -> RestoreRow \cup {None}]
      BY <3>1, <2>1 DEF RestoreRow
    <3> QED
      BY <1>11, <2>2, <3>2 DEF ServeRefresh
  <2> QED
    BY <2>3, <2>4
<1>12. ASSUME NEW t \in Tabs, LoseRefresh(t) PROVE TypeOK'
  <2>1. restore[t] \in RestoreRow /\ restore[t].cookie \in Cookies \cup {None}
    BY <1>12 DEF LoseRefresh, Sent, RestoreRow
  <2>2. sessions' \in [Sessions -> SessionRow] /\ lost' \subseteq Sessions
    BY <1>12, <2>1, RotatedFacts DEF LoseRefresh, Cookies
  <2>3. restore' \in [Tabs -> RestoreRow \cup {None}]
    BY <1>12, <2>1 DEF LoseRefresh, RestoreRow
  <2> QED
    BY <1>12, <2>2, <2>3 DEF LoseRefresh
<1>13. ASSUME NEW t \in Tabs, ServeLogin(t) PROVE TypeOK'
  <2>1. request[t] \in RequestRow
    BY <1>13 DEF ServeLogin, Asked
  <2>2. PICK id \in Sessions :
          /\ sessions' = [sessions EXCEPT ![id] = [jti |-> 1, state |-> "live"]]
          /\ request' = [request EXCEPT ![t].stage = "served", ![t].cookie = [id |-> id, jti |-> 1]]
    BY <1>13 DEF ServeLogin
  <2>3. [id |-> id, jti |-> 1] \in Cookies /\ [jti |-> 1, state |-> "live"] \in SessionRow
    BY DEF Cookies, SessionRow
  <2>4. request' \in [Tabs -> RequestRow \cup {None}]
    BY <2>1, <2>2, <2>3 DEF RequestRow
  <2> QED
    BY <1>13, <2>2, <2>3, <2>4 DEF ServeLogin
<1>14. ASSUME NEW t \in Tabs, ServeLogout(t) PROVE TypeOK'
  <2>1. request[t] \in RequestRow /\ request[t].cookie \in Cookies \cup {None}
    BY <1>14 DEF ServeLogout, Asked, RequestRow
  <2>2. sessions' \in [Sessions -> SessionRow]
    BY <1>14, <2>1, RevokedFacts DEF ServeLogout
  <2>3. request' \in [Tabs -> RequestRow \cup {None}]
    BY <1>14, <2>1 DEF ServeLogout, RequestRow
  <2> QED
    BY <1>14, <2>2, <2>3 DEF ServeLogout
<1>15. ASSUME NEW t \in Tabs, LoseRequest(t) PROVE TypeOK'
  BY <1>15 DEF LoseRequest
<1>16. ASSUME NEW c \in strays, StrayServed(c) PROVE TypeOK'
  BY <1>16, RotatedFacts DEF StrayServed
<1>17. ASSUME UNCHANGED vars PROVE TypeOK'
  BY <1>17 DEF vars
<1> QED
  BY <1>1, <1>2, <1>3, <1>4, <1>5, <1>6, <1>7, <1>8, <1>9, <1>10, <1>11, <1>12, <1>13, <1>14,
     <1>15, <1>16, <1>17
     DEF BrowserNext, Network, TokenExpires, PollRefused, SubmitLogin, SubmitLogout

(* Only the backend, serving a refresh or a sign-in, makes such an answer. *)
LEMMA StepAnswered == Typed /\ [BrowserNext]_vars => AnsweredInv'
<1> SUFFICES ASSUME Typed, [BrowserNext]_vars, NEW t \in Tabs
             PROVE  /\ (restore[t] # None /\ restore[t].stage = "rotated" => restore[t].cookie # None)'
                    /\ (Issued(t) => request[t].cookie # None)'
  BY DEF AnsweredInv
<1> USE BrowserAssumption DEF Typed, TypeOK, AnsweredInv, Issued, Asked
<1>1. ASSUME NEW r \in Tabs, Renews(r)
      PROVE  (restore[t] # None /\ restore[t].stage = "rotated" => restore[t].cookie # None)'
  <2>1. Joined(restore[r]) \in RestoreRow
    BY JoinedFacts
  <2>2. restore'[t] = IF t = r THEN Joined(restore[r]) ELSE restore[t]
    BY <1>1 DEF Renews
  <2> QED
    BY <1>1, <2>1, <2>2, JoinedFacts
<1>2. ASSUME NEW r \in Tabs, AcquireLock(r)
      PROVE  (restore[t] # None /\ restore[t].stage = "rotated" => restore[t].cookie # None)'
  BY <1>2 DEF AcquireLock, RestoreRow
<1>3. ASSUME NEW r \in Tabs, ServeRefresh(r)
      PROVE  (restore[t] # None /\ restore[t].stage = "rotated" => restore[t].cookie # None)'
  <2>1. restore[r] \in RestoreRow
    BY <1>3 DEF ServeRefresh, Sent
  <2>2. CASE Current(restore[r].cookie)
    <3>1. [id |-> restore[r].cookie.id, jti |-> restore[r].cookie.jti + 1] \in Cookies
      BY <2>1, <2>2 DEF Current, RestoreRow, Cookies
    <3> QED
      BY <1>3, <2>1, <2>2, <3>1 DEF ServeRefresh, RestoreRow
  <2>3. CASE ~Current(restore[r].cookie)
    BY <1>3, <2>1, <2>3 DEF ServeRefresh, RestoreRow
  <2> QED
    BY <2>2, <2>3
<1>4. ASSUME NEW r \in Tabs, LoseRefresh(r)
      PROVE  (restore[t] # None /\ restore[t].stage = "rotated" => restore[t].cookie # None)'
  BY <1>4 DEF LoseRefresh, Sent, RestoreRow
<1>5. ASSUME NEW r \in Tabs, Restored(r) \/ NotRestored(r)
      PROVE  (restore[t] # None /\ restore[t].stage = "rotated" => restore[t].cookie # None)'
  BY <1>5 DEF Restored, NotRestored, Release
<1>6. ASSUME NEW r \in Tabs, Reload(r)
      PROVE  (restore[t] # None /\ restore[t].stage = "rotated" => restore[t].cookie # None)'
  BY <1>6 DEF Reload, Waiting
<1>7. ASSUME NEW r \in Tabs, NEW k \in {"login", "logout"}, Submits(r, k)
      PROVE  (Issued(t) => request[t].cookie # None)'
  BY <1>7 DEF Submits, RequestRow
<1>8. ASSUME NEW r \in Tabs, ServeLogin(r)
      PROVE  (Issued(t) => request[t].cookie # None)'
  <2>1. request[r] \in RequestRow
    BY <1>8 DEF ServeLogin
  <2>2. PICK id \in Sessions :
          request' = [request EXCEPT ![r].stage = "served", ![r].cookie = [id |-> id, jti |-> 1]]
    BY <1>8 DEF ServeLogin
  <2>3. [id |-> id, jti |-> 1] \in Cookies
    BY DEF Cookies
  <2> QED
    BY <2>1, <2>2, <2>3 DEF RequestRow
<1>9. ASSUME NEW r \in Tabs, ServeLogout(r)
      PROVE  (Issued(t) => request[t].cookie # None)'
  BY <1>9 DEF ServeLogout, RequestRow
<1>10. ASSUME NEW r \in Tabs, LoginAnswered(r) \/ LogoutAnswered(r) \/ LoseRequest(r) \/ Reload(r)
      PROVE  (Issued(t) => request[t].cookie # None)'
  BY <1>10 DEF LoginAnswered, LogoutAnswered, LoseRequest, Reload
<1>11. /\ restore' = restore => (restore[t] # None /\ restore[t].stage = "rotated" => restore[t].cookie # None)'
       /\ request' = request => (Issued(t) => request[t].cookie # None)'
  OBVIOUS
<1>12. CASE \E r \in Tabs : Renews(r)
  BY <1>12, <1>1, <1>11 DEF Renews
<1>13. CASE \E r \in Tabs : AcquireLock(r)
  BY <1>13, <1>2, <1>11 DEF AcquireLock
<1>14. CASE \E r \in Tabs : ServeRefresh(r)
  BY <1>14, <1>3, <1>11 DEF ServeRefresh
<1>15. CASE \E r \in Tabs : LoseRefresh(r)
  BY <1>15, <1>4, <1>11 DEF LoseRefresh
<1>16. CASE \E r \in Tabs : Restored(r) \/ NotRestored(r)
  BY <1>16, <1>5, <1>11 DEF Restored, NotRestored
<1>17. CASE \E r \in Tabs : Reload(r)
  BY <1>17, <1>6, <1>10
<1>18. CASE \E r \in Tabs : \E k \in {"login", "logout"} : Submits(r, k)
  BY <1>18, <1>7, <1>11 DEF Submits
<1>19. CASE \E r \in Tabs : ServeLogin(r)
  BY <1>19, <1>8, <1>11 DEF ServeLogin
<1>20. CASE \E r \in Tabs : ServeLogout(r)
  BY <1>20, <1>9, <1>11 DEF ServeLogout
<1>21. CASE \E r \in Tabs : LoginAnswered(r) \/ LogoutAnswered(r) \/ LoseRequest(r)
  BY <1>21, <1>10, <1>11 DEF LoginAnswered, LogoutAnswered, LoseRequest
<1>22. CASE \/ \E r \in Tabs : RetryEnds(r) \/ SessionEndedArrives(r)
            \/ \E c \in strays : StrayServed(c)
            \/ UNCHANGED vars
  BY <1>22, <1>11 DEF RetryEnds, SessionEndedArrives, StrayServed, vars
<1> QED
  BY <1>12, <1>13, <1>14, <1>15, <1>16, <1>17, <1>18, <1>19, <1>20, <1>21, <1>22
     DEF BrowserNext, Network, TokenExpires, PollRefused, SubmitLogin, SubmitLogout

(* Every reachable state of the browser is one of the types of the code. *)
THEOREM SessionTypes == BrowserSpec => []TypeOK
<1>1. BrowserInit => Typed
  BY InitTyped
<1>2. Typed /\ [BrowserNext]_vars => Typed'
  BY StepTyped, StepAnswered DEF Typed
<1>3. Typed => TypeOK
  BY DEF Typed
<1> QED
  BY <1>1, <1>2, <1>3, PTL DEF BrowserSpec
-----------------------------------------------------------------------------
(* Nothing has a token at the start. *)
LEMMA InitTokens == BrowserInit => TokenInv
  BY BrowserAssumption DEF BrowserInit, TokenInv, LockInv, CarriedInv, CookieInv, IssuedInv,
     UnusedInv, StraysInv, ReuseOnlyAfterLoss, Carried, Moving, Issued, Asked, Unshared, Intact,
     Live, Waiting

(* A step that moves no token keeps the invariant. *)
LEMMA TokensRest ==
    ASSUME TokenInv,
           UNCHANGED <<sessions, cookie, holder, strays, lost>>,
           \A t \in Tabs :
             /\ (Carried(t)' <=> Carried(t)) /\ (Moving(t)' <=> Moving(t))
             /\ Carried(t) => /\ restore[t].cookie' = restore[t].cookie
                              /\ restore[t].stage' = restore[t].stage
             /\ Issued(t)' => Issued(t) /\ request'[t] = request[t]
    PROVE  TokenInv'
<1>1. LockInv'
  BY DEF TokenInv, LockInv
<1>2. CarriedInv'
  BY DEF TokenInv, CarriedInv, Intact, Live
<1>3. CookieInv'
  BY DEF TokenInv, CookieInv, Intact, Live, Rotating
<1>4. \A id : Unshared(id) => Unshared(id)'
  BY DEF Unshared
<1>5. IssuedInv'
  BY <1>4 DEF TokenInv, IssuedInv
<1>6. UnusedInv'
  BY <1>4 DEF TokenInv, UnusedInv
<1> QED
  BY <1>1, <1>2, <1>3, <1>5, <1>6 DEF TokenInv, StraysInv, ReuseOnlyAfterLoss

(* The tabs' own steps: no token moves. *)
LEMMA QuietSteps ==
    ASSUME Typed, TokenInv, NEW t \in Tabs,
           \/ Renews(t) \/ RetryEnds(t) \/ LoseRequest(t) \/ SessionEndedArrives(t)
           \/ \E k \in {"login", "logout"} : Submits(t, k)
    PROVE  TokenInv'
<1> USE BrowserAssumption DEF Typed, TypeOK
<1>1. CASE Renews(t)
  <2>1. \A r \in Tabs : r # t => restore'[r] = restore[r]
    BY <1>1 DEF Renews
  <2>2. restore'[t] = Joined(restore[t])
    BY <1>1 DEF Renews
  <2> QED
    BY <1>1, <2>1, <2>2, JoinedFacts, TokensRest DEF Renews, Carried, Moving, Issued, Asked
<1>2. CASE RetryEnds(t) \/ SessionEndedArrives(t)
  BY <1>2, TokensRest DEF RetryEnds, SessionEndedArrives, Carried, Moving, Issued, Asked
<1>3. CASE LoseRequest(t)
  BY <1>3, TokensRest DEF LoseRequest, Carried, Moving, Issued, Asked
<1>4. ASSUME NEW k \in {"login", "logout"}, Submits(t, k) PROVE TokenInv'
  BY <1>4, TokensRest DEF Submits, Carried, Moving, Issued, Asked
<1> QED
  BY <1>1, <1>2, <1>3, <1>4

LEMMA AcquireLockKeeps ==
    ASSUME Typed, Typed', TokenInv, NEW t \in Tabs, AcquireLock(t)
    PROVE  TokenInv'
<1> USE BrowserAssumption DEF Typed, TypeOK, AnsweredInv, TokenInv
<1>1. LockInv'
  BY DEF AcquireLock, LockInv, Carried, Moving, RestoreRow, Cookies
<1>2. CarriedInv'
  BY SMTT(20) DEF AcquireLock, CarriedInv, LockInv, Carried, Moving, Intact, Live, RestoreRow,
     Cookies
<1>3. CookieInv'
  BY DEF AcquireLock, CookieInv, LockInv, Carried, Moving, Rotating, Intact, Live,
     RestoreRow, Cookies
<1>4. IssuedInv'
  BY SMTT(20) DEF AcquireLock, IssuedInv, UnusedInv, Issued, Asked, Unshared, Carried, RestoreRow,
     Cookies
<1>5. UnusedInv'
  BY DEF AcquireLock, UnusedInv, IssuedInv, Issued, Asked, Unshared, Carried, RestoreRow,
     Cookies
<1>6. StraysInv'
  BY DEF AcquireLock, StraysInv, RestoreRow, Cookies
<1>7. ReuseOnlyAfterLoss'
  BY DEF AcquireLock, ReuseOnlyAfterLoss, RestoreRow, Cookies
<1> QED
  BY <1>1, <1>2, <1>3, <1>4, <1>5, <1>6, <1>7

LEMMA LoseRefreshKeeps ==
    ASSUME Typed, Typed', TokenInv, NEW t \in Tabs, LoseRefresh(t)
    PROVE  TokenInv'
<1> USE BrowserAssumption DEF Typed, TypeOK, AnsweredInv, TokenInv
<1>1. LockInv'
  BY DEF LoseRefresh, LockInv, Carried, Moving, Sent, RestoreRow, Cookies
<1>2. CarriedInv'
  BY DEF LoseRefresh, CarriedInv, LockInv, Carried, Moving, Intact, Live, Sent, RestoreRow,
     Cookies
<1>3. CookieInv'
  BY DEF LoseRefresh, CookieInv, LockInv, Carried, Moving, Rotating, Intact, Live, Sent,
     RestoreRow, Cookies
<1>4. IssuedInv'
  BY DEF LoseRefresh, IssuedInv, UnusedInv, Issued, Asked, Unshared, Carried, Sent,
     RestoreRow, Cookies
<1>5. UnusedInv'
  BY DEF LoseRefresh, UnusedInv, IssuedInv, Issued, Asked, Unshared, Carried, Sent,
     RestoreRow, Cookies
<1>6. StraysInv'
  BY DEF LoseRefresh, StraysInv, Sent, RestoreRow, Cookies
<1>7. ReuseOnlyAfterLoss'
  BY DEF LoseRefresh, ReuseOnlyAfterLoss, Sent, RestoreRow, Cookies, Carried, LockInv,
     CarriedInv, Intact, Live
<1> QED
  BY <1>1, <1>2, <1>3, <1>4, <1>5, <1>6, <1>7

LEMMA ServeRefreshKeeps ==
    ASSUME Typed, Typed', TokenInv, NEW t \in Tabs, ServeRefresh(t)
    PROVE  TokenInv'
<1> DEFINE c == restore[t].cookie
<1> USE BrowserAssumption DEF Typed, TypeOK, AnsweredInv, TokenInv
<1>1. /\ restore[t] \in RestoreRow /\ restore[t].stage = "sent" /\ c \in Cookies \cup {None}
      /\ \A r \in Tabs : r # t => restore'[r] = restore[r]
      /\ UNCHANGED <<cookie, holder, request, strays, lost>>
      /\ sessions' = Rotated(c)
  BY DEF ServeRefresh, Sent, RestoreRow
<1>2. \A id \in Sessions :
        /\ sessions'[id].jti = IF Current(c) /\ c.id = id THEN c.jti + 1 ELSE sessions[id].jti
        /\ sessions'[id].state = IF Reused(c) /\ c.id = id THEN "reuse" ELSE sessions[id].state
  BY <1>1, RotatedFacts
<1>3. holder = t /\ \A r \in Tabs : r # t => ~Moving(r) /\ ~Carried(r)
  BY <1>1 DEF LockInv, Moving
<1>4. \A r \in Tabs : r # t => ~Moving(r)' /\ ~Carried(r)'
  BY <1>1, <1>3 DEF Moving, Carried
<1> HIDE DEF c
<1>5. CASE Current(c)
  <2>1. /\ restore'[t].stage = "rotated" /\ restore'[t].cookie.id = c.id
        /\ restore'[t].cookie.jti = c.jti + 1 /\ restore'[t].cookie # None /\ restore'[t] # None
    BY <1>1, <1>5, SMTT(20) DEF ServeRefresh, RestoreRow, c, Cookies
  <2>2. c \in Cookies /\ Live(c.id) /\ sessions'[c.id].jti = c.jti + 1 /\ Carried(t) /\ ~Reused(c)
    BY <1>1, <1>2, <1>5 DEF Current, Reused, Cookies, Carried, c, Sent
  <2>3. \A id \in Sessions : /\ sessions'[id].state = sessions[id].state
                             /\ id # c.id => sessions'[id].jti = sessions[id].jti
    BY <1>2, <2>2
  <2>4. LockInv'
    BY <1>1, <1>3, <1>4, <2>1, <2>2, <2>3 DEF LockInv, Carried, Moving
  <2>5. CarriedInv'
    BY <1>1, <1>3, <1>4, <2>1, <2>2, <2>3 DEF CarriedInv, Carried, Moving, Intact, Live, Cookies, c
  <2>6. CookieInv'
    BY <1>1, <1>3, <1>4, <2>1, <2>2, <2>3 DEF CookieInv, Rotating, Carried, Moving, Intact, Live, Cookies, c
  <2>7. IssuedInv'
    <3> SUFFICES ASSUME NEW r \in Tabs, Issued(r)'
                 PROVE  /\ (request[r].cookie.jti = sessions[request[r].cookie.id].jti)'
                        /\ Unshared(request[r].cookie.id)'
                        /\ \A u \in Tabs \ {r} : Issued(u)' => (request[u].cookie.id # request[r].cookie.id)'
      BY DEF IssuedInv
    <3>1. /\ request' = request /\ Issued(r) /\ request[r].cookie # None
          /\ request[r].cookie \in Cookies /\ request[r].cookie.id \in Sessions
      BY <1>1 DEF Issued, Asked, RequestRow, Cookies
    <3>2. /\ request[r].cookie.jti = sessions[request[r].cookie.id].jti
          /\ Unshared(request[r].cookie.id)
          /\ \A u \in Tabs \ {r} : Issued(u) => request[u].cookie.id # request[r].cookie.id
      BY <3>1 DEF IssuedInv
    <3>3. Unshared(request[r].cookie.id)'
      BY <1>1, <1>3, <1>4, <2>1, <2>2, <2>3, <3>1, <3>2 DEF Unshared, Carried, c
    <3> QED
      BY <1>1, <1>3, <1>4, <2>1, <2>2, <2>3, <3>1, <3>2, <3>3, SMTT(20) DEF Unshared, Issued, Asked, c
  <2>8. UnusedInv'
    BY <1>1, <1>3, <1>4, <2>1, <2>2, <2>3 DEF UnusedInv, Unshared, Issued, Asked, Carried, Live, c
  <2>9. StraysInv'
    BY <1>1, <1>3, <1>4, <2>1, <2>2, <2>3 DEF StraysInv
  <2>10. ReuseOnlyAfterLoss'
    BY <1>1, <1>3, <1>4, <2>1, <2>2, <2>3 DEF ReuseOnlyAfterLoss
  <2> QED
    BY <2>4, <2>5, <2>6, <2>7, <2>8, <2>9, <2>10
<1>6. CASE ~Current(c)
  <2>1. restore'[t].stage = "refused" /\ restore'[t].cookie = None
    BY <1>1, <1>6 DEF ServeRefresh, RestoreRow, c
  <2>2. Reused(c) => /\ c \in Cookies /\ Live(c.id) /\ Carried(t) /\ c.jti # sessions[c.id].jti
                     /\ c.id \in lost
    BY <1>1 DEF Reused, Carried, CarriedInv, Intact, c
  <2>3. \A id \in Sessions : /\ sessions'[id].jti = sessions[id].jti
                             /\ sessions'[id].state \in {sessions[id].state, "reuse"}
                             /\ sessions'[id].state = "none" <=> sessions[id].state = "none"
                             /\ sessions'[id].state # sessions[id].state => id \in lost
    BY <1>2, <1>6, <2>2 DEF Live
  <2>4. LockInv'
    BY <1>1, <1>3, <1>4, <2>1, <2>3 DEF LockInv, Carried, Moving
  <2>5. CarriedInv'
    BY <1>1, <1>3, <1>4, <2>1, <2>3 DEF CarriedInv, Carried, Moving, Intact, Live, Cookies, c
  <2>6. CookieInv'
    BY <1>1, <1>3, <1>4, <2>1, <2>3 DEF CookieInv, Rotating, Carried, Moving, Intact, Live, Cookies, c
  <2>7. IssuedInv'
    <3> SUFFICES ASSUME NEW r \in Tabs, Issued(r)'
                 PROVE  /\ (request[r].cookie.jti = sessions[request[r].cookie.id].jti)'
                        /\ Unshared(request[r].cookie.id)'
                        /\ \A u \in Tabs \ {r} : Issued(u)' => (request[u].cookie.id # request[r].cookie.id)'
      BY DEF IssuedInv
    <3>1. /\ request' = request /\ Issued(r) /\ request[r].cookie # None
          /\ request[r].cookie \in Cookies /\ request[r].cookie.id \in Sessions
      BY <1>1 DEF Issued, Asked, RequestRow, Cookies
    <3>2. /\ request[r].cookie.jti = sessions[request[r].cookie.id].jti
          /\ Unshared(request[r].cookie.id)
          /\ \A u \in Tabs \ {r} : Issued(u) => request[u].cookie.id # request[r].cookie.id
      BY <3>1 DEF IssuedInv
    <3>3. Unshared(request[r].cookie.id)'
      BY <1>1, <1>3, <1>4, <2>1, <2>3, <3>1, <3>2 DEF Unshared, Carried, c
    <3> QED
      BY <1>1, <1>3, <1>4, <2>1, <2>3, <3>1, <3>2, <3>3 DEF Unshared, Issued, Asked, c
  <2>8. UnusedInv'
    BY <1>1, <1>3, <1>4, <2>1, <2>3 DEF UnusedInv, Unshared, Issued, Asked, Carried, Live, c
  <2>9. StraysInv'
    BY <1>1, <1>3, <1>4, <2>1, <2>3 DEF StraysInv
  <2>10. ReuseOnlyAfterLoss'
    BY <1>1, <1>3, <1>4, <2>1, <2>3 DEF ReuseOnlyAfterLoss
  <2> QED
    BY <2>4, <2>5, <2>6, <2>7, <2>8, <2>9, <2>10
<1> QED
  BY <1>5, <1>6

LEMMA RestoredKeeps ==
    ASSUME Typed, Typed', TokenInv, NEW t \in Tabs, Restored(t)
    PROVE  TokenInv'
<1> USE BrowserAssumption DEF Typed, TypeOK, AnsweredInv, TokenInv
<1>1. LockInv'
  BY DEF Restored, LockInv, Carried, Moving, Release, RestoreRow, Cookies
<1>2. CarriedInv'
  BY DEF Restored, CarriedInv, LockInv, Carried, Moving, Intact, Live, Release, RestoreRow,
     Cookies
<1>3. CookieInv'
  BY DEF Restored, CookieInv, LockInv, Carried, Moving, Rotating, Intact, Live, Release,
     RestoreRow, Cookies, CarriedInv
<1>4. IssuedInv'
  BY DEF Restored, IssuedInv, UnusedInv, Issued, Asked, Unshared, Carried, Release,
     RestoreRow, Cookies
<1>5. UnusedInv'
  BY DEF Restored, UnusedInv, IssuedInv, Issued, Asked, Unshared, Carried, Release,
     RestoreRow, Cookies
<1>6. StraysInv'
  BY DEF Restored, StraysInv, Release, RestoreRow, Cookies
<1>7. ReuseOnlyAfterLoss'
  BY DEF Restored, ReuseOnlyAfterLoss, Release, RestoreRow, Cookies
<1> QED
  BY <1>1, <1>2, <1>3, <1>4, <1>5, <1>6, <1>7

LEMMA NotRestoredKeeps ==
    ASSUME Typed, Typed', TokenInv, NEW t \in Tabs, NotRestored(t)
    PROVE  TokenInv'
<1> USE BrowserAssumption DEF Typed, TypeOK, AnsweredInv, TokenInv
<1>1. LockInv'
  BY DEF NotRestored, LockInv, Carried, Moving, Release, RestoreRow
<1>2. CarriedInv'
  BY DEF NotRestored, CarriedInv, LockInv, Carried, Moving, Intact, Live, Release,
     RestoreRow
<1>3. CookieInv'
  BY DEF NotRestored, CookieInv, LockInv, Carried, Moving, Rotating, Intact, Live, Release,
     RestoreRow
<1>4. IssuedInv'
  BY DEF NotRestored, IssuedInv, UnusedInv, Issued, Asked, Unshared, Carried, Release,
     RestoreRow
<1>5. UnusedInv'
  BY DEF NotRestored, UnusedInv, IssuedInv, Issued, Asked, Unshared, Carried, Release,
     RestoreRow
<1>6. StraysInv'
  BY DEF NotRestored, StraysInv, Release, RestoreRow
<1>7. ReuseOnlyAfterLoss'
  BY DEF NotRestored, ReuseOnlyAfterLoss, Release, RestoreRow
<1> QED
  BY <1>1, <1>2, <1>3, <1>4, <1>5, <1>6, <1>7

LEMMA LoginAnsweredKeeps ==
    ASSUME Typed, Typed', TokenInv, NEW t \in Tabs, LoginAnswered(t)
    PROVE  TokenInv'
<1> USE BrowserAssumption DEF Typed, TypeOK, AnsweredInv, TokenInv
<1>1. LockInv'
  BY DEF LoginAnswered, LockInv, Carried, Moving, RequestRow, Cookies
<1>2. CarriedInv'
  BY DEF LoginAnswered, CarriedInv, LockInv, Carried, Moving, Intact, Live, RequestRow,
     Cookies
<1>3. CookieInv'
  BY DEF LoginAnswered, CookieInv, LockInv, Carried, Moving, Rotating, Intact, Live,
     RequestRow, Cookies, IssuedInv, Issued, Asked
<1>4. IssuedInv'
  BY DEF LoginAnswered, IssuedInv, UnusedInv, Issued, Asked, Unshared, Carried, RequestRow,
     Cookies
<1>5. UnusedInv'
  BY DEF LoginAnswered, UnusedInv, IssuedInv, Issued, Asked, Unshared, Carried, RequestRow,
     Cookies
<1>6. StraysInv'
  BY DEF LoginAnswered, StraysInv, RequestRow, Cookies
<1>7. ReuseOnlyAfterLoss'
  BY DEF LoginAnswered, ReuseOnlyAfterLoss, RequestRow, Cookies
<1> QED
  BY <1>1, <1>2, <1>3, <1>4, <1>5, <1>6, <1>7

LEMMA LogoutAnsweredKeeps ==
    ASSUME Typed, Typed', TokenInv, NEW t \in Tabs, LogoutAnswered(t)
    PROVE  TokenInv'
<1> USE BrowserAssumption DEF Typed, TypeOK, AnsweredInv, TokenInv
<1>1. LockInv'
  BY DEF LogoutAnswered, LockInv, Carried, Moving
<1>2. CarriedInv'
  BY DEF LogoutAnswered, CarriedInv, LockInv, Carried, Moving, Intact, Live
<1>3. CookieInv'
  BY DEF LogoutAnswered, CookieInv, LockInv, Carried, Moving, Rotating, Intact, Live
<1>4. IssuedInv'
  BY DEF LogoutAnswered, IssuedInv, UnusedInv, Issued, Asked, Unshared, Carried
<1>5. UnusedInv'
  BY DEF LogoutAnswered, UnusedInv, IssuedInv, Issued, Asked, Unshared, Carried
<1>6. StraysInv'
  BY DEF LogoutAnswered, StraysInv
<1>7. ReuseOnlyAfterLoss'
  BY DEF LogoutAnswered, ReuseOnlyAfterLoss
<1> QED
  BY <1>1, <1>2, <1>3, <1>4, <1>5, <1>6, <1>7

LEMMA ServeLoginKeeps ==
    ASSUME Typed, Typed', TokenInv, NEW t \in Tabs, ServeLogin(t)
    PROVE  TokenInv'
<1> USE BrowserAssumption DEF Typed, TypeOK, AnsweredInv, TokenInv
<1>1. LockInv'
  BY DEF ServeLogin, LockInv, Carried, Moving, RequestRow, RestoreRow, Cookies, SessionRow
<1>2. CarriedInv'
  <2>1. PICK id \in Sessions :
          /\ sessions[id].state = "none"
          /\ sessions' = [sessions EXCEPT ![id] = [jti |-> 1, state |-> "live"]]
          /\ UNCHANGED <<restore, lost>>
    BY DEF ServeLogin
  <2>2. \A r \in Tabs : Carried(r) => restore[r].cookie.id # id /\ restore[r].cookie.id \in Sessions
    BY <2>1 DEF UnusedInv, Unshared, Carried, RestoreRow, Cookies
  <2> QED
    BY <2>1, <2>2 DEF CarriedInv, Carried, Intact, Live
<1>3. CookieInv'
  BY DEF ServeLogin, CookieInv, UnusedInv, Unshared, Carried, Rotating, Intact, Live,
     RestoreRow, Cookies, SessionRow
<1>4. IssuedInv'
  BY SMTT(20) DEF ServeLogin, IssuedInv, UnusedInv, Issued, Asked, Unshared, Carried, RequestRow,
     RestoreRow, Cookies, SessionRow
<1>5. UnusedInv'
  BY DEF ServeLogin, UnusedInv, IssuedInv, Issued, Asked, Unshared, Carried, RequestRow,
     RestoreRow, Cookies, SessionRow
<1>6. StraysInv'
  BY DEF ServeLogin, StraysInv, RequestRow, RestoreRow, Cookies, SessionRow
<1>7. ReuseOnlyAfterLoss'
  BY DEF ServeLogin, ReuseOnlyAfterLoss, RequestRow, RestoreRow, Cookies, SessionRow
<1> QED
  BY <1>1, <1>2, <1>3, <1>4, <1>5, <1>6, <1>7

LEMMA ServeLogoutKeeps ==
    ASSUME Typed, Typed', TokenInv, NEW t \in Tabs, ServeLogout(t)
    PROVE  TokenInv'
<1> USE BrowserAssumption DEF Typed, TypeOK, AnsweredInv, TokenInv
<1>1. /\ request[t].cookie \in Cookies \cup {None} /\ ~Issued(t) /\ ~Issued(t)'
      /\ \A r \in Tabs : r # t => request'[r] = request[r]
      /\ UNCHANGED <<cookie, holder, restore, strays, lost>>
  BY DEF ServeLogout, Asked, Issued, RequestRow
<1>2. \A id \in Sessions :
        /\ sessions'[id].jti = sessions[id].jti
        /\ sessions'[id].state \in {sessions[id].state, "logout"}
        /\ sessions[id].state = "none" <=> sessions'[id].state = "none"
  BY <1>1, RevokedFacts DEF ServeLogout
<1>3. \A id \in Sessions : Unshared(id) => Unshared(id)'
  BY <1>1 DEF Unshared, Carried
<1>4. LockInv'
  BY <1>1, <1>2, <1>3 DEF LockInv, Carried, Moving
<1>5. CarriedInv'
  BY <1>1, <1>2, <1>3 DEF CarriedInv, Carried, Intact, Live, Cookies, RestoreRow
<1>6. CookieInv'
  BY <1>1, <1>2, <1>3 DEF CookieInv, Rotating, Carried, Intact, Live, Cookies
<1>7. IssuedInv'
  <2> SUFFICES ASSUME NEW r \in Tabs, Issued(r)'
               PROVE  /\ (request[r].cookie.jti = sessions[request[r].cookie.id].jti)'
                      /\ Unshared(request[r].cookie.id)'
                      /\ \A u \in Tabs \ {r} : Issued(u)' => (request[u].cookie.id # request[r].cookie.id)'
    BY DEF IssuedInv
  <2>1. r # t /\ request'[r] = request[r] /\ Issued(r)
    BY <1>1 DEF Issued, Asked
  <2>2. /\ request[r].cookie \in Cookies /\ request[r].cookie.id \in Sessions
        /\ request[r].cookie.jti = sessions[request[r].cookie.id].jti
        /\ Unshared(request[r].cookie.id)
        /\ \A u \in Tabs \ {r} : Issued(u) => request[u].cookie.id # request[r].cookie.id
    BY <2>1 DEF IssuedInv, Issued, Asked, RequestRow, Cookies
  <2>3. \A u \in Tabs \ {r} : Issued(u)' => (request[u].cookie.id # request[r].cookie.id)'
    BY <1>1, <2>1, <2>2 DEF Issued, Asked
  <2> QED
    BY <1>2, <1>3, <2>1, <2>2, <2>3
<1>8. UnusedInv'
  BY <1>1, <1>2, <1>3 DEF UnusedInv, Issued, Asked
<1>9. StraysInv'
  BY <1>1, <1>2, <1>3 DEF StraysInv
<1>10. ReuseOnlyAfterLoss'
  BY <1>1, <1>2, <1>3 DEF ReuseOnlyAfterLoss
<1> QED
  BY <1>4, <1>5, <1>6, <1>7, <1>8, <1>9, <1>10

LEMMA ReloadKeeps ==
    ASSUME Typed, Typed', TokenInv, NEW t \in Tabs, Reload(t)
    PROVE  TokenInv'
<1> USE BrowserAssumption DEF Typed, TypeOK, AnsweredInv, TokenInv
<1>1. LockInv'
  BY DEF Reload, LockInv, Carried, Moving, Carries, Sent, Waiting, RestoreRow, Cookies
<1>2. CarriedInv'
  BY DEF Reload, CarriedInv, LockInv, Carried, Moving, Intact, Live, Carries, Sent, Waiting,
     RestoreRow, Cookies
<1>3. CookieInv'
  BY DEF Reload, CookieInv, LockInv, Carried, Moving, Rotating, Intact, Live, Carries, Sent,
     Waiting, RestoreRow, Cookies
<1>4. IssuedInv'
  BY DEF Reload, IssuedInv, UnusedInv, Issued, Asked, Unshared, Carried, Carries, Sent,
     Waiting, RestoreRow, Cookies
<1>5. UnusedInv'
  BY DEF Reload, UnusedInv, IssuedInv, Issued, Asked, Unshared, Carried, Carries, Sent,
     Waiting, RestoreRow, Cookies
<1>6. StraysInv'
  BY DEF Reload, StraysInv, Carries, Sent, Waiting, RestoreRow, Cookies
<1>7. ReuseOnlyAfterLoss'
  BY DEF Reload, ReuseOnlyAfterLoss, Carries, Sent, Waiting, RestoreRow, Cookies
<1> QED
  BY <1>1, <1>2, <1>3, <1>4, <1>5, <1>6, <1>7

LEMMA StrayServedKeeps ==
    ASSUME Typed, Typed', TokenInv, NEW c \in strays, StrayServed(c)
    PROVE  TokenInv'
<1> USE BrowserAssumption DEF Typed, TypeOK, AnsweredInv, TokenInv
<1>1. /\ c \in Cookies /\ c.id \in lost /\ c.id \in Sessions
      /\ UNCHANGED <<cookie, holder, restore, request, lost>> /\ strays' \subseteq strays
  BY DEF StrayServed, StraysInv, Cookies
<1>2. \A id \in Sessions :
        /\ id # c.id => sessions'[id] = sessions[id]
        /\ sessions'[id].state = "none" <=> sessions[id].state = "none"
        /\ sessions'[id].state # sessions[id].state => id \in lost
        /\ Live(id)' => Live(id)
  BY <1>1 DEF StrayServed, Rotated, Current, Reused, Live, SessionRow
<1>3. LockInv'
  BY <1>1 DEF LockInv, Carried, Moving
<1>4. CarriedInv'
  BY <1>1, <1>2 DEF CarriedInv, Carried, Intact, RestoreRow, Cookies
<1>5. CookieInv'
  BY <1>1, <1>2 DEF CookieInv, Rotating, Carried, Intact, Cookies
<1>6. \A id : Unshared(id) => Unshared(id)' /\ id # c.id
  BY <1>1 DEF Unshared, Carried
<1>7. IssuedInv'
  <2> SUFFICES ASSUME NEW r \in Tabs, Issued(r)'
               PROVE  /\ (request[r].cookie.jti = sessions[request[r].cookie.id].jti)'
                      /\ Unshared(request[r].cookie.id)'
                      /\ \A u \in Tabs \ {r} : Issued(u)' => (request[u].cookie.id # request[r].cookie.id)'
    BY DEF IssuedInv
  <2>1. Issued(r)
    BY <1>1 DEF Issued, Asked
  <2>2. /\ request[r].cookie.id \in Sessions
        /\ request[r].cookie.jti = sessions[request[r].cookie.id].jti
        /\ Unshared(request[r].cookie.id)
        /\ \A u \in Tabs \ {r} : Issued(u) => request[u].cookie.id # request[r].cookie.id
    BY <2>1 DEF IssuedInv, Issued, Asked, RequestRow, Cookies
  <2>3. \A u \in Tabs \ {r} : Issued(u)' => (request[u].cookie.id # request[r].cookie.id)'
    BY <1>1, <2>2 DEF Issued, Asked
  <2> QED
    BY <1>1, <1>2, <1>6, <2>2, <2>3
<1>8. UnusedInv'
  BY <1>1, <1>2, <1>6 DEF UnusedInv, Issued, Asked
<1>9. StraysInv' /\ ReuseOnlyAfterLoss'
  BY <1>1, <1>2 DEF StraysInv, ReuseOnlyAfterLoss
<1> QED
  BY <1>3, <1>4, <1>5, <1>7, <1>8, <1>9

LEMMA StepTokens == Typed /\ Typed' /\ TokenInv /\ [BrowserNext]_vars => TokenInv'
<1> SUFFICES ASSUME Typed, Typed', TokenInv, [BrowserNext]_vars PROVE TokenInv'
  OBVIOUS
<1>1. ASSUME NEW t \in Tabs,
             \/ TokenExpires(t) \/ PollRefused(t) \/ RetryEnds(t) \/ SubmitLogin(t)
             \/ SubmitLogout(t) \/ SessionEndedArrives(t) \/ LoseRequest(t)
      PROVE  TokenInv'
  BY <1>1, QuietSteps DEF TokenExpires, PollRefused, SubmitLogin, SubmitLogout
<1>2. ASSUME NEW t \in Tabs,
             \/ AcquireLock(t) \/ Restored(t) \/ NotRestored(t) \/ LoginAnswered(t)
             \/ LogoutAnswered(t) \/ Reload(t)
      PROVE  TokenInv'
  BY <1>2, AcquireLockKeeps, RestoredKeeps, NotRestoredKeeps, LoginAnsweredKeeps,
     LogoutAnsweredKeeps, ReloadKeeps
<1>3. ASSUME NEW t \in Tabs,
             ServeRefresh(t) \/ LoseRefresh(t) \/ ServeLogin(t) \/ ServeLogout(t)
      PROVE  TokenInv'
  BY <1>3, ServeRefreshKeeps, LoseRefreshKeeps, ServeLoginKeeps, ServeLogoutKeeps
<1>4. ASSUME NEW c \in strays, StrayServed(c) PROVE TokenInv'
  BY <1>4, StrayServedKeeps
<1>5. CASE UNCHANGED vars
  BY <1>5, TokensRest DEF vars, Carried, Moving, Issued, Asked
<1> QED
  BY <1>1, <1>2, <1>3, <1>4, <1>5 DEF BrowserNext, Network

(* The lock of performSessionRestore does its work in any number of tabs:   *)
(* the backend sees a used refresh token, and revokes the session for it,   *)
(* only when the answer with the new one never reached the browser.         *)
THEOREM ReuseNeedsALoss == BrowserSpec => []ReuseOnlyAfterLoss
<1>1. BrowserInit => Typed /\ TokenInv
  BY InitTyped, InitTokens
<1>2. Typed /\ TokenInv /\ [BrowserNext]_vars => Typed' /\ TokenInv'
  <2>1. Typed /\ [BrowserNext]_vars => Typed'
    BY StepTyped, StepAnswered DEF Typed
  <2> QED
    BY <2>1, StepTokens
<1>3. TokenInv => ReuseOnlyAfterLoss
  BY DEF TokenInv
<1> QED
  BY <1>1, <1>2, <1>3, PTL DEF BrowserSpec
=============================================================================
