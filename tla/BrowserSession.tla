---------------------------- MODULE BrowserSession ----------------------------
(***************************************************************************)
(* The tabs of one browser and the session they share.                     *)
(*                                                                         *)
(* Every tab keeps an access token in memory; the refresh token is one     *)
(* cookie of the browser.  A refresh rotates it, and the backend revokes   *)
(* the whole session when an already rotated token comes back, so the tabs *)
(* take turns under a Web Lock.  A tab refreshes when it is loaded and     *)
(* when the backend refuses its access token; within a tab the callers of  *)
(* refresh share one request.  Signing in and out take no lock.  The tab   *)
(* that ends a session tells the others over a BroadcastChannel.           *)
(*                                                                         *)
(* Bounds: MaxSessions sign-ins that succeed; MaxTokens rotations after    *)
(* which nothing expires and nothing is reloaded; MaxTrouble failures of   *)
(* the network and reloads of a tab.                                       *)
(***************************************************************************)
EXTENDS Integers, FiniteSets

CONSTANTS Tabs, MaxSessions, None, MaxTokens, MaxTrouble

Sessions == 1..MaxSessions

SessionRow == [jti : Nat, state : {"none", "live", "reuse", "logout"}]
Cookies    == [id : Sessions, jti : Nat]
TabRow     == [status : {"initializing", "in", "out"}, token : Sessions \cup {None}]
RestoreRow == [stage : {"waiting", "sent", "rotated", "refused", "failed"},
               callers : SUBSET {"mount", "poll"}, cookie : Cookies \cup {None}]
RequestRow == [kind : {"login", "logout"}, stage : {"sent", "served"}, cookie : Cookies \cup {None}]

ASSUME BrowserAssumption ==
    /\ None \notin Tabs \cup Nat
    /\ None \notin Cookies \cup RestoreRow \cup RequestRow
    /\ MaxSessions \in Nat
    /\ MaxTokens \in Nat /\ MaxTrouble \in Nat

VARIABLES
    sessions,   \* the backend's sessions: the current refresh token, and how it ended
    cookie,     \* the refresh cookie of the browser
    holder,     \* the tab that holds the lock "teed-session-refresh"
    tab,        \* what a tab has in memory
    restore,    \* the refresh a tab is waiting for
    retry,      \* the token with which withToken repeats its operation after a refresh
    request,    \* the sign-in or sign-out a tab is waiting for
    channel,    \* whether a "session-ended" message is on its way to a tab
    strays,     \* refreshes whose tab is gone and that the backend has yet to serve
    lost,       \* sessions a refresh of which never got its answer to the browser
    trouble     \* failures of the network and reloads so far

vars == <<sessions, cookie, holder, tab, restore, retry, request, channel,
          strays, lost, trouble>>

Live(id) == sessions[id].state = "live"

(* A tab without an account; a page that has just been loaded. *)
SignedOut  == [status |-> "out", token |-> None]
SignedIn(id) == [status |-> "in", token |-> id]
Loading    == [status |-> "initializing", token |-> None]
Waiting(callers) == [stage |-> "waiting", callers |-> callers, cookie |-> None]

BrowserInit ==
    /\ sessions = [id \in Sessions |-> [jti |-> 0, state |-> "none"]]
    /\ cookie = None
    /\ holder = None
    /\ tab = [t \in Tabs |-> Loading]
    /\ restore = [t \in Tabs |-> Waiting({"mount"})]
    /\ retry = [t \in Tabs |-> None]
    /\ request = [t \in Tabs |-> None]
    /\ channel = [t \in Tabs |-> FALSE]
    /\ strays = {}
    /\ lost = {}
    /\ trouble = 0

Room == \A id \in Sessions : sessions[id].jti < MaxTokens

-----------------------------------------------------------------------------
(* The backend. *)

(* rotate_refresh_token: the current token is replaced, a used one ends the *)
(* session.                                                                 *)
Current(c) == c # None /\ Live(c.id) /\ c.jti = sessions[c.id].jti
Reused(c)  == c # None /\ Live(c.id) /\ c.jti # sessions[c.id].jti

Rotated(c) ==
    IF Current(c) THEN [sessions EXCEPT ![c.id].jti = @ + 1]
    ELSE IF Reused(c) THEN [sessions EXCEPT ![c.id].state = "reuse"]
    ELSE sessions

(* revoke_refresh_session: any token of a session, used or not, ends it. *)
Revoked(c) ==
    IF c # None /\ Live(c.id) THEN [sessions EXCEPT ![c.id].state = "logout"] ELSE sessions

-----------------------------------------------------------------------------
(* restoreSession, and who waits for it *)

(* withToken joins the refresh under way in its tab, or starts one, when the *)
(* backend refuses the access token: it ran out, or its session is revoked   *)
(* (every signed-in page polls).                                             *)
Joined(r) == IF r = None THEN Waiting({"poll"}) ELSE [r EXCEPT !.callers = @ \cup {"poll"}]

Renews(t) ==
    /\ tab[t].status = "in" /\ retry[t] = None
    /\ restore[t] # None => "poll" \notin restore[t].callers
    /\ restore' = [restore EXCEPT ![t] = Joined(@)]
    /\ UNCHANGED <<sessions, cookie, holder, tab, retry, request, channel, strays, lost, trouble>>

TokenExpires(t) == Room /\ tab[t].status = "in" /\ Live(tab[t].token) /\ Renews(t)
PollRefused(t)  == tab[t].status = "in" /\ ~Live(tab[t].token) /\ Renews(t)

\* Fault: without navigator.locks every tab refreshes at once.
AcquireAnyway(t) ==
    /\ restore[t] # None /\ restore[t].stage = "waiting"
    /\ holder' = t
    /\ restore' = [restore EXCEPT ![t].stage = "sent", ![t].cookie = cookie]
    /\ UNCHANGED <<sessions, cookie, tab, retry, request, channel, strays, lost, trouble>>

(* The lock is granted, and the request leaves with the cookie of the moment. *)
AcquireLock(t) ==
    /\ restore[t] # None /\ restore[t].stage = "waiting"
    /\ holder = None
    /\ holder' = t
    /\ restore' = [restore EXCEPT ![t].stage = "sent", ![t].cookie = cookie]
    /\ UNCHANGED <<sessions, cookie, tab, retry, request, channel, strays, lost, trouble>>

Sent(t) == restore[t] # None /\ restore[t].stage = "sent"

ServeRefresh(t) ==
    /\ Sent(t)
    /\ LET c == restore[t].cookie IN
       /\ sessions' = Rotated(c)
       /\ restore' = [restore EXCEPT
            ![t].stage = IF Current(c) THEN "rotated" ELSE "refused",
            ![t].cookie = IF Current(c) THEN [id |-> c.id, jti |-> c.jti + 1] ELSE None]
    /\ UNCHANGED <<cookie, holder, tab, retry, request, channel, strays, lost, trouble>>

(* The network fails on the way there, or after the backend served it. *)
LoseRefresh(t) ==
    /\ Sent(t)
    /\ trouble < MaxTrouble
    /\ trouble' = trouble + 1
    /\ LET c == restore[t].cookie IN
       \/ UNCHANGED <<sessions, lost>>
       \/ c # None /\ sessions' = Rotated(c) /\ lost' = lost \cup {c.id}
    /\ restore' = [restore EXCEPT ![t].stage = "failed", ![t].cookie = None]
    /\ UNCHANGED <<cookie, holder, tab, retry, request, channel, strays>>

(* clearSession: this tab forgets its account and tells every tab, itself *)
(* included.                                                              *)
Clears(t) ==
    /\ tab' = [tab EXCEPT ![t] = SignedOut]
    /\ channel' = [r \in Tabs |-> TRUE]

\* Fault: the lock is kept.
KeepLock(t) == restore' = [restore EXCEPT ![t] = None] /\ UNCHANGED holder

(* The end of a refresh: the lock is given up, and the cookie of the answer *)
(* is the browser's.                                                        *)
Release(t) ==
    /\ holder' = None
    /\ restore' = [restore EXCEPT ![t] = None]

Restored(t) ==
    /\ restore[t] # None /\ restore[t].stage = "rotated"
    /\ Release(t)
    /\ cookie' = restore[t].cookie
    /\ tab' = [tab EXCEPT ![t] = SignedIn(restore[t].cookie.id)]
    /\ retry' = [retry EXCEPT ![t] =
         IF "poll" \in restore[t].callers THEN restore[t].cookie.id ELSE None]
    /\ UNCHANGED <<sessions, request, channel, strays, lost, trouble>>

\* Fault: a refused poll leaves the account on screen.
NotRestoredQuietly(t) ==
    /\ restore[t] # None /\ restore[t].stage \in {"refused", "failed"}
    /\ Release(t)
    /\ tab' = IF "mount" \in restore[t].callers THEN [tab EXCEPT ![t] = SignedOut] ELSE tab
    /\ UNCHANGED <<sessions, cookie, retry, request, channel, strays, lost, trouble>>

(* The load of a page forgets the account quietly.  withToken ends the      *)
(* session of every tab when the refresh is refused; that of the inbox and  *)
(* of the security pages does so whatever went wrong.                       *)
NotRestored(t) ==
    /\ restore[t] # None /\ restore[t].stage \in {"refused", "failed"}
    /\ Release(t)
    /\ \/ "poll" \in restore[t].callers /\ Clears(t)
       \/ /\ "poll" \in restore[t].callers => restore[t].stage = "failed"
          /\ tab' = IF "mount" \in restore[t].callers THEN [tab EXCEPT ![t] = SignedOut] ELSE tab
          /\ UNCHANGED channel
    /\ UNCHANGED <<sessions, cookie, retry, request, strays, lost, trouble>>

(* withToken repeats its operation with the new token, once. *)
RetryEnds(t) ==
    /\ retry[t] # None
    /\ retry' = [retry EXCEPT ![t] = None]
    /\ \/ /\ ~Live(retry[t]) /\ Clears(t) /\ UNCHANGED trouble
       \/ /\ Live(retry[t]) /\ UNCHANGED <<tab, channel, trouble>>
       \/ /\ trouble < MaxTrouble
          /\ trouble' = trouble + 1
          /\ Clears(t) \/ UNCHANGED <<tab, channel>>
    /\ UNCHANGED <<sessions, cookie, holder, restore, request, strays, lost>>

-----------------------------------------------------------------------------
(* Signing in and out: no lock *)

Submits(t, kind) ==
    /\ request[t] = None
    /\ request' = [request EXCEPT ![t] =
         [kind |-> kind, stage |-> "sent", cookie |-> IF kind = "logout" THEN cookie ELSE None]]
    /\ UNCHANGED <<sessions, cookie, holder, tab, restore, retry, channel, strays, lost, trouble>>

SubmitLogin(t) ==
    /\ tab[t].status = "out"
    /\ \E id \in Sessions : sessions[id].state = "none"
    /\ Submits(t, "login")
SubmitLogout(t) == tab[t].status = "in" /\ Submits(t, "logout")

Asked(t, kind, stage) ==
    request[t] # None /\ request[t].kind = kind /\ request[t].stage = stage

(* issue_token_pair *)
ServeLogin(t) ==
    /\ Asked(t, "login", "sent")
    /\ \E id \in Sessions :
        /\ sessions[id].state = "none" /\ \A prev \in 1..(id - 1) : sessions[prev].state # "none"
        /\ sessions' = [sessions EXCEPT ![id] = [jti |-> 1, state |-> "live"]]
        /\ request' = [request EXCEPT ![t].stage = "served", ![t].cookie = [id |-> id, jti |-> 1]]
    /\ UNCHANGED <<cookie, holder, tab, restore, retry, channel, strays, lost, trouble>>

LoginAnswered(t) ==
    /\ Asked(t, "login", "served")
    /\ cookie' = request[t].cookie
    /\ tab' = [tab EXCEPT ![t] = SignedIn(request[t].cookie.id)]
    /\ request' = [request EXCEPT ![t] = None]
    /\ UNCHANGED <<sessions, holder, restore, retry, channel, strays, lost, trouble>>

ServeLogout(t) ==
    /\ Asked(t, "logout", "sent")
    /\ sessions' = Revoked(request[t].cookie)
    /\ request' = [request EXCEPT ![t].stage = "served", ![t].cookie = None]
    /\ UNCHANGED <<cookie, holder, tab, restore, retry, channel, strays, lost, trouble>>

LogoutAnswered(t) ==
    /\ Asked(t, "logout", "served")
    /\ cookie' = None
    /\ Clears(t)
    /\ request' = [request EXCEPT ![t] = None]
    /\ UNCHANGED <<sessions, holder, restore, retry, strays, lost, trouble>>

(* The request or its answer is lost, or it is refused: the page stays as *)
(* it was and says so.                                                    *)
LoseRequest(t) ==
    /\ request[t] # None
    /\ trouble < MaxTrouble \/ (Asked(t, "login", "sent") /\ \A id \in Sessions : sessions[id].state # "none")
    /\ trouble' = IF trouble < MaxTrouble THEN trouble + 1 ELSE trouble
    /\ request' = [request EXCEPT ![t] = None]
    /\ UNCHANGED <<sessions, cookie, holder, tab, restore, retry, channel, strays, lost>>

-----------------------------------------------------------------------------
(* The channel and the tabs *)

SessionEndedArrives(t) ==
    /\ channel[t]
    /\ channel' = [channel EXCEPT ![t] = FALSE]
    /\ tab' = [tab EXCEPT ![t] = SignedOut]
    /\ UNCHANGED <<sessions, cookie, holder, restore, retry, request, strays, lost, trouble>>

Carries(t) == restore[t] # None /\ restore[t].cookie # None

(* A page that is reloaded drops its requests and gives up the lock; one    *)
(* that had left the tab may still be served.                               *)
Reload(t) ==
    /\ Room /\ trouble < MaxTrouble
    /\ trouble' = trouble + 1
    /\ tab' = [tab EXCEPT ![t] = Loading]
    /\ restore' = [restore EXCEPT ![t] = Waiting({"mount"})]
    /\ holder' = IF holder = t THEN None ELSE holder
    /\ lost' = IF Carries(t) THEN lost \cup {restore[t].cookie.id} ELSE lost
    /\ strays' = IF Carries(t) /\ Sent(t) THEN strays \cup {restore[t].cookie} ELSE strays
    /\ retry' = [retry EXCEPT ![t] = None]
    /\ request' = [request EXCEPT ![t] = None]
    /\ channel' = [channel EXCEPT ![t] = FALSE]
    /\ UNCHANGED <<sessions, cookie>>

StrayServed(c) ==
    /\ sessions' = Rotated(c)
    /\ strays' = strays \ {c}
    /\ UNCHANGED <<cookie, holder, tab, restore, retry, request, channel, lost, trouble>>

-----------------------------------------------------------------------------
Network(t) == ServeRefresh(t) \/ LoseRefresh(t) \/ ServeLogin(t) \/ ServeLogout(t) \/ LoseRequest(t)

BrowserNext ==
    \/ \E t \in Tabs :
        \/ TokenExpires(t)
        \/ PollRefused(t)
        \/ AcquireLock(t)
        \/ Restored(t)
        \/ NotRestored(t)
        \/ RetryEnds(t)
        \/ SubmitLogin(t)
        \/ SubmitLogout(t)
        \/ LoginAnswered(t)
        \/ LogoutAnswered(t)
        \/ SessionEndedArrives(t)
        \/ Reload(t)
        \/ Network(t)
    \/ \E c \in strays : StrayServed(c)

(* Polls and timers run on, a lock that is free is granted, and a request *)
(* ends one way or the other; nobody has to sign in, sign out or reload.  *)
BrowserFairness ==
    \A t \in Tabs :
        /\ WF_vars(PollRefused(t)) /\ WF_vars(AcquireLock(t))
        /\ WF_vars(Restored(t) \/ NotRestored(t)) /\ WF_vars(RetryEnds(t))
        /\ WF_vars(ServeRefresh(t) \/ LoseRefresh(t))
        /\ WF_vars(SessionEndedArrives(t))

BrowserSpec == BrowserInit /\ [][BrowserNext]_vars /\ BrowserFairness

-----------------------------------------------------------------------------
(* Properties *)

TypeOK ==
    /\ sessions \in [Sessions -> SessionRow]
    /\ cookie \in Cookies \cup {None}
    /\ holder \in Tabs \cup {None}
    /\ tab \in [Tabs -> TabRow]
    /\ restore \in [Tabs -> RestoreRow \cup {None}]
    /\ retry \in [Tabs -> Sessions \cup {None}]
    /\ request \in [Tabs -> RequestRow \cup {None}]
    /\ channel \in [Tabs -> BOOLEAN]
    /\ strays \subseteq Cookies
    /\ lost \subseteq Sessions
    /\ trouble \in Nat

(* The lock of performSessionRestore does its work: the backend sees a      *)
(* rotated token again, and revokes the session for it, only when the       *)
(* answer with the new one never reached the browser.                       *)
ReuseOnlyAfterLoss ==
    \A id \in Sessions : sessions[id].state = "reuse" => id \in lost

(* Signing out reaches every tab, by the message or by its next refused     *)
(* poll (withToken, clearSession), unless somebody signs in again.          *)
SomeoneSignedIn == \E id \in Sessions : Live(id)
SignOutReachesEveryTab ==
    \A t \in Tabs : ~SomeoneSignedIn ~> (SomeoneSignedIn \/ tab[t].status = "out")

(* No page waits for ever behind the lock: the mount effect's finally ends  *)
(* "initializing" in every tab, whatever becomes of the other tabs.         *)
LoadingEnds == \A t \in Tabs : tab[t].status = "initializing" ~> tab[t].status # "initializing"
=============================================================================
