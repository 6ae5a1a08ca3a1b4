------------------------------ MODULE EntryPages ------------------------------
(***************************************************************************)
(* Getting in: registration, verification, login (with Google or without), *)
(* password reset, onboarding and the protection of the account, with the  *)
(* boundary that redirects whoever is on a page the session may not see.   *)
(*                                                                         *)
(* One person with one account.  store.rows is the backend's view: how far *)
(* the account has come, and whether the browser holds a refresh cookie.   *)
(* ui.session is the provider's, None or what it believes of onboarding.   *)
(* Leaving a page forgets its form, not the requests it sent: a late       *)
(* answer still signs in, navigates or ends the transition.                *)
(***************************************************************************)
EXTENDS PageRuntime

Stages == {"none", "unverified", "verified", "onboarded"}

(* How far the continuation of an onboarding is, beside None. *)
OnboardingSteps == {"again", "ok", "refused"}

ASSUME EntryAssumption == None \notin OnboardingSteps

VerifyPages    == {"verifyEmail", "verifyPhone"}
GuestPages     == VerifyPages \cup {"login", "register", "forgot", "resetVerify", "resetNew"}
\* Fault: the page redirected to is not among those that may be seen.
DashboardWithoutHome == {"dashboard", "protect"}

DashboardPages == {"home", "dashboard", "protect"}
Routes         == GuestPages \cup DashboardPages \cup {"onboarding"}

EntryUi(route) ==
    [route |-> route, restoring |-> TRUE, session |-> None, transition |-> None,
     sending |-> None, resending |-> None, cooling |-> FALSE,
     panel |-> "loading", codeSent |-> FALSE, draft |-> 1, busy |-> FALSE, saved |-> None]

EntryInit ==
    /\ page = "entry"
    /\ \E route \in Routes : ui = EntryUi(route)
    /\ calls = [NoCalls EXCEPT ![1] = Call("restore", 0, None)]
    /\ \E stage \in Stages, cookie \in BOOLEAN :
          /\ cookie => stage \in {"verified", "onboarded"}
          /\ store = [NoWrites EXCEPT !.rows = [stage |-> stage, cookie |-> cookie]]

account == store.rows

\* Fault: whoever is verified counts as onboarded.
SessionOfVerified(stage) == [onboarded |-> stage \in {"verified", "onboarded"}]

(* What the backend tells of the account with every session it hands out. *)
SessionOf(stage) == [onboarded |-> stage = "onboarded"]

(* getRedirectTarget; None where the page may be seen, or nothing is known yet. *)
RedirectTarget ==
    IF ui.restoring \/ ui.transition # None THEN None
    ELSE IF ui.session = None
         THEN IF ui.route \in GuestPages THEN None ELSE "login"
    ELSE IF ui.session.onboarded
         THEN IF ui.route \in DashboardPages THEN None ELSE "home"
    ELSE IF ui.route = "onboarding" THEN None ELSE "onboarding"

Shows(route) == ui.route = route /\ ~ui.restoring /\ RedirectTarget = None

(* Another path unmounts the page, and ends the transition begun on it. *)
Goto(next, route) ==
    IF route = next.route THEN next
    ELSE [next EXCEPT !.route = route, !.transition = None, !.sending = None, !.resending = None,
                      !.cooling = FALSE, !.panel = "loading", !.codeSent = FALSE]

SignedIn(stage)    == [ui EXCEPT !.session = SessionOf(stage), !.restoring = FALSE]
SignedOut          == [ui EXCEPT !.session = None, !.restoring = FALSE]
\* Fault: an error leaves the overlay.
KeepTransition == ui

EndTransition      == [ui EXCEPT !.transition = None]
Begin(transition)  == [ui EXCEPT !.transition = transition]

(* A request that ends, with what the backend made of it. *)
EndsWith(s, op, next, stage, cookie) ==
    /\ InUse(s, op) /\ Finish(s)
    /\ ui' = [next EXCEPT !.sending = IF @ = s THEN None ELSE @,
                          !.resending = IF @ = s THEN None ELSE @]
    /\ store' = [store EXCEPT !.rows = [stage |-> stage, cookie |-> cookie]]
    /\ UNCHANGED page

Fails(s, op, next) == EndsWith(s, op, next, account.stage, account.cookie)

-----------------------------------------------------------------------------
(* Routing. *)

Redirect ==
    /\ RedirectTarget # None
    /\ Sets(Goto(ui, RedirectTarget))

(* Links, the address bar and the browser's back button. *)
Visit(route) == route # ui.route /\ Sets(Goto(ui, route))

(* PostAuthRouter, once the workspaces are loaded: the dashboard, or the    *)
(* list of workspaces beside it.                                            *)
RouteAfterEntry == Shows("home") /\ Sets(Goto(ui, "dashboard"))

(* The provider's effect on mount; any failure leaves no session. *)
SessionRestored(s) ==
    \/ account.cookie /\ Fails(s, "restore", SignedIn(account.stage))
    \/ Fails(s, "restore", SignedOut)

(* Another tab signs out. *)
SessionEnded ==
    /\ ui' = SignedOut
    /\ store' = [store EXCEPT !.rows.cookie = FALSE]
    /\ UNCHANGED <<page, calls>>

-----------------------------------------------------------------------------
(* Login and registration: a full-page loader covers the form while its     *)
(* transition lasts, but the focused field still submits.                   *)

Submits(op, next) == Sends(op, 0, None) /\ ui' = next /\ UNCHANGED <<page, store>>

SubmitLogin == Shows("login") /\ Submits("login", Begin("authenticating"))

AfterSignIn(stage) == Goto(SignedIn(stage), IF stage = "onboarded" THEN "home" ELSE "onboarding")

(* Whoever is not verified is sent to do that; the change of path ends the  *)
(* transition.  An answer that is lost leaves a cookie behind.              *)
LoginAnswered(s) ==
    \/ /\ account.stage \in {"verified", "onboarded"}
       /\ \/ EndsWith(s, "login", AfterSignIn(account.stage), account.stage, TRUE)
          \/ EndsWith(s, "login", EndTransition, account.stage, TRUE)
    \/ /\ account.stage = "unverified"
       /\ \E route \in VerifyPages : Fails(s, "login", Goto(ui, route))
    \/ Fails(s, "login", EndTransition)

SubmitRegistration == Shows("register") /\ Submits("register", Begin("registering"))

RegistrationAnswered(s) ==
    \/ /\ account.stage = "none"
       /\ \/ \E route \in VerifyPages :
                EndsWith(s, "register", [Goto(ui, route) EXCEPT !.cooling = TRUE], "unverified", account.cookie)
          \/ EndsWith(s, "register", EndTransition, "unverified", account.cookie)
    \/ Fails(s, "register", EndTransition)

(* The credential of Google's button is dropped during any transition. *)
ContinueWithGoogle ==
    /\ Shows("login") \/ Shows("register")
    /\ ui.transition = None
    /\ Submits("google", Begin("authenticating"))

(* An account Google vouches for is verified. *)
GoogleAnswered(s) ==
    LET stage == IF account.stage = "onboarded" THEN "onboarded" ELSE "verified"
    IN  \/ EndsWith(s, "google", AfterSignIn(stage), stage, TRUE)
        \/ EndsWith(s, "google", EndTransition, stage, TRUE)
        \/ Fails(s, "google", EndTransition)

-----------------------------------------------------------------------------
(* Forms whose own button waits for the answer. *)

SendsForm(op) ==
    /\ ui.sending = None
    /\ \E s \in Slots : Free(s) /\ Start(s, op, 0, None) /\ ui' = [ui EXCEPT !.sending = s]
    /\ UNCHANGED <<page, store>>

SubmitVerification == (\E route \in VerifyPages : Shows(route)) /\ SendsForm("verify")

VerificationAnswered(s) ==
    \/ /\ account.stage = "unverified"
       /\ \/ EndsWith(s, "verify", Goto(SignedIn("verified"), "onboarding"), "verified", TRUE)
          \/ EndsWith(s, "verify", ui, "verified", TRUE)
    \/ Fails(s, "verify", ui)

(* The code can be sent again once the cooldown is over. *)
ResendCode ==
    /\ \E route \in VerifyPages \cup {"resetVerify"} : Shows(route)
    /\ ~ui.cooling /\ ui.resending = None
    /\ \E s \in Slots : Free(s) /\ Start(s, "resend", 0, None) /\ ui' = [ui EXCEPT !.resending = s]
    /\ UNCHANGED <<page, store>>

CodeResent(s) ==
    \/ Fails(s, "resend", [ui EXCEPT !.cooling = ui.resending = s \/ @])
    \/ Fails(s, "resend", ui)

CooldownEnds == ui.cooling /\ Sets([ui EXCEPT !.cooling = FALSE])

RequestReset == Shows("forgot") /\ SendsForm("forgot")

ResetRequested(s) ==
    \/ Fails(s, "forgot", [Goto(ui, "resetVerify") EXCEPT !.cooling = TRUE])
    \/ Fails(s, "forgot", ui)

VerifyReset == Shows("resetVerify") /\ SendsForm("resetVerify")

ResetVerified(s) == Fails(s, "resetVerify", Goto(ui, "resetNew")) \/ Fails(s, "resetVerify", ui)

ConfirmReset == Shows("resetNew") /\ SendsForm("resetNew")

(* The new password ends every session; a grant that is no longer valid     *)
(* starts the reset again.                                                  *)
ResetConfirmed(s) ==
    \/ EndsWith(s, "resetNew", Goto(SignedOut, "login"), account.stage, FALSE)
    \/ EndsWith(s, "resetNew", ui, account.stage, FALSE)
    \/ Fails(s, "resetNew", Goto(ui, "forgot"))
    \/ Fails(s, "resetNew", ui)

-----------------------------------------------------------------------------
(* Onboarding, which is tried again once with a fresh token. *)

SubmitOnboarding == Shows("onboarding") /\ ui.session # None /\ Submits("onboard", Begin("onboarding"))

Marks(s, arg) == calls' = [calls EXCEPT ![s].arg = arg]

(* The backend onboards a verified account, once. *)
OnboardingServed(s) ==
    /\ InUse(s, "onboard") /\ calls[s].arg \in {None, "again"}
    /\ IF account.stage = "verified"
       THEN Marks(s, "ok") /\ store' = [store EXCEPT !.rows.stage = "onboarded"]
       ELSE Marks(s, "refused") /\ UNCHANGED store
    /\ UNCHANGED <<page, ui>>

(* The token had expired: the refresh tells the session anew. *)
OnboardingRefreshed(s) ==
    /\ InUse(s, "onboard") /\ calls[s].arg = None /\ account.cookie
    /\ Marks(s, "again")
    /\ ui' = SignedIn(account.stage)
    /\ UNCHANGED <<page, store>>

(* Without an answer, or refused, the form stays; without a session there   *)
(* is only the login left.                                                  *)
OnboardingAnswered(s) ==
    /\ InUse(s, "onboard")
    /\ \/ /\ calls[s].arg = "ok"
          /\ \E route \in {"protect", "dashboard"} :
                Fails(s, "onboard", Goto([ui EXCEPT !.session = SessionOf("onboarded")], route))
       \/ calls[s].arg \in {"ok", "refused"} /\ Fails(s, "onboard", EndTransition)
       \/ calls[s].arg \in {None, "again"} /\ ~account.cookie
            /\ Fails(s, "onboard", Goto(SignedOut, "login"))
       \/ calls[s].arg = None /\ Fails(s, "onboard", EndTransition)

-----------------------------------------------------------------------------
(* The protection of the account: load, ask for a code, verify it, or skip. *)

LoadProtection ==
    /\ Shows("protect") /\ ui.panel = "loading" /\ ~UnderWay("protection")
    /\ Submits("protection", ui)

ProtectionLoaded(s) ==
    \E panel \in {"shown", "failed"} :
        Fails(s, "protection", IF ui.route = "protect" THEN [ui EXCEPT !.panel = panel] ELSE ui)

RetryProtection == Shows("protect") /\ ui.panel = "failed" /\ Sets([ui EXCEPT !.panel = "loading"])

SendProtectionCode ==
    /\ Shows("protect") /\ ui.panel = "shown" /\ ~ui.codeSent
    /\ Submits("code", Begin("protecting"))

ProtectionCodeSent(s) ==
    \/ Fails(s, "code", [EndTransition EXCEPT !.codeSent = ui.route = "protect"])
    \/ Fails(s, "code", EndTransition)

VerifyProtection ==
    /\ Shows("protect") /\ ui.panel = "shown" /\ ui.codeSent
    /\ Submits("protect", Begin("protecting"))

ProtectionVerified(s) ==
    \/ Fails(s, "protect", Goto(ui, "dashboard"))
    \/ Fails(s, "protect", EndTransition)

(* Continue, or skip: the push follows the transition it begins. *)
LeaveProtection ==
    /\ Shows("protect") /\ ui.panel = "shown"
    /\ Sets(Goto(Begin("protecting"), "dashboard"))

EntryUser ==
    \/ SubmitLogin \/ SubmitRegistration \/ ContinueWithGoogle \/ SubmitVerification \/ ResendCode
    \/ RequestReset \/ VerifyReset \/ ConfirmReset \/ SubmitOnboarding
    \/ RetryProtection \/ SendProtectionCode \/ VerifyProtection \/ LeaveProtection
    \/ \E route \in Routes : Visit(route)

EntryAnswered(s) ==
    \/ SessionRestored(s) \/ LoginAnswered(s) \/ RegistrationAnswered(s) \/ GoogleAnswered(s)
    \/ VerificationAnswered(s) \/ CodeResent(s) \/ ResetRequested(s) \/ ResetVerified(s)
    \/ ResetConfirmed(s) \/ OnboardingServed(s) \/ OnboardingAnswered(s)
    \/ ProtectionLoaded(s) \/ ProtectionCodeSent(s) \/ ProtectionVerified(s)

EntryNext ==
    /\ page = "entry"
    /\ \/ EntryUser \/ Redirect \/ RouteAfterEntry \/ SessionEnded \/ CooldownEnds \/ LoadProtection
       \/ \E s \in Slots : OnboardingRefreshed(s) \/ EntryAnswered(s)

-----------------------------------------------------------------------------
(* Whatever was answered late, twice or never, the session never tells of   *)
(* an onboarding the backend has not made: no dashboard opens without it.   *)
SessionTellsNoMoreThanTheAccount ==
    page = "entry" /\ ui.session # None =>
        (ui.session.onboarded => account.stage = "onboarded")

(* One redirect is enough: where it leads, no other follows. *)
RedirectsSettle == [][page = "entry" /\ Redirect => RedirectTarget' = None]_vars

(* A transition covers the page only until it is answered or left: it ends  *)
(* on every path through the forms.                                         *)
TransitionEnds == (page = "entry" /\ ui.transition # None) ~> (page = "entry" => ui.transition = None)
=============================================================================
