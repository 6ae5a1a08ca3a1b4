--------------------------- MODULE LivePagesProofs ---------------------------
(***************************************************************************)
(* Theorems about the pages that move by themselves under LiveSpec, for    *)
(* any number of requests under way.                                       *)
(*                                                                         *)
(* That the session never tells more than the account has is not inductive *)
(* on the way in: the answer to the onboarding opens the dashboard after   *)
(* it was given, however late it is read.  EntryInv adds that an           *)
(* onboarding that was served is one the account has (OnboardingsHold).    *)
(***************************************************************************)
EXTENDS LivePages, TLAPS

Transitions == {"authenticating", "registering", "onboarding", "protecting"}
EntryOps == {"restore", "login", "register", "google", "verify", "resend", "forgot",
             "resetVerify", "resetNew", "onboard", "protection", "code", "protect"}

EntryUiRow ==
    [route : Routes, restoring : BOOLEAN, session : [onboarded : BOOLEAN] \cup {None},
     transition : Transitions \cup {None}, sending : Slots \cup {None},
     resending : Slots \cup {None}, cooling : BOOLEAN,
     panel : {"loading", "shown", "failed"}, codeSent : BOOLEAN, draft : {1},
     busy : {FALSE}, saved : {None}]

EntryCall == [op : EntryOps, draft : {0}, arg : OnboardingSteps \cup {None},
              state : {"sent"}]

AccountRow == [stage : Stages, cookie : BOOLEAN]

EntryTypes ==
    /\ ui \in EntryUiRow
    /\ calls \in [Slots -> EntryCall \cup {None}]
    /\ store \in [done : [Drafts -> {0}], lost : [Drafts -> {0}], rows : AccountRow]

\* An onboarding the backend served is one the account has.
OnboardingsHold ==
    \A s \in Slots : InUse(s, "onboard") /\ calls[s].arg = "ok"
                     => account.stage = "onboarded"

\* next tells no more of an account than that it has come to stage.
Tells(next, stage) ==
    /\ next \in EntryUiRow
    /\ next.session # None => (next.session.onboarded => stage = "onboarded")

EntryInv ==
    page = "entry" => EntryTypes /\ OnboardingsHold /\ Tells(ui, account.stage)

-----------------------------------------------------------------------------
(* What pages are told *)

\* Going to another page tells nothing new.
LEMMA GotoTells ==
    ASSUME NEW stage, NEW next, Tells(next, stage), NEW route \in Routes
    PROVE  Tells(Goto(next, route), stage)
BY DEF Tells, Goto, EntryUiRow

\* A session that was told of a stage is not wrong about a later one.
LEMMA LaterTells ==
    ASSUME NEW stage, NEW next, Tells(next, stage),
           NEW later, stage = "onboarded" => later = "onboarded"
    PROVE  Tells(next, later)
BY DEF Tells

\* Whoever is signed in is told of the account as it is, whoever is not of nothing.
LEMMA SignedInTells ==
    ASSUME ui \in EntryUiRow, NEW stage \in Stages
    PROVE  Tells(SignedIn(stage), stage) /\ Tells(SignedOut, stage)
BY DEF Tells, SignedIn, SignedOut, SessionOf, EntryUiRow

\* A transition tells nothing.
LEMMA TransitionTells ==
    ASSUME NEW stage, Tells(ui, stage), NEW transition \in Transitions
    PROVE  Tells(Begin(transition), stage) /\ Tells(EndTransition, stage)
BY DEF Tells, Begin, EndTransition, EntryUiRow

\* Neither does what a panel shows.
LEMMA PanelTells ==
    ASSUME NEW stage, NEW next, Tells(next, stage),
           NEW panel \in {"loading", "shown", "failed"}
    PROVE  Tells([next EXCEPT !.panel = panel], stage)
BY DEF Tells, EntryUiRow

\* Neither do the fields of a form.
LEMMA FormTells ==
    ASSUME NEW stage, NEW next, Tells(next, stage), NEW flag \in BOOLEAN,
           NEW s \in Slots
    PROVE  /\ Tells([next EXCEPT !.cooling = flag], stage)
           /\ Tells([next EXCEPT !.codeSent = flag], stage)
           /\ Tells([next EXCEPT !.sending = s], stage)
           /\ Tells([next EXCEPT !.resending = s], stage)
BY DEF Tells, EntryUiRow

-----------------------------------------------------------------------------
(* Steps of four kinds *)

\* A step that sends nothing and ends nothing.
LEMMA SetsKeeps ==
    ASSUME EntryInv, page = "entry", NEW next, Tells(next, account.stage), Sets(next)
    PROVE  EntryInv'
BY DEF EntryInv, EntryTypes, OnboardingsHold, Tells, Sets, InUse, account

\* A request that is sent was not served yet.
LEMMA SubmitsKeeps ==
    ASSUME EntryInv, page = "entry", NEW op \in EntryOps, NEW s \in Slots,
           Start(s, op, 0, None), Tells(ui', account.stage), UNCHANGED <<page, store>>
    PROVE  EntryInv'
<1>1. /\ EntryTypes /\ OnboardingsHold /\ None # "ok"
      /\ calls' = [calls EXCEPT ![s] = Call(op, 0, None)]
  BY EntryAssumption DEF EntryInv, Start, OnboardingSteps
<1>2. Call(op, 0, None) \in EntryCall /\ Call(op, 0, None).arg = None
  BY DEF Call, EntryCall
<1>3. EntryTypes'
  BY <1>1, <1>2 DEF EntryTypes, Tells
<1>4. OnboardingsHold'
  BY <1>1, <1>2 DEF OnboardingsHold, EntryTypes, InUse, account
<1> QED
  BY <1>3, <1>4 DEF EntryInv, Tells, account

\* A request that ends leaves the account no earlier than it was.
LEMMA EndsKeeps ==
    ASSUME EntryInv, page = "entry", NEW s \in Slots, NEW op, NEW next,
           NEW stage \in Stages, NEW cookie \in BOOLEAN, Tells(next, stage),
           account.stage = "onboarded" => stage = "onboarded",
           EndsWith(s, op, next, stage, cookie)
    PROVE  EntryInv'
<1>1. /\ EntryTypes /\ OnboardingsHold /\ next \in EntryUiRow
      /\ calls' = [calls EXCEPT ![s] = None] /\ page' = page
      /\ ui' = [next EXCEPT !.sending = IF @ = s THEN None ELSE @,
                            !.resending = IF @ = s THEN None ELSE @]
      /\ store' = [store EXCEPT !.rows = [stage |-> stage, cookie |-> cookie]]
  BY DEF EntryInv, EndsWith, Finish, Tells
<1>2. ui' \in EntryUiRow /\ ui'.session = next.session
  BY <1>1 DEF EntryUiRow
<1>3. store' \in [done : [Drafts -> {0}], lost : [Drafts -> {0}], rows : AccountRow]
      /\ account'.stage = stage
  BY <1>1 DEF EntryTypes, AccountRow, account
<1>4. EntryTypes'
  BY <1>1, <1>2, <1>3 DEF EntryTypes
<1>5. OnboardingsHold'
  BY <1>1, <1>3 DEF OnboardingsHold, EntryTypes, InUse
<1>6. Tells(ui', account'.stage)
  BY <1>2, <1>3 DEF Tells
<1> QED
  BY <1>4, <1>5, <1>6 DEF EntryInv, account

\* A request that ends without anything done by the backend.
LEMMA FailsKeeps ==
    ASSUME EntryInv, page = "entry", NEW s \in Slots, NEW op, NEW next,
           Tells(next, account.stage), Fails(s, op, next)
    PROVE  EntryInv'
<1>1. account.stage \in Stages /\ account.cookie \in BOOLEAN
  BY DEF EntryInv, EntryTypes, AccountRow, account
<1> QED
  BY <1>1, EndsKeeps DEF Fails

-----------------------------------------------------------------------------
(* What the actions keep *)

\* Clicks, links, timers and redirects.
LEMMA UserKeeps ==
    ASSUME EntryInv, page = "entry",
           EntryUser \/ Redirect \/ RouteAfterEntry \/ CooldownEnds \/ LoadProtection
    PROVE  EntryInv'
<1>0. Tells(ui, account.stage) /\ ui \in EntryUiRow /\ "dashboard" \in Routes
  BY DEF EntryInv, EntryTypes, Routes, DashboardPages
<1>1. ASSUME NEW op \in EntryOps, NEW next, Tells(next, account.stage), Submits(op, next)
      PROVE  EntryInv'
  <2>1. PICK s \in Slots : Start(s, op, 0, None)
    BY <1>1 DEF Submits, Sends
  <2> QED
    BY <1>1, <2>1, SubmitsKeeps DEF Submits
<1>2. ASSUME NEW op \in EntryOps, SendsForm(op) PROVE EntryInv'
  <2>1. PICK s \in Slots : Start(s, op, 0, None) /\ ui' = [ui EXCEPT !.sending = s]
    BY <1>2 DEF SendsForm
  <2> QED
    BY <1>0, <1>2, <2>1, SubmitsKeeps, FormTells DEF SendsForm
<1>3. ASSUME NEW route \in Routes, Sets(Goto(ui, route)) PROVE EntryInv'
  BY <1>0, <1>3, GotoTells, SetsKeeps
<1>4. CASE SubmitLogin \/ SubmitRegistration \/ ContinueWithGoogle \/ SubmitOnboarding
           \/ SendProtectionCode \/ VerifyProtection
  BY <1>0, <1>1, <1>4, TransitionTells
     DEF SubmitLogin, SubmitRegistration, ContinueWithGoogle, SubmitOnboarding,
         SendProtectionCode, VerifyProtection, EntryOps, Transitions
<1>5. CASE SubmitVerification \/ RequestReset \/ VerifyReset \/ ConfirmReset
  BY <1>2, <1>5 DEF SubmitVerification, RequestReset, VerifyReset, ConfirmReset, EntryOps
<1>6. CASE ResendCode
  <2>1. PICK s \in Slots : Start(s, "resend", 0, None) /\ ui' = [ui EXCEPT !.resending = s]
    BY <1>6 DEF ResendCode
  <2> QED
    BY <1>0, <1>6, <2>1, SubmitsKeeps, FormTells DEF ResendCode, EntryOps
<1>7. CASE RetryProtection \/ CooldownEnds
  <2>1. Tells([ui EXCEPT !.panel = "loading"], account.stage)
    BY <1>0, PanelTells
  <2>2. Tells([ui EXCEPT !.cooling = FALSE], account.stage)
    BY <1>0 DEF Tells, EntryUiRow
  <2> QED
    BY <1>7, <2>1, <2>2, SetsKeeps DEF RetryProtection, CooldownEnds
<1>8. CASE LeaveProtection
  BY <1>0, <1>8, TransitionTells, GotoTells, SetsKeeps DEF LeaveProtection, Transitions
<1>9. ASSUME NEW route \in Routes, Visit(route) PROVE EntryInv'
  BY <1>3, <1>9 DEF Visit
<1>10. CASE Redirect
  <2>1. RedirectTarget \in Routes
    BY <1>10 DEF Redirect, RedirectTarget, Routes, DashboardPages, GuestPages
  <2> QED
    BY <1>3, <1>10, <2>1 DEF Redirect
<1>11. CASE RouteAfterEntry
  BY <1>0, <1>3, <1>11 DEF RouteAfterEntry
<1>12. CASE LoadProtection
  BY <1>0, <1>1, <1>12 DEF LoadProtection, EntryOps
<1> QED
  BY <1>4, <1>5, <1>6, <1>7, <1>8, <1>9, <1>10, <1>11, <1>12 DEF EntryUser

\* The onboarding, which the backend serves once and whose answer may be late.
LEMMA OnboardingKeeps ==
    ASSUME EntryInv, page = "entry", NEW s \in Slots,
           OnboardingServed(s) \/ OnboardingRefreshed(s) \/ OnboardingAnswered(s)
    PROVE  EntryInv'
<1>0. /\ Tells(ui, account.stage) /\ ui \in EntryUiRow /\ EntryTypes /\ OnboardingsHold
      /\ account.stage \in Stages /\ "login" \in Routes
      /\ \A r \in Slots : calls[r] # None => calls[r] \in EntryCall
      /\ None \notin OnboardingSteps
  BY EntryAssumption
     DEF EntryInv, EntryTypes, AccountRow, account, Routes, GuestPages
<1>1. ASSUME NEW arg \in OnboardingSteps, Marks(s, arg), InUse(s, "onboard")
      PROVE  /\ calls' \in [Slots -> EntryCall \cup {None}]
             /\ \A r \in Slots : calls'[r] # None =>
                   calls[r] # None /\ calls'[r].op = calls[r].op
                   /\ calls'[r].arg = IF r = s THEN arg ELSE calls[r].arg
  <2>1. calls[s] \in EntryCall /\ calls' = [calls EXCEPT ![s] = [calls[s] EXCEPT !.arg = arg]]
    BY <1>0, <1>1 DEF Marks, InUse
  <2>2. /\ [calls[s] EXCEPT !.arg = arg] \in EntryCall
        /\ [calls[s] EXCEPT !.arg = arg].arg = arg
        /\ [calls[s] EXCEPT !.arg = arg].op = calls[s].op
    BY <2>1 DEF EntryCall
  <2> QED
    BY <1>0, <1>1, <2>1, <2>2 DEF EntryTypes, InUse
<1>2. CASE OnboardingServed(s)
  <2>1. CASE account.stage = "verified"
    <3>1. /\ InUse(s, "onboard") /\ Marks(s, "ok") /\ UNCHANGED <<page, ui>>
          /\ store' = [store EXCEPT !.rows = [store.rows EXCEPT !.stage = "onboarded"]]
      BY <1>2, <2>1 DEF OnboardingServed
    <3>2. /\ store' \in [done : [Drafts -> {0}], lost : [Drafts -> {0}], rows : AccountRow]
          /\ account'.stage = "onboarded"
      BY <1>0, <3>1 DEF EntryTypes, AccountRow, account, Stages
    <3>3. calls' \in [Slots -> EntryCall \cup {None}]
      BY <1>1, <3>1 DEF OnboardingSteps
    <3> QED
      BY <1>0, <3>1, <3>2, <3>3 DEF EntryInv, EntryTypes, OnboardingsHold, Tells, account
  <2>2. CASE account.stage # "verified"
    <3>1. InUse(s, "onboard") /\ Marks(s, "refused") /\ UNCHANGED <<page, ui, store>>
      BY <1>2, <2>2 DEF OnboardingServed
    <3>2. "refused" \in OnboardingSteps /\ "refused" # "ok"
      BY DEF OnboardingSteps
    <3>3. OnboardingsHold'
      BY <1>0, <1>1, <3>1, <3>2 DEF OnboardingsHold, InUse, account
    <3> QED
      BY <1>0, <1>1, <3>1, <3>2, <3>3 DEF EntryInv, EntryTypes, Tells, account
  <2> QED
    BY <2>1, <2>2
<1>3. CASE OnboardingRefreshed(s)
  <2>1. /\ InUse(s, "onboard") /\ Marks(s, "again")
        /\ ui' = SignedIn(account.stage) /\ UNCHANGED <<page, store>>
    BY <1>3 DEF OnboardingRefreshed
  <2>2. "again" \in OnboardingSteps /\ "again" # "ok"
    BY DEF OnboardingSteps
  <2>3. Tells(ui', account.stage)
    BY <1>0, <2>1, SignedInTells
  <2>4. OnboardingsHold'
    BY <1>0, <1>1, <2>1, <2>2 DEF OnboardingsHold, InUse, account
  <2> QED
    BY <1>0, <1>1, <2>1, <2>2, <2>3, <2>4 DEF EntryInv, EntryTypes, Tells, account
<1>4. CASE OnboardingAnswered(s)
  <2>1. ASSUME NEW route \in {"protect", "dashboard"}, calls[s].arg = "ok",
               Fails(s, "onboard", Goto([ui EXCEPT !.session = SessionOf("onboarded")], route))
        PROVE  EntryInv'
    <3>1. account.stage = "onboarded"
      BY <1>0, <1>4, <2>1 DEF OnboardingsHold, OnboardingAnswered
    <3>2. Tells([ui EXCEPT !.session = SessionOf("onboarded")], account.stage)
      BY <1>0, <3>1 DEF Tells, EntryUiRow, SessionOf
    <3>3. route \in Routes
      BY DEF Routes, DashboardPages
    <3> QED
      BY <2>1, <3>2, <3>3, GotoTells, FailsKeeps
  <2>2. CASE Fails(s, "onboard", EndTransition)
    <3>1. Tells(EndTransition, account.stage)
      BY <1>0 DEF Tells, EndTransition, EntryUiRow
    <3> QED
      BY <2>2, <3>1, FailsKeeps
  <2>3. CASE Fails(s, "onboard", Goto(SignedOut, "login"))
    <3>1. Tells(Goto(SignedOut, "login"), account.stage)
      BY <1>0, SignedInTells, GotoTells
    <3> QED
      BY <2>3, <3>1, FailsKeeps
  <2> QED
    BY <1>4, <2>1, <2>2, <2>3 DEF OnboardingAnswered
<1> QED
  BY <1>2, <1>3, <1>4

\* The answers, as they are read: early, late or not at all.
LEMMA AnswersKeep ==
    ASSUME EntryInv, page = "entry", NEW s \in Slots, EntryAnswered(s)
    PROVE  EntryInv'
<1>0. /\ Tells(ui, account.stage) /\ ui \in EntryUiRow /\ EntryTypes /\ OnboardingsHold
      /\ account.stage \in Stages /\ account.cookie \in BOOLEAN
      /\ {"home", "dashboard", "protect", "onboarding", "login", "forgot", "resetVerify",
          "resetNew"} \cup VerifyPages \subseteq Routes
  BY DEF EntryInv, EntryTypes, AccountRow, account, Routes, DashboardPages, GuestPages
<1>01. Tells(EndTransition, account.stage)
  BY <1>0 DEF Tells, EndTransition, EntryUiRow
<1>02. \A route \in Routes : Tells(Goto(ui, route), account.stage)
  BY <1>0, GotoTells
<1>03. \A stage \in Stages : /\ Tells(SignedIn(stage), stage) /\ Tells(SignedOut, stage)
                             /\ Tells(AfterSignIn(stage), stage)
  BY <1>0, SignedInTells, GotoTells DEF AfterSignIn
<1>04. \A stage \in Stages : account.stage # "onboarded" => Tells(ui, stage)
  BY <1>0 DEF Tells
<1>1. CASE SessionRestored(s)
  BY <1>0, <1>03, <1>1, FailsKeeps DEF SessionRestored
<1>2. CASE LoginAnswered(s)
  <2>1. CASE EndsWith(s, "login", AfterSignIn(account.stage), account.stage, TRUE)
             \/ EndsWith(s, "login", EndTransition, account.stage, TRUE)
    BY <1>0, <1>01, <1>03, <2>1, EndsKeeps
  <2>2. ASSUME NEW route \in VerifyPages, Fails(s, "login", Goto(ui, route))
        PROVE  EntryInv'
    BY <1>0, <1>02, <2>2, FailsKeeps
  <2>3. CASE Fails(s, "login", EndTransition)
    BY <1>01, <2>3, FailsKeeps
  <2> QED
    BY <1>2, <2>1, <2>2, <2>3 DEF LoginAnswered
<1>3. CASE RegistrationAnswered(s)
  <2>1. ASSUME NEW route \in VerifyPages, account.stage = "none",
               EndsWith(s, "register", [Goto(ui, route) EXCEPT !.cooling = TRUE],
                        "unverified", account.cookie)
        PROVE  EntryInv'
    <3>1. "unverified" \in Stages /\ account.stage # "onboarded" /\ route \in Routes
      BY <1>0, <2>1 DEF Stages
    <3>2. Tells([Goto(ui, route) EXCEPT !.cooling = TRUE], "unverified")
      <4>1. Tells(Goto(ui, route), "unverified")
        BY <1>04, <3>1, GotoTells
      <4> QED
        BY <4>1 DEF Tells, EntryUiRow
    <3> QED
      BY <1>0, <2>1, <3>1, <3>2, EndsKeeps
  <2>2. CASE account.stage = "none"
             /\ EndsWith(s, "register", EndTransition, "unverified", account.cookie)
    <3>1. "unverified" \in Stages /\ account.stage # "onboarded"
      BY <2>2 DEF Stages
    <3>2. Tells(EndTransition, "unverified")
      BY <1>01, <3>1, LaterTells
    <3> QED
      BY <1>0, <2>2, <3>1, <3>2, EndsKeeps
  <2>3. CASE Fails(s, "register", EndTransition)
    BY <1>01, <2>3, FailsKeeps
  <2> QED
    BY <1>3, <2>1, <2>2, <2>3 DEF RegistrationAnswered
<1>4. CASE GoogleAnswered(s)
  <2> DEFINE stage == IF account.stage = "onboarded" THEN "onboarded" ELSE "verified"
  <2>1. stage \in Stages /\ (account.stage = "onboarded" => stage = "onboarded")
    BY DEF Stages
  <2>2. Tells(AfterSignIn(stage), stage) /\ Tells(EndTransition, stage)
    BY <1>01, <1>03, <2>1, LaterTells
  <2>3. \/ EndsWith(s, "google", AfterSignIn(stage), stage, TRUE)
        \/ EndsWith(s, "google", EndTransition, stage, TRUE)
        \/ Fails(s, "google", EndTransition)
    BY <1>4 DEF GoogleAnswered
  <2> HIDE DEF stage
  <2> QED
    BY <1>01, <2>1, <2>2, <2>3, EndsKeeps, FailsKeeps
<1>5. CASE VerificationAnswered(s)
  <2>1. CASE account.stage = "unverified"
             /\ \/ EndsWith(s, "verify", Goto(SignedIn("verified"), "onboarding"), "verified", TRUE)
                \/ EndsWith(s, "verify", ui, "verified", TRUE)
    <3>1. "verified" \in Stages /\ account.stage # "onboarded"
      BY <2>1 DEF Stages
    <3>2. Tells(Goto(SignedIn("verified"), "onboarding"), "verified") /\ Tells(ui, "verified")
      BY <1>0, <1>03, <1>04, <3>1, GotoTells
    <3> QED
      BY <2>1, <3>1, <3>2, EndsKeeps
  <2>2. CASE Fails(s, "verify", ui)
    BY <1>0, <2>2, FailsKeeps
  <2> QED
    BY <1>5, <2>1, <2>2 DEF VerificationAnswered
<1>6. CASE CodeResent(s)
  <2>1. Tells([ui EXCEPT !.cooling = ui.resending = s \/ @], account.stage)
    BY <1>0 DEF Tells, EntryUiRow
  <2> QED
    BY <1>0, <1>6, <2>1, FailsKeeps DEF CodeResent
<1>7. CASE ResetRequested(s)
  <2>1. Tells([Goto(ui, "resetVerify") EXCEPT !.cooling = TRUE], account.stage)
    <3>1. Tells(Goto(ui, "resetVerify"), account.stage)
      BY <1>0, <1>02
    <3> QED
      BY <3>1 DEF Tells, EntryUiRow
  <2> QED
    BY <1>0, <1>7, <2>1, FailsKeeps DEF ResetRequested
<1>8. CASE ResetVerified(s)
  BY <1>0, <1>02, <1>8, FailsKeeps DEF ResetVerified
<1>9. CASE ResetConfirmed(s)
  <2>1. Tells(Goto(SignedOut, "login"), account.stage)
    BY <1>0, <1>03, GotoTells
  <2>2. CASE EndsWith(s, "resetNew", Goto(SignedOut, "login"), account.stage, FALSE)
             \/ EndsWith(s, "resetNew", ui, account.stage, FALSE)
    BY <1>0, <2>1, <2>2, EndsKeeps
  <2>3. CASE Fails(s, "resetNew", Goto(ui, "forgot")) \/ Fails(s, "resetNew", ui)
    BY <1>0, <1>02, <2>3, FailsKeeps
  <2> QED
    BY <1>9, <2>2, <2>3 DEF ResetConfirmed
<1>10. CASE OnboardingServed(s) \/ OnboardingAnswered(s)
  BY <1>10, OnboardingKeeps
<1>11. CASE ProtectionLoaded(s)
  <2>1. PICK panel \in {"shown", "failed"} :
          Fails(s, "protection", IF ui.route = "protect" THEN [ui EXCEPT !.panel = panel] ELSE ui)
    BY <1>11 DEF ProtectionLoaded
  <2>2. Tells([ui EXCEPT !.panel = panel], account.stage)
    BY <1>0 DEF Tells, EntryUiRow
  <2> QED
    BY <1>0, <2>1, <2>2, FailsKeeps
<1>12. CASE ProtectionCodeSent(s)
  <2>1. Tells([EndTransition EXCEPT !.codeSent = ui.route = "protect"], account.stage)
    BY <1>01 DEF Tells, EntryUiRow
  <2> QED
    BY <1>01, <1>12, <2>1, FailsKeeps DEF ProtectionCodeSent
<1>13. CASE ProtectionVerified(s)
  BY <1>0, <1>01, <1>02, <1>13, FailsKeeps DEF ProtectionVerified
<1> QED
  BY <1>1, <1>2, <1>3, <1>4, <1>5, <1>6, <1>7, <1>8, <1>9, <1>10, <1>11, <1>12, <1>13
     DEF EntryAnswered

-----------------------------------------------------------------------------
(* No step changes which page is open *)

\* The businesses are not left.
LEMMA ShellStays == ShellNext => page' = page
  BY DEF ShellNext, ShellUser, ShellAnswered, Sends, Ends, Refreshes, Goes, Enter, Poll,
     TokenRenewed, LeaveWorkspace, LeaveLifecycle, Elsewhere, OpenBusiness, OpenDirectory,
     RequestControl, DecideControl, Controls, DecideInvitation, RefreshServed, Refreshed,
     RefreshFailed, RefreshEnds, ControlServed, ControlAnswered, ControlRefused,
     ControlReloaded, InvitationDecided

\* Neither is the inbox.
LEMMA InboxStays == InboxNext => page' = page
  BY DEF InboxNext, InboxUser, InboxAnswered, Sets, Ends, ChooseFilter, MarkRead,
     MarkAllRead, ReadInbox, RestartPoll, InboxServed, InboxRead, InboxNotRead, Marked,
     NotMarked

-----------------------------------------------------------------------------
(* The theorems *)

\* On the first render nothing is known of the session, and nothing was onboarded yet.
LEMMA InitEntry == LiveInit => EntryInv
<1> SUFFICES ASSUME LiveInit, page = "entry" PROVE EntryInv
  BY DEF EntryInv
<1>1. EntryInit
  BY DEF LiveInit, ShellInit, InboxInit
<1>2. PICK route \in Routes : ui = EntryUi(route)
  BY <1>1 DEF EntryInit
<1>3. PICK stage \in Stages, cookie \in BOOLEAN :
        store = [NoWrites EXCEPT !.rows = [stage |-> stage, cookie |-> cookie]]
  BY <1>1 DEF EntryInit
<1>4. /\ store \in [done : [Drafts -> {0}], lost : [Drafts -> {0}], rows : AccountRow]
  BY <1>3 DEF NoWrites, AccountRow
<1>5. ui \in EntryUiRow /\ ui.session = None
  BY <1>2 DEF EntryUi, EntryUiRow
<1>6. Call("restore", 0, None) \in EntryCall /\ Call("restore", 0, None).op = "restore"
  BY DEF Call, EntryCall, EntryOps
<1>7. /\ calls \in [Slots -> EntryCall \cup {None}]
      /\ \A s \in Slots : calls[s] # None => calls[s].op = "restore"
  BY <1>1, <1>6 DEF EntryInit, NoCalls
<1> QED
  BY <1>4, <1>5, <1>7 DEF EntryInv, EntryTypes, OnboardingsHold, Tells, InUse

\* Every step keeps what the way in knows of the account.
LEMMA StepKeepsEntry ==
    ASSUME EntryInv, [LiveNext]_vars
    PROVE  EntryInv'
<1>1. CASE UNCHANGED vars
  BY <1>1 DEF vars, EntryInv, EntryTypes, OnboardingsHold, Tells, InUse, account
<1>2. CASE page # "entry" /\ LiveNext
  <2>1. page' = page
    BY <1>2, ShellStays, InboxStays DEF LiveNext, EntryNext
  <2> QED
    BY <1>2, <2>1 DEF EntryInv
<1>3. CASE page = "entry" /\ LiveNext
  <2>1. EntryNext
    BY <1>3 DEF LiveNext, ShellNext, InboxNext
  <2>2. CASE SessionEnded
    <3>1. /\ ui' = SignedOut /\ UNCHANGED <<page, calls>>
          /\ store' = [store EXCEPT !.rows = [store.rows EXCEPT !.cookie = FALSE]]
          /\ EntryTypes /\ OnboardingsHold /\ Tells(ui, account.stage)
      BY <1>3, <2>2 DEF SessionEnded, EntryInv
    <3>2. /\ store' \in [done : [Drafts -> {0}], lost : [Drafts -> {0}], rows : AccountRow]
          /\ account'.stage = account.stage
      BY <3>1 DEF EntryTypes, AccountRow, account
    <3>3. Tells(SignedOut, account.stage)
      BY <3>1 DEF Tells, SignedOut, EntryUiRow
    <3> QED
      BY <3>1, <3>2, <3>3 DEF EntryInv, EntryTypes, OnboardingsHold, Tells, InUse, account
  <2>3. ASSUME NEW s \in Slots, OnboardingRefreshed(s) \/ EntryAnswered(s)
        PROVE  EntryInv'
    BY <1>3, <2>3, OnboardingKeeps, AnswersKeep
  <2> QED
    BY <1>3, <2>1, <2>2, <2>3, UserKeeps DEF EntryNext
<1> QED
  BY <1>1, <1>2, <1>3

\* However late, twice or never a request is answered: no session tells of an
\* onboarding the backend has not made, so no dashboard opens without it.
THEOREM SessionsTellTheTruth == LiveSpec => []SessionTellsNoMoreThanTheAccount
<1>1. EntryInv /\ [LiveNext]_vars => EntryInv'
  BY StepKeepsEntry
<1>2. EntryInv => SessionTellsNoMoreThanTheAccount
  BY DEF EntryInv, Tells, SessionTellsNoMoreThanTheAccount
<1> QED
  BY InitEntry, <1>1, <1>2, PTL DEF LiveSpec

\* One redirect is enough, wherever it starts and whatever the session is.
THEOREM OneRedirectIsEnough == LiveSpec => RedirectsSettle
<1>1. ASSUME EntryInv, page = "entry", Redirect
      PROVE  RedirectTarget' = None
  <2> DEFINE target == RedirectTarget
  <2>1. ui \in EntryUiRow /\ target # None /\ ui' = Goto(ui, target)
    BY <1>1 DEF EntryInv, EntryTypes, Redirect, Sets
  <2>2. ~ui.restoring /\ ui.transition = None /\ target # ui.route
    BY <2>1 DEF RedirectTarget, Routes, GuestPages, DashboardPages
  <2>3. ui' = [ui EXCEPT !.route = target, !.transition = None, !.sending = None,
                         !.resending = None, !.cooling = FALSE, !.panel = "loading",
                         !.codeSent = FALSE]
    BY <2>1, <2>2 DEF Goto
  <2>4. /\ ui'.route = target /\ ui'.session = ui.session /\ ~ui'.restoring
        /\ ui'.transition = None
    BY <2>1, <2>2, <2>3 DEF EntryUiRow
  <2> QED
    BY <2>1, <2>2, <2>4 DEF RedirectTarget, GuestPages, DashboardPages
<1>2. EntryInv /\ [LiveNext]_vars
        => [page = "entry" /\ Redirect => RedirectTarget' = None]_vars
  BY <1>1
<1>3. EntryInv /\ [LiveNext]_vars => EntryInv'
  BY StepKeepsEntry
<1> QED
  BY InitEntry, <1>2, <1>3, PTL DEF LiveSpec, RedirectsSettle
=============================================================================
