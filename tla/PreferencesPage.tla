---------------------------- MODULE PreferencesPage ----------------------------
(***************************************************************************)
(* The preferences of an account: shown as they are chosen, before the     *)
(* backend has them, and put back to what they were when it refuses.       *)
(*                                                                         *)
(* Two of the preferences stand for all, each with the value it had and    *)
(* one it is changed to.  store.rows is what the backend has.              *)
(***************************************************************************)
EXTENDS PageRuntime

Preferences == {"language", "appearance"}
Chosen      == [Preferences -> BOOLEAN]
Unchanged   == [p \in Preferences |-> FALSE]

(* What an update carries. *)
UpdateRow == [field : Preferences, value : BOOLEAN, previous : Chosen,
              answer : Chosen \cup {None}, saving : BOOLEAN]

ASSUME PreferencesAssumption ==
    /\ None \notin Chosen
    /\ None \notin [op : {"get", "update"}, draft : {0}, arg : UpdateRow \cup {None}, state : {"sent"}]

PreferencesUi ==
    [shown |-> None, loading |-> TRUE, failed |-> FALSE, saving |-> None, crossed |-> FALSE,
     draft |-> 1, busy |-> FALSE, saved |-> None]

PreferencesInit ==
    /\ page = "preferences" /\ ui = PreferencesUi
    /\ calls = [NoCalls EXCEPT ![1] = Call("get", 0, None)]
    /\ store = [NoWrites EXCEPT !.rows = Unchanged]

-----------------------------------------------------------------------------
(* Reading. *)

(* Another access token, or the retry button. *)
LoadPreferences ==
    /\ ~UnderWay("get")
    /\ Sends("get", 0, None)
    /\ ui' = [ui EXCEPT !.crossed = @ \/ ~Idling, !.loading = TRUE, !.failed = FALSE]
    /\ UNCHANGED <<page, store>>

(* The first load in a browser also sends its time zone, and takes that answer. *)
PreferencesServed(s) ==
    /\ InUse(s, "get")
    /\ calls' = [calls EXCEPT ![s].arg = store.rows]
    /\ UNCHANGED <<page, ui, store>>

PreferencesLoaded(s) ==
    /\ InUse(s, "get") /\ calls[s].arg # None
    /\ Ends(s, "get", [ui EXCEPT !.shown = calls[s].arg, !.loading = FALSE])

PreferencesNotLoaded(s) == Ends(s, "get", [ui EXCEPT !.failed = TRUE, !.loading = FALSE])

-----------------------------------------------------------------------------
(* Changing. *)

(* update(): the request keeps what was shown before. *)
Updating(p, next, saving) ==
    /\ ui.shown # None
    /\ Sends("update", 0, [field |-> p, value |-> ~ui.shown[p], previous |-> ui.shown,
                           answer |-> None, saving |-> saving])
    /\ ui' = [next EXCEPT !.shown[p] = ~@, !.crossed = @ \/ ~Idling]
    /\ UNCHANGED <<page, store>>

(* On the page the control that was used last waits, the others do not. *)
ChoosePreference(p) ==
    /\ ~ui.loading /\ ~ui.failed /\ ui.saving # p
    /\ Updating(p, [ui EXCEPT !.saving = p, !.busy = TRUE], TRUE)

(* The switchers of the header wait for nothing. *)
SwitchPreference(p) == Updating(p, ui, FALSE)

Updates(s, answer) == InUse(s, "update") /\ calls[s].arg.answer = answer

UpdateServed(s) ==
    /\ Updates(s, None)
    /\ LET next == [store.rows EXCEPT ![calls[s].arg.field] = calls[s].arg.value]
       IN  /\ store' = [store EXCEPT !.rows = next]
           /\ calls' = [calls EXCEPT ![s].arg.answer = next]
    /\ UNCHANGED <<page, ui>>

Done(s) == IF calls[s].arg.saving THEN [ui EXCEPT !.saving = None, !.busy = FALSE] ELSE ui

PreferenceUpdated(s) ==
    /\ InUse(s, "update") /\ calls[s].arg.answer # None
    /\ Ends(s, "update", [Done(s) EXCEPT !.shown = calls[s].arg.answer])

\* Fault: the choice stays on screen.
NotRolledBack(s) == Done(s)

(* Refused, or the answer was lost: what was shown before is shown again,   *)
(* whatever has been chosen since.                                          *)
RolledBack(s) == [Done(s) EXCEPT !.shown = calls[s].arg.previous]

PreferenceRefused(s) == Updates(s, None) /\ Ends(s, "update", RolledBack(s))

(* Nothing tells the page that the backend has it. *)
PreferenceLost(s) ==
    /\ InUse(s, "update") /\ calls[s].arg.answer # None
    /\ Ends(s, "update", [RolledBack(s) EXCEPT !.crossed = TRUE])

PreferencesUser == LoadPreferences \/ \E p \in Preferences : ChoosePreference(p) \/ SwitchPreference(p)

PreferencesAnswered(s) ==
    \/ PreferencesServed(s) \/ PreferencesLoaded(s) \/ PreferencesNotLoaded(s)
    \/ UpdateServed(s) \/ PreferenceUpdated(s) \/ PreferenceRefused(s) \/ PreferenceLost(s)

PreferencesNext ==
    /\ page = "preferences"
    /\ PreferencesUser \/ \E s \in Slots : PreferencesAnswered(s)

-----------------------------------------------------------------------------
(* As long as requests do not cross and no answer is lost, the page shows   *)
(* what the backend has whenever nothing is under way: a refusal leaves no  *)
(* trace of the choice.  `crossed` is where the page may be wrong.          *)
ChoicesFollowTheBackend ==
    page = "preferences" /\ Idling /\ ~ui.crossed /\ ui.shown # None
        => ui.shown = store.rows
=============================================================================
