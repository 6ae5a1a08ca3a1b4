------------------------------- MODULE EditorPage -------------------------------
(***************************************************************************)
(* Editors of what the backend holds already: the profile and the settings *)
(* of a business, the personal profile; and the form that makes a new      *)
(* business.                                                               *)
(*                                                                         *)
(* An editor fills its form with what it reads and sends the WHOLE form.   *)
(* It reads again, over what was typed, whenever the provider around it    *)
(* offers another function to read with.  store.rows is what the backend   *)
(* has: two fields, each with one of two values; "type" is the one a save  *)
(* of the business profile puts back into the form.                        *)
(***************************************************************************)
EXTENDS PageRuntime

Fields == {"type", "name"}
Rows   == [Fields -> BOOLEAN]
Stored == [f \in Fields |-> FALSE]

(* What a save carries. *)
WriteRow == [values : Rows, answer : Rows \cup {None}]

ASSUME EditorAssumption ==
    /\ None \notin Rows
    /\ None \notin [op : {"read", "image", "write", "overview"}, draft : {0},
                    arg : Rows \cup WriteRow \cup {None}, state : {"sent"}]

(* `touched`: typed since the form was filled or sent.  `crossed`: the form  *)
(* may be of before a change, because requests crossed, one of them went     *)
(* astray, or someone else wrote.                                            *)
EditorUi(kind) ==
    [kind |-> kind, personal |-> None, values |-> None, touched |-> FALSE, crossed |-> FALSE,
     draft |-> 1, busy |-> FALSE, saved |-> None]

EditorInit ==
    /\ page = "editor"
    /\ \/ /\ \E kind \in {"profile", "settings", "personal"} : ui = EditorUi(kind)
          /\ calls = [NoCalls EXCEPT ![1] = Call("read", 0, None)]
       \/ ui = EditorUi("create") /\ calls = NoCalls
    /\ store = [NoWrites EXCEPT !.rows = Stored]

-----------------------------------------------------------------------------
(* Reading. *)

(* The business editors abort the reading they started, the provider of the *)
(* personal profile lets it go on.  A reading on its own sets things right. *)
ReadAgain ==
    /\ ui.kind # "create"
    /\ \E s \in Slots : /\ \/ Free(s) /\ (ui.kind = "personal" \/ ~UnderWay("read"))
                           \/ InUse(s, "read") /\ ui.kind # "personal"
                        /\ Start(s, "read", 0, None)
    /\ ui' = [ui EXCEPT !.crossed = ~Idling]
    /\ UNCHANGED <<page, store>>

(* Taking the picture away ends in another reading of the person. *)
RemoveImage ==
    /\ ui.kind = "personal" /\ ui.values # None /\ ~UnderWay("image")
    /\ Sends("image", 0, None)
    /\ ui' = [ui EXCEPT !.crossed = @ \/ ~Idling]
    /\ UNCHANGED <<page, store>>

Reads(s) == InUse(s, "read") \/ InUse(s, "image")

ReadServed(s) ==
    /\ Reads(s) /\ calls[s].arg = None
    /\ calls' = [calls EXCEPT ![s].arg = store.rows]
    /\ UNCHANGED <<page, ui, store>>

(* The provider of the personal profile keeps a copy, the others none. *)
Personal(rows) == IF ui.kind = "personal" THEN rows ELSE None

\* Fault: the form keeps what it was filled with first.
FilledOnce(rows) ==
    [ui EXCEPT !.values = IF @ = None THEN rows ELSE @, !.touched = FALSE, !.personal = Personal(rows)]

Filled(rows) == [ui EXCEPT !.values = rows, !.touched = FALSE, !.personal = Personal(rows)]

ReadLanded(s) == Reads(s) /\ calls[s].arg # None /\ Ends(s, calls[s].op, Filled(calls[s].arg))

ReadFailed(s) == Reads(s) /\ Ends(s, calls[s].op, [ui EXCEPT !.crossed = TRUE])

-----------------------------------------------------------------------------
(* Writing. *)

TypeField(field) == ui.values # None /\ Sets([ui EXCEPT !.values[field] = ~@, !.touched = TRUE])

SubmitEditor ==
    /\ ui.values # None /\ ~ui.busy
    /\ Sends("write", 0, [values |-> ui.values, answer |-> None])
    /\ ui' = [ui EXCEPT !.busy = TRUE, !.touched = FALSE, !.crossed = @ \/ ~Idling]
    /\ UNCHANGED <<page, store>>

(* The backend takes every field that differs from what it has. *)
WriteServed(s) ==
    /\ InUse(s, "write") /\ calls[s].arg.answer = None
    /\ store' = [store EXCEPT !.rows = calls[s].arg.values]
    /\ calls' = [calls EXCEPT ![s].arg.answer = calls[s].arg.values]
    /\ UNCHANGED <<page, ui>>

(* What was typed stays in the form, to be sent again. *)
WriteFailed(s) ==
    /\ InUse(s, "write")
    /\ Ends(s, "write", [ui EXCEPT !.busy = FALSE, !.touched = TRUE])

Answered(s) == InUse(s, "write") /\ calls[s].arg.answer # None

ProfileWritten(s) ==
    /\ ui.kind = "profile" /\ Answered(s)
    /\ Ends(s, "write", [ui EXCEPT !.busy = FALSE, !.values.type = calls[s].arg.answer.type])

SettingsWritten(s) ==
    /\ ui.kind = "settings" /\ Answered(s)
    /\ Ends(s, "write", [ui EXCEPT !.busy = FALSE])

(* The form is filled anew, and the overview is read before it is left. *)
PersonalWritten(s) ==
    /\ ui.kind = "personal" /\ Answered(s)
    /\ Start(s, "overview", 0, None)
    /\ ui' = Filled(calls[s].arg.answer)
    /\ UNCHANGED <<page, store>>

(* Coming back, the form shows the person as the provider has it.  An error *)
(* here is shown as one of the save, and the form stays.                    *)
OverviewRead(s) ==
    \/ Ends(s, "overview", [Filled(ui.personal) EXCEPT !.busy = FALSE])
    \/ Ends(s, "overview", [ui EXCEPT !.busy = FALSE])

(* Another leader, or the same person in another tab. *)
SomeoneElse ==
    /\ ui.kind # "create"
    /\ \E field \in Fields : store' = [store EXCEPT !.rows[field] = ~@]
    /\ ui' = [ui EXCEPT !.crossed = TRUE]
    /\ UNCHANGED <<page, calls>>

-----------------------------------------------------------------------------
(* A new business: the form is left for its workspace. *)

CreateBusiness ==
    /\ ui.kind = "create" /\ ~ui.busy /\ ui.draft \in Drafts
    /\ Sends("save", ui.draft, None)
    /\ ui' = [ui EXCEPT !.busy = TRUE]
    /\ UNCHANGED <<page, store>>

BusinessCreated(s) ==
    /\ Saved(s, [EditorUi("create") EXCEPT !.draft = Following(ui.draft)])
    /\ Finish(s)

BusinessNotCreated(s) == NotSaved(s, [ui EXCEPT !.busy = FALSE])

EditorUser ==
    \/ ReadAgain \/ RemoveImage \/ SubmitEditor \/ CreateBusiness
    \/ \E field \in Fields : TypeField(field)

EditorAnswered(s) ==
    \/ ReadServed(s) \/ ReadLanded(s) \/ ReadFailed(s)
    \/ WriteServed(s) \/ WriteFailed(s)
    \/ ProfileWritten(s) \/ SettingsWritten(s) \/ PersonalWritten(s) \/ OverviewRead(s)
    \/ BusinessCreated(s) \/ BusinessNotCreated(s)

EditorNext ==
    /\ page = "editor"
    /\ EditorUser \/ SomeoneElse \/ \E s \in Slots : EditorAnswered(s)

-----------------------------------------------------------------------------
(* A form at rest in which nothing was typed shows what the backend has,    *)
(* whatever was saved, refused, read again or typed before: `crossed` names *)
(* all the ways in which it may be older.                                   *)
EditorsFollowTheBackend ==
    page = "editor" /\ Idling /\ ui.values # None /\ ~ui.touched /\ ~ui.crossed
        => ui.values = store.rows
=============================================================================
