------------------------------ MODULE SearchPage ------------------------------
(***************************************************************************)
(* Two searches.  The search bar of a workspace is submitted; the search   *)
(* for a business to ask access to runs by itself, a moment after the last *)
(* key, until a business is selected, which is then asked.                 *)
(*                                                                         *)
(* Queries are what may be typed.  `results` is None or the query they are *)
(* the answer to; `controller` the request that has not been aborted.      *)
(***************************************************************************)
EXTENDS PageRuntime

CONSTANT Queries

ASSUME SearchAssumption ==
    /\ None \notin Queries /\ "" \notin Queries
    /\ None \notin [op : {"search"}, draft : {0}, arg : Queries \cup {""}, state : {"sent"}]

SearchUi(kind) ==
    [kind |-> kind, query |-> "", submitted |-> None, waiting |-> FALSE, loading |-> FALSE,
     controller |-> None, results |-> None, failed |-> FALSE, open |-> FALSE,
     selected |-> None, draft |-> 1, busy |-> FALSE, saved |-> None]

SearchInit ==
    /\ page = "search" /\ calls = NoCalls /\ store = NoWrites
    /\ \E kind \in {"bar", "access"} : ui = SearchUi(kind)

(* An aborted request still ends, with nobody to hear of it. *)
Abort(next) == [next EXCEPT !.controller = None]

Searches(next, query) ==
    /\ \E s \in Slots : Free(s) /\ Start(s, "search", 0, query) /\ ui' = [next EXCEPT !.controller = s]
    /\ UNCHANGED <<page, store>>

-----------------------------------------------------------------------------
(* The bar of a workspace. *)

TypeSearch(query) ==
    ui.kind = "bar" /\ query # ui.query /\ Sets([ui EXCEPT !.query = query, !.open = FALSE])

SubmitSearch ==
    /\ ui.kind = "bar" /\ ~ui.loading
    /\ Searches([Abort(ui) EXCEPT !.submitted = ui.query, !.loading = TRUE, !.failed = FALSE, !.open = TRUE],
                ui.query)

ClearSearch == ui.kind = "bar" /\ (ui.query # "" \/ ui.open) /\ Sets(SearchUi("bar"))

(* Leads to the page of what was found; the results stay behind. *)
OpenResult == ui.kind = "bar" /\ ui.open /\ ~ui.loading /\ ~ui.failed /\ ui.results # None /\ Sets([ui EXCEPT !.open = FALSE])

-----------------------------------------------------------------------------
(* The request for access. *)

(* The effect on the query and on the selection: without a query, or with a *)
(* selection, nothing is searched; otherwise the timer starts anew.         *)
AfterTyping(next) ==
    IF next.query = "" \/ next.selected # None
    THEN [Abort(next) EXCEPT !.results = None, !.loading = FALSE, !.failed = FALSE, !.waiting = FALSE]
    ELSE [Abort(next) EXCEPT !.waiting = TRUE]

UpdateQuery(query) ==
    /\ ui.kind = "access" /\ query # ui.query
    /\ Sets(AfterTyping([ui EXCEPT !.query = query, !.selected = None]))

(* Another access token gives the effect another function to search with. *)
SearchAgain == ui.kind = "access" /\ Sets(AfterTyping(ui))

SearchTimer ==
    /\ ui.kind = "access" /\ ui.waiting
    /\ Searches([ui EXCEPT !.waiting = FALSE, !.submitted = ui.query, !.loading = TRUE, !.failed = FALSE],
                ui.query)

SelectBusiness ==
    /\ ui.kind = "access" /\ ui.results # None /\ ~ui.loading /\ ~ui.failed
    /\ Sets(AfterTyping([ui EXCEPT !.selected = ui.results]))

(* The form keeps the submit button busy; a success leaves the page. *)
SubmitAccessRequest ==
    /\ ui.kind = "access" /\ ui.selected # None /\ ~ui.busy /\ ui.draft \in Drafts
    /\ Sends("save", ui.draft, None)
    /\ ui' = [ui EXCEPT !.busy = TRUE]
    /\ UNCHANGED <<page, store>>

AccessRequested(s) ==
    /\ Saved(s, [SearchUi("access") EXCEPT !.draft = Following(ui.draft)])
    /\ Finish(s)

(* Someone who belongs to the business already is led to it. *)
AccessNotRequested(s) ==
    \/ NotSaved(s, [ui EXCEPT !.busy = FALSE])
    \/ NotSaved(s, [SearchUi("access") EXCEPT !.draft = Following(ui.draft)])

-----------------------------------------------------------------------------
(* A search ends.  The one for access clears `searching` even if it was     *)
(* aborted; the bar drops what it showed when it fails.                     *)

Overtaken(s) == IF ui.kind = "access" THEN [ui EXCEPT !.loading = FALSE] ELSE ui

\* Fault: an overtaken answer is listed all the same.
AnySearchLanded(s) ==
    /\ InUse(s, "search")
    /\ Ends(s, "search", [Abort(ui) EXCEPT !.results = calls[s].arg, !.loading = FALSE])

SearchLanded(s) ==
    /\ InUse(s, "search") /\ ui.controller = s
    /\ Ends(s, "search", [Abort(ui) EXCEPT !.results = calls[s].arg, !.loading = FALSE])

SearchFailed(s) ==
    /\ InUse(s, "search")
    /\ Ends(s, "search", IF ui.controller = s
                         THEN [Abort(ui) EXCEPT !.results = IF ui.kind = "bar" THEN None ELSE @,
                                                !.loading = FALSE, !.failed = TRUE]
                         ELSE Overtaken(s))

SearchUser ==
    \/ SubmitSearch \/ ClearSearch \/ OpenResult \/ SelectBusiness \/ SubmitAccessRequest
    \/ \E query \in Queries \cup {""} : TypeSearch(query) \/ UpdateQuery(query)

SearchAnswered(s) ==
    SearchLanded(s) \/ SearchFailed(s) \/ AccessRequested(s) \/ AccessNotRequested(s)

SearchNext ==
    /\ page = "search"
    /\ SearchUser \/ SearchTimer \/ SearchAgain \/ \E s \in Slots : SearchAnswered(s)

-----------------------------------------------------------------------------
(* What is listed answers the last question that was asked, unless its      *)
(* answer is still awaited, a new one about to be asked, or the page says   *)
(* that it failed: an overtaken search never fills in the list, nor covers  *)
(* a selection with it.                                                     *)
ResultsAnswerTheLastSearch ==
    page = "search" /\ ui.results # None =>
        /\ ui.selected = None
        /\ ui.results # ui.submitted => ui.waiting \/ ui.controller # None \/ ui.failed
=============================================================================
