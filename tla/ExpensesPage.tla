----------------------------- MODULE ExpensesPage -----------------------------
(***************************************************************************)
(* The expenses of a business: one form that records a new expense or      *)
(* changes an earlier one, the receipt of an expense, and the list by      *)
(* month and category.                                                     *)
(*                                                                         *)
(* `filter` is the month and category chosen, `listed` those the rows on   *)
(* screen were asked for; a reading remembers what it was asked for.  A    *)
(* required field that is empty keeps the browser from submitting.         *)
(***************************************************************************)
EXTENDS PageRuntime

ExpenseFilters == {"this", "earlier"}
ExpenseRows == {"rent", "fuel"}

ExpensesUi == [editing |-> None, complete |-> FALSE, receipt |-> None, filter |-> "this",
               listed |-> None, loading |-> TRUE, draft |-> 1, busy |-> FALSE, saved |-> None]

ExpensesInit ==
    /\ page = "expenses" /\ ui = ExpensesUi /\ store = NoWrites
    /\ calls = [NoCalls EXCEPT ![1] = Call("load", 0, "this")]

(* A filter that changes aborts the reading its effect started, never the   *)
(* one a submission waits for.                                              *)
ChooseFilter(f) ==
    /\ f # ui.filter
    /\ \E s \in Slots : /\ InUse(s, "load") \/ (Free(s) /\ ~UnderWay("load"))
                        /\ Start(s, "load", 0, f)
    /\ ui' = [ui EXCEPT !.filter = f]
    /\ UNCHANGED <<page, store>>

ExpensesLoaded(s) ==
    \/ Ends(s, "load", [ui EXCEPT !.listed = calls[s].arg, !.loading = FALSE])
    \/ Ends(s, "load", [ui EXCEPT !.loading = FALSE])
    \/ Ends(s, "reload", [ui EXCEPT !.listed = calls[s].arg, !.loading = FALSE, !.busy = FALSE])
    \/ Ends(s, "reload", [ui EXCEPT !.loading = FALSE, !.busy = FALSE])

-----------------------------------------------------------------------------
(* The form, which is mounted anew for each expense that is changed. *)

NewForm(editing) == [ui EXCEPT !.editing = editing, !.complete = editing # None, !.draft = Following(@)]

BeginEditExpense(e) ==
    /\ ui.listed # None \/ ui.receipt = e
    /\ Sets([NewForm(e) EXCEPT !.receipt = e])

CancelEditExpense == ui.editing # None /\ Sets(NewForm(None))

TypeExpense(complete) == Sets([ui EXCEPT !.complete = complete])

SubmitExpense ==
    /\ ui.complete /\ ~ui.busy /\ ui.draft \in Drafts
    /\ Sends("save", ui.draft, [editing |-> ui.editing, filter |-> ui.filter])
    /\ ui' = [ui EXCEPT !.busy = TRUE]
    /\ UNCHANGED <<page, store>>

(* The receipt of what was saved is shown and the form goes back to a new   *)
(* expense.  form.reset() empties the form that was submitted, which is the *)
(* one on screen unless another expense was opened since; either way the    *)
(* next one starts empty.  The list is read for the month and category of   *)
(* the submission, not for those chosen since.                              *)
ExpenseSaved(s) ==
    /\ Saved(s, [NewForm(None) EXCEPT !.saved = calls[s].draft,
                                      !.receipt = IF calls[s].arg.editing = None THEN "rent"
                                                  ELSE calls[s].arg.editing])
    /\ Start(s, "reload", 0, calls[s].arg.filter)

ExpenseNotSaved(s) == NotSaved(s, [ui EXCEPT !.busy = FALSE])

-----------------------------------------------------------------------------
(* Receipts. *)

ShowExpenseReceipt(e) == ui.listed # None /\ Sets([ui EXCEPT !.receipt = e, !.saved = None])

CloseExpenseReceipt == ui.receipt # None /\ Sets([ui EXCEPT !.receipt = None, !.saved = None])

ExpensesUser ==
    \/ CancelEditExpense \/ SubmitExpense \/ CloseExpenseReceipt
    \/ \E f \in ExpenseFilters : ChooseFilter(f)
    \/ \E e \in ExpenseRows : BeginEditExpense(e) \/ ShowExpenseReceipt(e)
    \/ \E complete \in BOOLEAN : TypeExpense(complete)

ExpensesAnswered(s) == ExpensesLoaded(s) \/ ExpenseSaved(s) \/ ExpenseNotSaved(s)

ExpensesNext ==
    /\ page = "expenses"
    /\ ExpensesUser \/ \E s \in Slots : ExpensesAnswered(s)
=============================================================================
