----------------------------- MODULE BudgetsPage -----------------------------
(***************************************************************************)
(* The budgets of a business: a form that plans an amount for a day, a     *)
(* week or a month, and the list.  Saving a period again replaces its      *)
(* amount: every submission is a draft of its own.                         *)
(***************************************************************************)
EXTENDS PageRuntime

PeriodTypes == {"daily", "weekly", "monthly"}

(* value: what the input of the period holds, a date or a month. *)
BudgetsUi == [type |-> "monthly", value |-> "month", complete |-> FALSE, loading |-> TRUE,
              draft |-> 1, busy |-> FALSE, saved |-> None]

BudgetsInit == page = "budgets" /\ ui = BudgetsUi /\ calls = Mounted /\ store = NoWrites

InitialPeriod(type) == IF type = "monthly" THEN "month" ELSE "date"

ChangePeriodType(type) == Sets([ui EXCEPT !.type = type, !.value = InitialPeriod(type)])

(* The amount and the period are required; a period can be emptied. *)
TypeBudget(complete) == Sets([ui EXCEPT !.complete = complete])

SubmitBudget ==
    /\ ui.complete /\ ~ui.busy /\ ui.draft \in Drafts
    /\ Sends("save", ui.draft, [type |-> ui.type, value |-> ui.value])
    /\ ui' = [ui EXCEPT !.busy = TRUE]
    /\ UNCHANGED <<page, store>>

(* The form keeps what it holds. *)
BudgetSaved(s) == Saved(s, [ui EXCEPT !.draft = Following(@)]) /\ Start(s, "reload", 0, None)

BudgetNotSaved(s) == NotSaved(s, [ui EXCEPT !.busy = FALSE])

BudgetsLoaded(s) ==
    \/ Ends(s, "load", [ui EXCEPT !.loading = FALSE])
    \/ Ends(s, "reload", [ui EXCEPT !.loading = FALSE, !.busy = FALSE])

BudgetsUser ==
    \/ SubmitBudget
    \/ \E type \in PeriodTypes : ChangePeriodType(type)
    \/ \E complete \in BOOLEAN : TypeBudget(complete)

BudgetsAnswered(s) == BudgetSaved(s) \/ BudgetNotSaved(s) \/ BudgetsLoaded(s)

BudgetsNext ==
    /\ page = "budgets"
    /\ BudgetsUser \/ Reloads \/ \E s \in Slots : BudgetsAnswered(s)
=============================================================================
