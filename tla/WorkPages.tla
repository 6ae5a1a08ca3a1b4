------------------------------- MODULE WorkPages -------------------------------
(***************************************************************************)
(* The pages a user works on, each of which loads, edits and saves: one of *)
(* Pages is mounted, on the runtime they share.  What every page promises  *)
(* of its submissions is stated here, what is special to one in its own    *)
(* module.                                                                 *)
(***************************************************************************)
EXTENDS SalesPage, ReturnsPage, FinancingPage, AgreementsPage, StockRecorderPage, ReceiptsPage,
        CatalogPage, ExpensesPage, BudgetsPage, DocumentsPage, TeamPage, AssistantPage, SearchPage,
        PreferencesPage, EditorPage

CONSTANT Pages

(* What a submission carries: the sale that is edited, a return, an          *)
(* agreement, a receipt of stock, an expense, a budget; of other forms only  *)
(* the draft is known.                                                       *)
ReturnRow  == [quantity : Nat, refund : Nat \cup {None}]
ReceiptRow == [status : {"draft", "received"}, lines : UNION {[c -> LineRow] : c \in SUBSET Choices}]
ExpenseRow == [editing : ExpenseRows \cup {None}, filter : ExpenseFilters]
BudgetRow  == [type : PeriodTypes, value : {"month", "date"}]

Payloads == SaleRows \cup ReturnRow \cup AgreementRow \cup ReceiptRow \cup ExpenseRow \cup BudgetRow
              \cup {None}

SaveRow == [op : {"save"}, draft : Drafts, arg : Payloads, state : {"sent", "ok", "error"}]

ASSUME SubmissionAssumption == None \notin SaveRow

WorkInit ==
    /\ page \in Pages
    /\ \/ SalesInit \/ ReturnsInit \/ FinancingInit \/ AgreementsInit \/ StockInit \/ ReceiptsInit
       \/ CatalogInit \/ ExpensesInit \/ BudgetsInit \/ DocumentsInit \/ TeamInit \/ AssistantInit
       \/ SearchInit \/ PreferencesInit \/ EditorInit

(* The backend and the network, whatever page is mounted. *)
Network == \E s \in Slots : Settle(s)

WorkNext ==
    \/ Network
    \/ SalesNext \/ ReturnsNext \/ FinancingNext \/ AgreementsNext \/ StockNext \/ ReceiptsNext
    \/ CatalogNext \/ ExpensesNext \/ BudgetsNext \/ DocumentsNext \/ TeamNext \/ AssistantNext
    \/ SearchNext \/ PreferencesNext \/ EditorNext

(* A request under way is settled, and its continuation run. *)
Proceeds(s) ==
    \/ Settle(s)
    \/ page = "sales"       /\ SalesAnswered(s)
    \/ page = "returns"     /\ ReturnsAnswered(s)
    \/ page = "financing"   /\ FinancingAnswered(s)
    \/ page = "agreements"  /\ AgreementsAnswered(s)
    \/ page = "stock"       /\ StockAnswered(s)
    \/ page = "receipts"    /\ ReceiptsAnswered(s)
    \/ page = "catalog"     /\ CatalogAnswered(s)
    \/ page = "expenses"    /\ ExpensesAnswered(s)
    \/ page = "budgets"     /\ BudgetsAnswered(s)
    \/ page = "team"        /\ TeamAnswered(s)
    \/ page = "assistant"   /\ AssistantAnswered(s)
    \/ page = "search"      /\ SearchAnswered(s)
    \/ page = "preferences" /\ PreferencesAnswered(s)
    \/ page = "editor"      /\ EditorAnswered(s)

(* The network answers or breaks: no request is left pending for ever.  The *)
(* user, timers and reloads are not relied upon.                            *)
WorkSpec ==
    /\ WorkInit /\ [][WorkNext]_vars
    /\ \A s \in Slots : WF_vars(Proceeds(s))

-----------------------------------------------------------------------------
(* What was filled in once is executed once by the backend, unless an       *)
(* answer was lost and the user sent it again: no order of clicks, resets,  *)
(* edits and late answers sends a draft twice.  Payments are left out: the  *)
(* button of savePayment waits for nothing, and a second click pays twice.  *)
SubmissionsRunOnce ==
    page # "agreements" => \A d \in Drafts : store.done[d] <= 1 + store.lost[d]

(* A page that shows itself busy stops doing so, on every path through its  *)
(* handlers: errors, lost answers, further requests of the user beside it.  *)
BusyEnds == ui.busy ~> ~ui.busy
=============================================================================
