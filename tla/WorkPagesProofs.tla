---------------------------- MODULE WorkPagesProofs ----------------------------
(***************************************************************************)
(* Theorems about the work pages under WorkSpec, for every constant: any   *)
(* number of calls, drafts, lost answers, products, queries and messages.  *)
(*                                                                         *)
(* No page changes which page is open (PageStays), so an invariant about   *)
(* one page is kept by the steps of that page and by nothing else.  For    *)
(* each page a lemma says what a step does to its state (OwnSteps), and    *)
(* the invariant that is inductive adds to the property what is still on   *)
(* its way: which answers a call may yet carry, and which handler is to    *)
(* run.                                                                    *)
(***************************************************************************)
EXTENDS WorkPages, TLAPS

LEMMA SalesStays == SalesNext => page' = page
  BY DEF Start, Finish, Sends, Sets, Saved, NotSaved, Ends, Reloads, ToggleRecorder,
     ChooseTransaction, ChooseSaleMode, UpdateSaleLine, AddSaleLine, RemoveSaleLine,
     FillTradeIn, SubmitSale, SaleSaved, SaleNotSaved, SalesLoaded, BeginEdit, VoidSale,
     SaleVoided, ToggleSaleDetails, CloseSaleReceipt, SalesUser, SalesAnswered, SalesNext

LEMMA ReturnsStays == ReturnsNext => page' = page
  BY DEF Start, Finish, Sends, Sets, Saved, NotSaved, Ends, Reloads, SearchSales,
     SalesFound, ChooseSale, ReturnsLoaded, TypeQuantity, ChooseResolution, TypeRefund,
     UseFullRefund, ChooseSource, StockReplacement, IndependentReplacement,
     ChooseAnotherReceipt, SubmitReturn, ReturnSaved, ReturnNotSaved, ReturnsReloaded,
     ReturnsUser, ReturnsAnswered, ReturnsNext

LEMMA FinancingStays == FinancingNext => page' = page
  BY DEF Start, Finish, Sends, Sets, Saved, NotSaved, Ends, Reloads,
     ToggleAgreementRecorder, GoToStep, SetUp, TypeCustomer, UpdateFinancingLine,
     AddFinancingLine, RemoveFinancingLine, TypeTerms, NextStep, SubmitAgreement,
     AgreementSaved, AgreementNotSaved, FinancingLoaded, CloseSummary, FinancingUser,
     FinancingAnswered, FinancingNext

LEMMA AgreementsStays == AgreementsNext => page' = page
  BY DEF Start, Finish, Sends, Sets, Saved, NotSaved, Ends, Reloads, AgreementsLoaded,
     TypePayment, SavePayment, PaymentSaved, PaymentNotSaved, ChooseDocument, SaveDocument,
     DocumentSaved, DocumentEnds, AgreementsUser, AgreementsAnswered, AgreementsNext

LEMMA StockStays == StockNext => page' = page
  BY DEF Start, Finish, Sends, Sets, Saved, NotSaved, Ends, Reloads, Edit, GoBack, GoHome,
     ShowStockDetails, LeaveStockDetails, OpenGroup, BeginNewGroup, CreateGroup,
     BeginNewVariety, CreateVariety, BeginSimpleProduct, CreateSimpleProduct, Records,
     StartRecording, RecordVariety, RemoveSelected, UpdateCurrentLine, ContinueRecording,
     AddItem, RemoveRecordedItem, AddAnotherVariety, FinishGroup, ReviewStock, SaveStock,
     StockSaved, StockNotSaved, RecordAnother, LateDelivery, StockLoaded, ProductsScreen,
     NewGroupScreen, GroupVarietiesScreen, NewVarietyScreen, NewSimpleScreen,
     RecordingScreen, ItemEntryScreen, AfterVarietyScreen, StockDetailsScreen, ReviewScreen,
     RecorderFrame, StockUser, StockAnswered, StockNext

LEMMA ReceiptsStays == ReceiptsNext => page' = page
  BY DEF Start, Finish, Sends, Sets, Saved, NotSaved, Ends, Reloads, ReceiptsRead,
     ReceiptsListed, ToggleDetails, ArchiveDraft, DraftArchived, ArchiveEnds, ToggleMenu,
     CloseMenu, ChooseMode, LeaveMode, ChooseReceipt, CloseWindow, CancelCorrection,
     SaveCorrection, ReceiptsChanged, CorrectionSaved, CorrectionNotSaved, StockReloaded, ReceiptsUser,
     ReceiptsAnswered, ReceiptsNext

LEMMA CatalogStays == CatalogNext => page' = page
  BY DEF Start, Finish, Sends, Sets, Saved, NotSaved, Ends, ReloadCatalog, CatalogLoaded,
     ReviewEmptyItems, OpenEdit, CloseEdit, TypeCorrection, SaveProduct, ProductSaved,
     ProductNotSaved, ArchiveEmptyProduct, ProductArchived, CatalogUser, CatalogAnswered,
     CatalogNext

LEMMA ExpensesStays == ExpensesNext => page' = page
  BY DEF Start, Finish, Sends, Sets, Saved, NotSaved, Ends, ChooseFilter, ExpensesLoaded,
     BeginEditExpense, CancelEditExpense, TypeExpense, SubmitExpense, ExpenseSaved,
     ExpenseNotSaved, ShowExpenseReceipt, CloseExpenseReceipt, ExpensesUser,
     ExpensesAnswered, ExpensesNext

LEMMA BudgetsStays == BudgetsNext => page' = page
  BY DEF Start, Finish, Sends, Sets, Saved, NotSaved, Ends, Reloads, ChangePeriodType,
     TypeBudget, SubmitBudget, BudgetSaved, BudgetNotSaved, BudgetsLoaded, BudgetsUser,
     BudgetsAnswered, BudgetsNext

LEMMA DocumentsStays == DocumentsNext => page' = page
  BY DEF Sets, OpenDocument, CloseDocument, CopyDocument, ShareDocument, PrintDocument,
     FramePrinted, FrameRemoved, DocumentsNext

LEMMA TeamStays == TeamNext => page' = page
  BY DEF Start, Finish, Sends, Sets, Ends, Acts, RoleChanges, TeamLoaded, UpdateRole,
     UpdateStatus, MemberUpdated, TypeInvitation, ChooseInviteRole, SendInvitation,
     InvitationSent, CancelInvitation, InvitationCancelled, ChooseApprovalRole,
     DecideRequest, RequestDecided, TeamUser, TeamAnswered, TeamNext

LEMMA AssistantStays == AssistantNext => page' = page
  BY DEF Start, Finish, Sets, Ends, ChangeMode, TypeMessage, SendMessage, AnswerArrives,
     AnswerFails, LeaveConversation, AssistantUser, AssistantAnswered, AssistantNext

LEMMA SearchStays == SearchNext => page' = page
  BY DEF Start, Finish, Sends, Sets, Saved, NotSaved, Ends, Searches, TypeSearch,
     SubmitSearch, ClearSearch, OpenResult, UpdateQuery, SearchAgain, SearchTimer,
     SelectBusiness, SubmitAccessRequest, AccessRequested, AccessNotRequested, SearchLanded,
     SearchFailed, SearchUser, SearchAnswered, SearchNext

LEMMA PreferencesStays == PreferencesNext => page' = page
  BY DEF Start, Finish, Sends, Ends, LoadPreferences, PreferencesServed, PreferencesLoaded,
     PreferencesNotLoaded, Updating, ChoosePreference, SwitchPreference, UpdateServed,
     PreferenceUpdated, PreferenceRefused, PreferenceLost, PreferencesUser,
     PreferencesAnswered, PreferencesNext

LEMMA EditorStays == EditorNext => page' = page
  BY DEF Start, Finish, Sends, Sets, Saved, NotSaved, Ends, ReadAgain, RemoveImage,
     ReadServed, ReadLanded, ReadFailed, TypeField, SubmitEditor, WriteServed, WriteFailed,
     ProfileWritten, SettingsWritten, PersonalWritten, OverviewRead, SomeoneElse,
     CreateBusiness, BusinessCreated, BusinessNotCreated, EditorUser, EditorAnswered,
     EditorNext

(* The page that is mounted stays mounted. *)
LEMMA PageStays == [WorkNext]_vars => page' = page
<1>1. Network => page' = page
  BY DEF Network, Settle, Serve, Refuse, Lose
<1> QED
  BY <1>1, SalesStays, ReturnsStays, FinancingStays, AgreementsStays, StockStays, ReceiptsStays,
     CatalogStays, ExpensesStays, BudgetsStays, DocumentsStays, TeamStays, AssistantStays,
     SearchStays, PreferencesStays, EditorStays DEF WorkNext, vars

(* A step of the whole is one of the network or of the page that is mounted. *)
LEMMA OwnSteps ==
    WorkNext =>
        \/ Network
        \/ page = "sales"       /\ SalesNext
        \/ page = "returns"     /\ ReturnsNext
        \/ page = "financing"   /\ FinancingNext
        \/ page = "agreements"  /\ AgreementsNext
        \/ page = "stock"       /\ StockNext
        \/ page = "receipts"    /\ ReceiptsNext
        \/ page = "catalog"     /\ CatalogNext
        \/ page = "expenses"    /\ ExpensesNext
        \/ page = "budgets"     /\ BudgetsNext
        \/ page = "documents"   /\ DocumentsNext
        \/ page = "team"        /\ TeamNext
        \/ page = "assistant"   /\ AssistantNext
        \/ page = "search"      /\ SearchNext
        \/ page = "preferences" /\ PreferencesNext
        \/ page = "editor"      /\ EditorNext
  BY DEF WorkNext, SalesNext, ReturnsNext, FinancingNext, AgreementsNext, StockNext, ReceiptsNext,
     CatalogNext, ExpensesNext, BudgetsNext, DocumentsNext, TeamNext, AssistantNext, SearchNext,
     PreferencesNext, EditorNext

-----------------------------------------------------------------------------
(* Requests under way are rows of one shape, and settling one keeps all but *)
(* its state.                                                               *)
Formed(c) == c = [op |-> c.op, draft |-> c.draft, arg |-> c.arg, state |-> c.state]

CallsFormed == DOMAIN calls = Slots /\ \A s \in Slots : calls[s] # None => Formed(calls[s])

StoreFormed == store = [done |-> store.done, lost |-> store.lost, rows |-> store.rows]

LEMMA SettleFacts ==
    ASSUME CallsFormed, StoreFormed, NEW t \in Slots, Settle(t)
    PROVE  /\ CallsFormed' /\ StoreFormed' /\ page' = page /\ ui' = ui
           /\ \A s \in Slots : s # t => calls'[s] = calls[s]
           /\ InUse(t, "save") /\ calls'[t].op = calls[t].op /\ calls'[t].arg = calls[t].arg
           /\ store'.rows = store.rows
<1>1. /\ calls[t] # None /\ calls[t].op = "save" /\ page' = page /\ ui' = ui
      /\ \E state \in {"ok", "error"} : calls' = [calls EXCEPT ![t].state = state]
  BY DEF Settle, Serve, Refuse, Lose, Saves, InUse
<1>2. PICK state \in {"ok", "error"} : calls' = [calls EXCEPT ![t].state = state]
  BY <1>1
<1>3. calls'[t] = [op |-> calls[t].op, draft |-> calls[t].draft, arg |-> calls[t].arg, state |-> state]
  BY <1>1, <1>2 DEF CallsFormed, Formed
<1>4. DOMAIN calls' = Slots /\ \A s \in Slots : s # t => calls'[s] = calls[s]
  BY <1>2 DEF CallsFormed
<1>5. CallsFormed'
  BY <1>3, <1>4 DEF CallsFormed, Formed
<1>6. StoreFormed' /\ store'.rows = store.rows
  BY DEF StoreFormed, Settle, Serve, Refuse, Lose
<1> QED
  BY <1>1, <1>3, <1>4, <1>5, <1>6 DEF InUse

LEMMA StartFacts ==
    ASSUME CallsFormed, NEW t \in Slots, NEW op, NEW draft, NEW arg, Start(t, op, draft, arg)
    PROVE  /\ CallsFormed' /\ \A s \in Slots : s # t => calls'[s] = calls[s]
           /\ calls'[t] = Call(op, draft, arg) /\ calls'[t].op = op /\ calls'[t].arg = arg
           /\ calls'[t].draft = draft /\ calls'[t].state = "sent"
  BY DEF CallsFormed, Formed, Start, Call

LEMMA SlotsAreNumbers == \A s \in Slots : s \in Nat /\ s # None
  BY RuntimeAssumption DEF Slots

LEMMA MountedFacts ==
    /\ calls = NoCalls => CallsFormed /\ \A s \in Slots : calls[s] = None
    /\ calls = Mounted => /\ CallsFormed /\ \A s \in Slots : s # 1 => calls[s] = None
                         /\ calls[1] = Call("load", 0, None) /\ calls[1].op = "load"
    /\ store = NoWrites => StoreFormed
  BY RuntimeAssumption DEF Mounted, NoCalls, NoWrites, Call, Formed, CallsFormed, StoreFormed, Slots

LEMMA FinishFacts ==
    ASSUME CallsFormed, NEW t \in Slots, Finish(t)
    PROVE  /\ CallsFormed' /\ \A s \in Slots : s # t => calls'[s] = calls[s]
           /\ calls'[t] = None
  BY DEF CallsFormed, Formed, Finish

-----------------------------------------------------------------------------
(* The financing workspace *)

FinancingFormed ==
    /\ ui = [form |-> ui.form, step |-> ui.step, draft |-> ui.draft, busy |-> ui.busy,
             open |-> ui.open, available |-> ui.available, saved |-> ui.saved]
    /\ ui.form \in AgreementRow /\ ui.step \in 0..Review

FinancingInv == page = "financing" => CallsFormed /\ StoreFormed /\ FinancingFormed

LEMMA FinancingStarts == FinancingInit => FinancingInv /\ ReviewedStepsHold
<1> SUFFICES ASSUME FinancingInit PROVE FinancingInv /\ ReviewedStepsHold
  OBVIOUS
<1>1. FinancingInv
  BY MountedFacts DEF FinancingInit, FinancingUi, AgreementForm, FinancingInv, FinancingFormed,
     AgreementRow, Review
<1>2. \A s \in Slots : ~InUse(s, "save")
  BY MountedFacts DEF FinancingInit, InUse
<1> QED
  BY <1>1, <1>2 DEF FinancingInit, FinancingUi, ReviewedStepsHold, StepsLeftBehindHold

LEMMA FinancingSteps ==
    ASSUME page = "financing", FinancingInv, ReviewedStepsHold, FinancingNext
    PROVE  FinancingInv' /\ ReviewedStepsHold'
<1> USE DEF FinancingInv, FinancingFormed, AgreementRow, Review
<1> DEFINE Kept == CallsFormed' /\ \A s \in Slots : InUse(s, "save")' => InUse(s, "save") /\ calls'[s].arg = calls[s].arg
<1>0. UNCHANGED page /\ (UNCHANGED calls => Kept)
  BY FinancingStays DEF CallsFormed, InUse
<1> DEFINE Left == FinancingFormed /\ StepsLeftBehindHold(ui.form, ui.step)
<1>1. ASSUME Left', UNCHANGED <<calls, store>> PROVE FinancingInv' /\ ReviewedStepsHold'
  BY <1>0, <1>1 DEF ReviewedStepsHold, StepsLeftBehindHold, StoreFormed
<1>2. Left
  BY DEF ReviewedStepsHold
<1>14. AgreementForm \in AgreementRow
  BY DEF AgreementForm
<1>3. ASSUME ToggleAgreementRecorder \/ CloseSummary PROVE Left'
  <2>1. \/ ui' = ResetAgreement
        \/ ui' = [ui EXCEPT !.open = TRUE]
        \/ ui' = [ui EXCEPT !.saved = None]
    BY <1>3 DEF ToggleAgreementRecorder, CloseSummary, Sets
  <2>2. CASE ui' = ResetAgreement
    <3>1. ui' = [form |-> AgreementForm, step |-> 0, draft |-> Following(ui.draft), busy |-> ui.busy,
                 open |-> FALSE, available |-> ui.available, saved |-> ui.saved]
      BY <2>2 DEF ResetAgreement
    <3>2. FinancingFormed'
      BY <1>14, <3>1
    <3> QED
      BY <3>1, <3>2 DEF StepsLeftBehindHold
  <2> QED
    BY <1>2, <2>1, <2>2 DEF StepsLeftBehindHold
<1>4. ASSUME AddFinancingLine \/ RemoveFinancingLine PROVE Left'
  <2>1. PICK complete \in BOOLEAN : ui.step = 2 /\ ui' = [ui EXCEPT !.form.lines = complete]
    BY <1>4 DEF AddFinancingLine, RemoveFinancingLine, Sets
  <2> QED
    BY <1>2, <2>1 DEF StepsLeftBehindHold
<1>5. ASSUME NextStep PROVE Left'
  BY <1>2, <1>5 DEF NextStep, StepValid, TermsTyped, Sets, StepsLeftBehindHold
<1>6. ASSUME NEW k \in 0..Review, GoToStep(k) PROVE Left'
  BY <1>2, <1>6 DEF GoToStep, Sets, StepsLeftBehindHold
<1>7. ASSUME NEW stock \in BOOLEAN, NEW asksMore \in BOOLEAN, SetUp(stock, asksMore) PROVE Left'
  <2>1. PICK lines \in BOOLEAN :
          ui' = [ui EXCEPT !.form.stock = stock, !.form.asksMore = asksMore, !.form.lines = lines]
    BY <1>7 DEF SetUp, Sets
  <2> QED
    <3>1. ui.step = 0 /\ ui'.step = 0
      BY <1>7, <2>1 DEF SetUp
    <3>2. FinancingFormed'
      BY <2>1
    <3> QED
      BY <3>1, <3>2 DEF StepsLeftBehindHold
<1>12. ASSUME NEW complete \in BOOLEAN, TypeCustomer(complete) \/ UpdateFinancingLine(complete)
      PROVE  Left'
  BY <1>2, <1>12 DEF TypeCustomer, UpdateFinancingLine, Sets, StepsLeftBehindHold
<1>13. ASSUME NEW typed \in SUBSET {"terms", "extra"}, TypeTerms(typed) PROVE Left'
  BY <1>2, <1>13 DEF TypeTerms, Sets, StepsLeftBehindHold
<1>8. ASSUME SubmitAgreement PROVE FinancingInv' /\ ReviewedStepsHold'
  <2>1. PICK t \in Slots : Start(t, "save", ui.draft, ui.form)
    BY <1>8 DEF SubmitAgreement, Sends
  <2>2. FinancingInv'
    BY <1>0, <1>8, <2>1, StartFacts DEF SubmitAgreement, StoreFormed
  <2>3. ui'.form = ui.form /\ ui'.step = Review /\ StepsLeftBehindHold(ui.form, Review)
    BY <1>8 DEF SubmitAgreement, ReviewedStepsHold
  <2>4. \A s \in Slots : InUse(s, "save")' => StepsLeftBehindHold(calls'[s].arg, Review)
    BY <2>1, <2>3, StartFacts DEF ReviewedStepsHold, InUse
  <2> QED
    BY <2>2, <2>3, <2>4 DEF ReviewedStepsHold, StepsLeftBehindHold
<1>9. ASSUME Reloads PROVE FinancingInv' /\ ReviewedStepsHold'
  <2>1. PICK t \in Slots : Start(t, "load", 0, None)
    BY <1>9 DEF Reloads
  <2>2. UNCHANGED <<ui, store>> /\ Kept
    BY <1>9, <2>1, StartFacts DEF Reloads, InUse
  <2> QED
    BY <1>0, <2>2 DEF ReviewedStepsHold, StepsLeftBehindHold, StoreFormed
<1>10. ASSUME NEW t \in Slots, AgreementSaved(t) PROVE FinancingInv' /\ ReviewedStepsHold'
  <2>1. Kept /\ store' = store
    BY <1>10, StartFacts DEF AgreementSaved, Saved, InUse
  <2>2. ui' = [ResetAgreement EXCEPT !.saved = calls[t].draft]
    BY <1>10 DEF AgreementSaved, Saved
  <2>3. Left'
    <3>1. ui' = [form |-> AgreementForm, step |-> 0, draft |-> Following(ui.draft), busy |-> ui.busy,
                 open |-> FALSE, available |-> ui.available, saved |-> calls[t].draft]
      BY <2>2 DEF ResetAgreement
    <3>2. FinancingFormed'
      BY <1>14, <3>1
    <3> QED
      BY <3>1, <3>2 DEF StepsLeftBehindHold
  <2> QED
    BY <1>0, <2>1, <2>3 DEF ReviewedStepsHold, StoreFormed
<1>11. ASSUME NEW t \in Slots, AgreementNotSaved(t) \/ FinancingLoaded(t)
       PROVE  FinancingInv' /\ ReviewedStepsHold'
  <2>1. Kept /\ store' = store
    BY <1>11, FinishFacts DEF AgreementNotSaved, NotSaved, FinancingLoaded, Ends, InUse
  <2>2. \/ \E available : ui' = [ui EXCEPT !.available = available]
        \/ \E available : ui' = [ui EXCEPT !.available = available, !.busy = FALSE]
        \/ ui' = [ui EXCEPT !.busy = FALSE]
    BY <1>11 DEF AgreementNotSaved, NotSaved, FinancingLoaded, Ends
  <2>3. Left'
    BY <1>2, <2>2 DEF StepsLeftBehindHold
  <2> QED
    BY <1>0, <2>1, <2>3 DEF ReviewedStepsHold, StoreFormed
<1> QED
  <2>1. ASSUME \/ ToggleAgreementRecorder \/ CloseSummary \/ AddFinancingLine \/ RemoveFinancingLine
               \/ NextStep
               \/ \E k \in 0..Review : GoToStep(k)
               \/ \E stock, asksMore \in BOOLEAN : SetUp(stock, asksMore)
               \/ \E complete \in BOOLEAN : TypeCustomer(complete) \/ UpdateFinancingLine(complete)
               \/ \E typed \in SUBSET {"terms", "extra"} : TypeTerms(typed)
        PROVE  Left' /\ UNCHANGED <<calls, store>>
    <3>1. UNCHANGED <<calls, store>>
      BY <2>1 DEF ToggleAgreementRecorder, CloseSummary, AddFinancingLine, RemoveFinancingLine,
         NextStep, GoToStep, SetUp, TypeCustomer, UpdateFinancingLine, TypeTerms, Sets
    <3> HIDE DEF Left, FinancingInv, FinancingFormed
    <3> QED
      BY <2>1, <3>1, <1>3, <1>4, <1>5, <1>6, <1>7, <1>12, <1>13
  <2> HIDE DEF Left, FinancingInv, FinancingFormed
  <2> QED
    BY <2>1, <1>1, <1>8, <1>9, <1>10, <1>11 DEF FinancingNext, FinancingUser, FinancingAnswered

LEMMA FinancingAlways == WorkSpec => [](FinancingInv /\ ReviewedStepsHold)
<1> DEFINE Inv == FinancingInv /\ ReviewedStepsHold
<1>1. WorkInit => Inv
  <2>1. WorkInit /\ page = "financing" => FinancingInit
    BY DEF WorkInit, SalesInit, ReturnsInit, AgreementsInit, StockInit, ReceiptsInit, CatalogInit,
       ExpensesInit, BudgetsInit, DocumentsInit, TeamInit, AssistantInit, SearchInit,
       PreferencesInit, EditorInit
  <2> QED
    BY <2>1, FinancingStarts DEF FinancingInv, ReviewedStepsHold
<1>2. Inv /\ [WorkNext]_vars => Inv'
  <2> SUFFICES ASSUME Inv, [WorkNext]_vars, page = "financing" PROVE Inv'
    BY PageStays DEF FinancingInv, ReviewedStepsHold
  <2>1. CASE FinancingNext
    BY <2>1, FinancingSteps
  <2>2. ASSUME NEW t \in Slots, Settle(t) PROVE Inv'
    BY <2>2, SettleFacts DEF FinancingInv, FinancingFormed, ReviewedStepsHold,
       StepsLeftBehindHold, InUse
  <2>3. CASE UNCHANGED vars
    BY <2>3 DEF vars, FinancingInv, FinancingFormed, CallsFormed, StoreFormed, ReviewedStepsHold,
       StepsLeftBehindHold, InUse
  <2> QED
    BY <2>1, <2>2, <2>3, OwnSteps DEF Network
<1> QED
  BY <1>1, <1>2, PTL DEF WorkSpec

(* A recorder of any length of use never leaves an incomplete step behind,  *)
(* nor sends an agreement with one (NextStep, GoToStep, SubmitAgreement).   *)
THEOREM StepsStayReviewed == WorkSpec => []ReviewedStepsHold
  BY FinancingAlways, PTL

-----------------------------------------------------------------------------
(* The team *)

TeamInv == page = "team" => CallsFormed /\ StoreFormed

LEMMA TeamSteps ==
    ASSUME page = "team", TeamInv, ChangesStayWithinRank, TeamNext
    PROVE  TeamInv' /\ ChangesStayWithinRank'
<1> USE DEF TeamInv
<1> DEFINE Kept == CallsFormed' /\ StoreFormed'
                   /\ \A s \in Slots : InUse(s, "member")' => InUse(s, "member") /\ calls'[s].arg = calls[s].arg
<1>1. page' = page
  BY TeamStays
<1>2. ASSUME Kept PROVE TeamInv' /\ ChangesStayWithinRank'
  BY <1>1, <1>2 DEF ChangesStayWithinRank
<1>3. ASSUME NEW t \in Slots, TeamAnswered(t) PROVE Kept
  <2>1. Finish(t) /\ UNCHANGED store
    BY <1>3 DEF TeamAnswered, TeamLoaded, MemberUpdated, InvitationSent, InvitationCancelled,
       RequestDecided, Ends
  <2> QED
    BY <2>1, FinishFacts DEF InUse, StoreFormed
<1>4. ASSUME NEW role \in TeamRoles, RoleChanges(role) PROVE Kept
  <2>1. PICK t \in Slots : Start(t, "load", 0, None) /\ UNCHANGED store
    BY <1>4 DEF RoleChanges
  <2> QED
    BY <2>1, StartFacts DEF InUse, StoreFormed
<1>5. ASSUME NEW op \in {"invite", "cancel", "decide"}, NEW row, NEW arg, Acts(op, row, arg) PROVE Kept
  <2>1. PICK t \in Slots : Start(t, op, 0, arg) /\ UNCHANGED store
    BY <1>5 DEF Acts, Sends
  <2> QED
    BY <2>1, StartFacts DEF InUse, StoreFormed
<1>6. ASSUME SendInvitation \/ CancelInvitation \/ \E decision \in {"approve", "reject"} : DecideRequest(decision)
      PROVE  Kept
  BY <1>5, <1>6 DEF SendInvitation, CancelInvitation, DecideRequest
<1>7. ASSUME \/ \E role \in Assignables : ChooseInviteRole(role) \/ ChooseApprovalRole(role)
             \/ \E typed \in BOOLEAN : TypeInvitation(typed)
      PROVE  Kept
  BY <1>7 DEF ChooseInviteRole, ChooseApprovalRole, TypeInvitation, Sets, CallsFormed, StoreFormed, InUse
<1>8. ASSUME NEW arg, Acts("member", "row", arg), ~BackendProtects(arg.by, arg.target),
             arg.role # None => arg.role \in BackendAssigns(arg.by)
      PROVE  TeamInv' /\ ChangesStayWithinRank'
  <2>1. PICK t \in Slots : Start(t, "member", 0, arg) /\ UNCHANGED store
    BY <1>8 DEF Acts, Sends
  <2> QED
    BY <1>1, <1>8, <2>1, StartFacts DEF ChangesStayWithinRank, InUse, StoreFormed
<1>9. ASSUME NEW role \in Assignables, UpdateRole(role) PROVE TeamInv' /\ ChangesStayWithinRank'
  <2>1. ~BackendProtects(ui.role, ui.target) /\ role \in BackendAssigns(ui.role)
    BY <1>9 DEF UpdateRole, ChangesMember, ManagesMembers, Protected, BackendProtects, RoleOptions,
       BackendAssigns, Leaders
  <2> QED
    BY <1>8, <1>9, <2>1 DEF UpdateRole
<1>10. ASSUME NEW change \in {"status", "removed"}, UpdateStatus(change)
       PROVE  TeamInv' /\ ChangesStayWithinRank'
  <2>1. ~BackendProtects(ui.role, ui.target)
    BY <1>10 DEF UpdateStatus, ChangesMember, Protected, BackendProtects
  <2> QED
    BY <1>8, <1>10, <2>1 DEF UpdateStatus
<1> QED
  BY <1>2, <1>3, <1>4, <1>6, <1>7, <1>9, <1>10 DEF TeamNext, TeamUser

(* No change of a member is ever sent that the backend's rules refuse the   *)
(* role the page knew (protectedMember and roleOptions against the backend).*)
THEOREM RanksAreRespected == WorkSpec => []ChangesStayWithinRank
<1> DEFINE Inv == TeamInv /\ ChangesStayWithinRank
<1>1. WorkInit => Inv
  <2> SUFFICES ASSUME WorkInit, page = "team" PROVE CallsFormed /\ StoreFormed /\ \A s \in Slots : ~InUse(s, "member")
    BY DEF TeamInv, ChangesStayWithinRank
  <2>1. TeamInit
    BY DEF WorkInit, SalesInit, ReturnsInit, FinancingInit, AgreementsInit, StockInit, ReceiptsInit,
       CatalogInit, ExpensesInit, BudgetsInit, DocumentsInit, AssistantInit, SearchInit,
       PreferencesInit, EditorInit
  <2> QED
    BY <2>1, MountedFacts DEF TeamInit, InUse
<1>2. Inv /\ [WorkNext]_vars => Inv'
  <2> SUFFICES ASSUME Inv, [WorkNext]_vars, page = "team" PROVE Inv'
    BY PageStays DEF TeamInv, ChangesStayWithinRank
  <2>1. CASE TeamNext
    BY <2>1, TeamSteps
  <2>2. ASSUME NEW t \in Slots, Settle(t) PROVE Inv'
    BY <2>2, SettleFacts DEF TeamInv, ChangesStayWithinRank, InUse
  <2>3. CASE UNCHANGED vars
    BY <2>3 DEF vars, TeamInv, CallsFormed, StoreFormed, ChangesStayWithinRank, InUse
  <2> QED
    BY <2>1, <2>2, <2>3, OwnSteps DEF Network
<1> QED
  BY <1>1, <1>2, PTL DEF WorkSpec

-----------------------------------------------------------------------------
(* The documents *)

DocumentsInv ==
    page = "documents" =>
        /\ ui = [kind |-> ui.kind, parts |-> ui.parts, soldOn |-> ui.soldOn, months |-> ui.months,
                 handed |-> ui.handed, frames |-> ui.frames, draft |-> ui.draft, busy |-> ui.busy,
                 saved |-> ui.saved]
        /\ ui.months # None => ui.months \in WarrantyMonths /\ ui.soldOn \in SoldOn
        /\ ui.kind # None => ui.kind \in Kinds
        /\ ui.handed # None => /\ ui.handed.kind \in Kinds
                               /\ ui.handed.text = Text(ui.handed.kind, ui.handed.parts)
        /\ calls = NoCalls

(* The text of a document and its preview state the same figures. *)
LEMMA FiguresAgree ==
    ASSUME NEW kind \in Kinds, NEW parts
    PROVE  Text(kind, parts) \cap Figures = Preview(kind, parts) \cap Figures
<1>1. SaleText(kind, parts) \cap Figures = SalePreview(kind, parts) \cap Figures
  BY DEF SaleText, SalePreview, Figures
<1>2. AgreementText(parts) \cap Figures = AgreementPreview(parts) \cap Figures
  BY DEF AgreementText, AgreementPreview, Figures
<1>3. StockText = StockPreview
  BY DEF StockText, StockPreview
<1> QED
  BY <1>1, <1>2, <1>3 DEF Kinds, Text, Preview

(* Adding months to a date stays in the month that many months later. *)
LEMMA MonthsAdded ==
    ASSUME NEW date \in SoldOn, NEW months \in WarrantyMonths
    PROVE  LET end == AddCalendarMonths(date, months)
           IN  /\ end.y * 12 + end.m = date.y * 12 + date.m + months
               /\ end.d \in 1..DaysIn(end.y, end.m)
               /\ end.d # date.d => end.d = DaysIn(end.y, end.m) /\ end.d < date.d
<1> DEFINE first == [date EXCEPT !.d = 1]
           y == date.y + (date.m + months) \div 12
           n == (date.m + months) % 12
           moved == SetMonth(first, first.m + months)
<1>1. date.m \in 0..11 /\ date.d \in 1..31 /\ date.y \in Nat /\ months \in Nat
  BY DocumentsAssumption
<1>2. DaysIn(y, n) \in 28..31
  BY DEF DaysIn
<1>3. y \in Nat /\ n \in 0..11 /\ y * 12 + n = date.y * 12 + date.m + months
  BY <1>1
<1>4. first.m = date.m /\ first.y = date.y /\ first.d = 1
  BY <1>1
<1>5. moved = [y |-> y, m |-> n, d |-> 1]
  BY <1>2, <1>4 DEF SetMonth
<1>6. AddCalendarMonths(date, months) = [y |-> y, m |-> n, d |-> AtMost(date.d, DaysIn(y, n))]
  BY <1>5 DEF AddCalendarMonths
<1> DEFINE last == DaysIn(y, n)
           end  == AddCalendarMonths(date, months)
<1>7. end.y = y /\ end.m = n /\ end.d = AtMost(date.d, last)
  BY <1>6
<1> HIDE DEF y, n, last, end
<1>8. last \in 28..31 /\ date.d \in 1..31 /\ last = DaysIn(end.y, end.m)
  BY <1>1, <1>2, <1>7 DEF last
<1>9. end.d \in 1..last /\ (end.d # date.d => end.d = last /\ end.d < date.d)
  BY <1>7, <1>8 DEF AtMost
<1>10. end.y * 12 + end.m = date.y * 12 + date.m + months
  BY <1>3, <1>7
<1> QED
  BY <1>8, <1>9, <1>10 DEF end

LEMMA DocumentsSteps ==
    ASSUME page = "documents", DocumentsInv, [DocumentsNext]_vars
    PROVE  DocumentsInv'
<1> USE DEF DocumentsInv
<1>1. CASE UNCHANGED vars
  BY <1>1 DEF vars
<1>2. ASSUME DocumentsNext PROVE page' = page /\ calls' = calls
  BY <1>2 DEF DocumentsNext, OpenDocument, CloseDocument, CopyDocument, ShareDocument, PrintDocument,
     FramePrinted, FrameRemoved, Sets
<1>3. ASSUME NEW kind \in Kinds, NEW parts, OpenDocument(kind, parts, None, None) PROVE DocumentsInv'
  BY <1>3 DEF OpenDocument, Sets
<1>4. ASSUME NEW date \in SoldOn, NEW months \in WarrantyMonths,
             OpenDocument("sale", {"warranty"}, date, months)
      PROVE  DocumentsInv'
  BY <1>4 DEF OpenDocument, Sets, Kinds
<1>5. CASE CloseDocument
  BY <1>5 DEF CloseDocument, Sets
<1>6. CASE CopyDocument \/ ShareDocument
  BY <1>6 DEF CopyDocument, ShareDocument, HandedOver, Sets
<1>7. CASE PrintDocument
  BY <1>7 DEF PrintDocument, HandedOver, Sets
<1>8. CASE FramePrinted \/ FrameRemoved
  BY <1>8 DEF FramePrinted, FrameRemoved, Sets
<1> QED
  BY <1>1, <1>3, <1>4, <1>5, <1>6, <1>7, <1>8 DEF DocumentsNext

LEMMA DocumentsAlways == WorkSpec => []DocumentsInv
<1>1. WorkInit => DocumentsInv
  <2> SUFFICES ASSUME WorkInit, page = "documents" PROVE DocumentsInv
    BY DEF DocumentsInv
  <2>1. DocumentsInit
    BY DEF WorkInit, SalesInit, ReturnsInit, FinancingInit, AgreementsInit, StockInit, ReceiptsInit,
       CatalogInit, ExpensesInit, BudgetsInit, TeamInit, AssistantInit, SearchInit,
       PreferencesInit, EditorInit
  <2> QED
    BY <2>1 DEF DocumentsInit, DocumentsUi, DocumentsInv
<1>2. DocumentsInv /\ [WorkNext]_vars => DocumentsInv'
  <2> SUFFICES ASSUME DocumentsInv, [WorkNext]_vars, page = "documents" PROVE DocumentsInv'
    BY PageStays DEF DocumentsInv
  <2>1. ~Network
    BY DEF DocumentsInv, Network, Settle, Serve, Refuse, Lose, Saves, InUse, NoCalls
  <2> QED
    BY <2>1, DocumentsSteps, OwnSteps
<1> QED
  BY <1>1, <1>2, PTL DEF WorkSpec

(* Whatever parts a document has, the text that is handed over states the   *)
(* figures of the preview.                                                  *)
THEOREM HandedTextsAgree == WorkSpec => []HandedFiguresAreThePreview
<1>1. DocumentsInv => HandedFiguresAreThePreview
  BY FiguresAgree DEF DocumentsInv, HandedFiguresAreThePreview
<1> QED
  BY <1>1, DocumentsAlways, PTL

(* A warranty never slips into another month, for any date of sale and any  *)
(* number of months (addCalendarMonths).                                    *)
THEOREM WarrantiesEndInTheirMonth == WorkSpec => []WarrantyEndsInItsMonth
<1>1. DocumentsInv => WarrantyEndsInItsMonth
  BY MonthsAdded DEF DocumentsInv, WarrantyEndsInItsMonth
<1> QED
  BY <1>1, DocumentsAlways, PTL

-----------------------------------------------------------------------------
(* The searches *)

SearchFields == {"kind", "query", "submitted", "waiting", "loading", "controller", "results",
                 "failed", "open", "selected", "draft", "busy", "saved"}

SearchFormed == DOMAIN ui = SearchFields /\ ui.query \in Queries \cup {""}

(* The request that was not aborted asks what was submitted last. *)
ControllerAsks ==
    ui.controller # None =>
        /\ ui.controller \in Slots /\ InUse(ui.controller, "search")
        /\ calls[ui.controller].arg = ui.submitted

(* A selection puts an end to searching. *)
SelectionRests ==
    ui.selected # None =>
        ui.kind = "access" /\ ui.controller = None /\ ~ui.waiting /\ ui.results = None

SearchInv ==
    page = "search" =>
        /\ CallsFormed /\ StoreFormed /\ SearchFormed /\ ControllerAsks /\ SelectionRests
        /\ ResultsAnswerTheLastSearch

LEMMA AfterTypingFacts ==
    ASSUME NEW next, next.query \in Queries \cup {""},
           DOMAIN next = SearchFields,
           ui' = AfterTyping(next)
    PROVE  /\ SearchFormed' /\ ui'.controller = None /\ ui'.selected = next.selected
           /\ ui'.kind = next.kind
           /\ ui'.results # None => ui'.waiting
           /\ ui'.selected # None => ~ui'.waiting /\ ui'.results = None
  BY DEF AfterTyping, Abort, SearchFormed, SearchFields

LEMMA SearchSteps ==
    ASSUME page = "search", SearchInv, SearchNext
    PROVE  SearchInv'
<1> USE DEF SearchInv, SearchFields
<1>1. page' = page
  BY SearchStays
<1>2. ASSUME NEW next, NEW query \in Queries \cup {""}, Searches(next, query),
             DOMAIN next = SearchFields /\ next.submitted = query /\ next.selected = None,
             next.query \in Queries \cup {""}
      PROVE  SearchInv'
  <2>1. PICK t \in Slots : /\ Start(t, "search", 0, query)
                           /\ ui' = [next EXCEPT !.controller = t] /\ store' = store
    BY <1>2 DEF Searches
  <2>2. CallsFormed' /\ StoreFormed' /\ SearchFormed'
    BY <1>2, <2>1, StartFacts DEF SearchFormed, StoreFormed
  <2>3. Call("search", 0, query) # None
    <3>1. Call("search", 0, query) \in [op : {"search"}, draft : {0}, arg : Queries \cup {""}, state : {"sent"}]
      BY DEF Call
    <3> QED
      BY <3>1, SearchAssumption
  <2>5. ui'.controller = t /\ ui'.submitted = query /\ ui'.selected = None
    BY <1>2, <2>1
  <2>6. calls'[t] = Call("search", 0, query) /\ calls'[t].op = "search" /\ calls'[t].arg = query
    BY <2>1 DEF Start, Call, CallsFormed
  <2>4. ControllerAsks'
    BY <2>3, <2>5, <2>6 DEF ControllerAsks, InUse
  <2>7. ui'.controller # None
    BY <2>5, SlotsAreNumbers
  <2> QED
    BY <1>1, <2>2, <2>4, <2>5, <2>7 DEF SelectionRests, ResultsAnswerTheLastSearch
<1>3. ASSUME UNCHANGED <<calls, store>>, SearchFormed',
             ui'.controller # None => ui'.controller = ui.controller /\ ui'.submitted = ui.submitted,
             SelectionRests', ResultsAnswerTheLastSearch'
      PROVE  SearchInv'
  BY <1>1, <1>3 DEF CallsFormed, StoreFormed, ControllerAsks, InUse
<1>4. ASSUME NEW query \in Queries \cup {""}, TypeSearch(query) PROVE SearchInv'
  BY <1>1, <1>3, <1>4 DEF TypeSearch, Sets, SearchFormed, SelectionRests, ResultsAnswerTheLastSearch
<1>5. CASE OpenResult
  BY <1>1, <1>3, <1>5 DEF OpenResult, Sets, SearchFormed, SelectionRests, ResultsAnswerTheLastSearch
<1>6. CASE ClearSearch
  BY <1>1, <1>3, <1>6 DEF ClearSearch, SearchUi, Sets, SearchFormed, SelectionRests,
     ResultsAnswerTheLastSearch
<1>7. ASSUME NEW query \in Queries \cup {""}, UpdateQuery(query) PROVE SearchInv'
  <2> DEFINE next == [ui EXCEPT !.query = query, !.selected = None]
  <2>1. ui' = AfterTyping(next) /\ UNCHANGED <<calls, store>>
    BY <1>7 DEF UpdateQuery, Sets
  <2>2. /\ DOMAIN next = SearchFields
        /\ next.query \in Queries \cup {""} /\ next.selected = None
    BY DEF SearchFormed
  <2> HIDE DEF next
  <2>3. /\ SearchFormed' /\ ui'.controller = None /\ ui'.selected = None
        /\ ui'.results # None => ui'.waiting
    BY <2>1, <2>2, AfterTypingFacts
  <2> QED
    BY <1>1, <1>3, <2>1, <2>3 DEF SelectionRests, ResultsAnswerTheLastSearch
<1>8. CASE SearchAgain \/ SelectBusiness
  <2>1. PICK next : /\ next = ui \/ \E selected : next = [ui EXCEPT !.selected = selected]
                    /\ ui' = AfterTyping(next) /\ UNCHANGED <<calls, store>> /\ ui.kind = "access"
    BY <1>8 DEF SearchAgain, SelectBusiness, Sets
  <2>2. DOMAIN next = SearchFields /\ next.query \in Queries \cup {""} /\ next.kind = "access"
    BY <2>1 DEF SearchFormed
  <2>3. /\ SearchFormed' /\ ui'.controller = None /\ ui'.kind = "access"
        /\ ui'.results # None => ui'.waiting
        /\ ui'.selected # None => ~ui'.waiting /\ ui'.results = None
    BY <2>1, <2>2, AfterTypingFacts
  <2> QED
    BY <1>1, <1>3, <2>1, <2>3 DEF SelectionRests, ResultsAnswerTheLastSearch
<1>9. CASE SubmitSearch
  <2> DEFINE next == [Abort(ui) EXCEPT !.submitted = ui.query, !.loading = TRUE, !.failed = FALSE,
                                       !.open = TRUE]
  <2>1. Searches(next, ui.query) /\ ui.selected = None
    BY <1>9 DEF SubmitSearch, SelectionRests
  <2>2. /\ DOMAIN next = SearchFields /\ next.submitted = ui.query /\ next.selected = None
        /\ next.query = ui.query /\ ui.query \in Queries \cup {""}
    BY <2>1 DEF SearchFormed, Abort
  <2> HIDE DEF next, SearchInv
  <2> QED
    BY <1>2, <2>1, <2>2
<1>10. CASE SearchTimer
  <2> DEFINE next == [ui EXCEPT !.waiting = FALSE, !.submitted = ui.query, !.loading = TRUE,
                                !.failed = FALSE]
  <2>1. Searches(next, ui.query) /\ ui.selected = None
    BY <1>10 DEF SearchTimer, SelectionRests
  <2>2. /\ DOMAIN next = SearchFields /\ next.submitted = ui.query /\ next.selected = None
        /\ next.query = ui.query /\ ui.query \in Queries \cup {""}
    BY <2>1 DEF SearchFormed
  <2> HIDE DEF next, SearchInv
  <2> QED
    BY <1>2, <2>1, <2>2
<1>11. CASE SubmitAccessRequest
  <2>1. PICK t \in Slots : calls[t] = None /\ Start(t, "save", ui.draft, None)
    BY <1>11 DEF SubmitAccessRequest, Sends, Free
  <2>2. ui' = [ui EXCEPT !.busy = TRUE] /\ store' = store
    BY <1>11 DEF SubmitAccessRequest
  <2>3. CallsFormed' /\ StoreFormed' /\ SearchFormed'
    BY <2>1, <2>2, StartFacts DEF SearchFormed, StoreFormed
  <2>4. ControllerAsks'
    <3>1. /\ \A s \in Slots : s # t => calls'[s] = calls[s]
          /\ ui'.controller = ui.controller /\ ui'.submitted = ui.submitted
      BY <2>1, <2>2, StartFacts DEF SearchFormed
    <3> QED
      BY <2>1, <3>1 DEF ControllerAsks, InUse
  <2> QED
    BY <1>1, <2>2, <2>3, <2>4 DEF SearchFormed, SelectionRests, ResultsAnswerTheLastSearch
<1>12. ASSUME NEW t \in Slots, Finish(t), UNCHANGED store, SearchFormed',
              ui'.controller # None => /\ ui'.controller = ui.controller /\ ui.controller # t
                                       /\ ui'.submitted = ui.submitted,
              SelectionRests', ResultsAnswerTheLastSearch'
       PROVE  SearchInv'
  BY <1>1, <1>12, FinishFacts DEF StoreFormed, ControllerAsks, InUse
<1>13. ASSUME NEW t \in Slots, SearchLanded(t) PROVE SearchInv'
  <2>1. /\ Finish(t) /\ UNCHANGED store /\ ui.controller = t /\ InUse(t, "search")
        /\ ui' = [Abort(ui) EXCEPT !.results = calls[t].arg, !.loading = FALSE]
    BY <1>13 DEF SearchLanded, Ends
  <2>2. SearchFormed' /\ ui'.controller = None /\ ui'.selected = ui.selected
        /\ ui'.results = ui.submitted /\ ui'.submitted = ui.submitted /\ ui.selected = None
    <3>1. calls[t].arg = ui.submitted /\ ui.selected = None
      BY <2>1, SlotsAreNumbers DEF ControllerAsks, SelectionRests
    <3> QED
      BY <2>1, <3>1 DEF SearchFormed, Abort
  <2> QED
    BY <1>1, <1>12, <2>1, <2>2 DEF SelectionRests, ResultsAnswerTheLastSearch
<1>14. ASSUME NEW t \in Slots, SearchFailed(t) PROVE SearchInv'
  <2>1. /\ Finish(t) /\ UNCHANGED store
        /\ ui' = IF ui.controller = t
                 THEN [Abort(ui) EXCEPT !.results = IF ui.kind = "bar" THEN None ELSE @,
                                        !.loading = FALSE, !.failed = TRUE]
                 ELSE Overtaken(t)
    BY <1>14 DEF SearchFailed, Ends
  <2>2. CASE ui.controller = t
    BY <1>1, <1>12, <2>1, <2>2 DEF SearchFormed, Abort, SelectionRests, ResultsAnswerTheLastSearch
  <2>3. CASE ui.controller # t
    BY <1>1, <1>12, <2>1, <2>3 DEF SearchFormed, Overtaken, SelectionRests, ResultsAnswerTheLastSearch
  <2> QED
    BY <2>2, <2>3
<1>15. ASSUME NEW t \in Slots, AccessRequested(t) \/ AccessNotRequested(t) PROVE SearchInv'
  <2>1. /\ Finish(t) /\ UNCHANGED store /\ InUse(t, "save")
        /\ \/ ui' = [SearchUi("access") EXCEPT !.draft = Following(ui.draft)]
           \/ ui' = [ui EXCEPT !.busy = FALSE]
    BY <1>15 DEF AccessRequested, AccessNotRequested, Saved, NotSaved, Saves
  <2>2. CASE ui' = [SearchUi("access") EXCEPT !.draft = Following(ui.draft)]
    BY <1>1, <1>12, <2>1, <2>2 DEF SearchUi, SearchFormed, SelectionRests, ResultsAnswerTheLastSearch
  <2>3. CASE ui' = [ui EXCEPT !.busy = FALSE]
    BY <1>1, <1>12, <2>1, <2>3 DEF SearchFormed, ControllerAsks, InUse, SelectionRests,
       ResultsAnswerTheLastSearch
  <2> QED
    BY <2>1, <2>2, <2>3
<1> HIDE DEF SearchInv
<1> QED
  BY <1>4, <1>5, <1>6, <1>7, <1>8, <1>9, <1>10, <1>11, <1>13, <1>14, <1>15
     DEF SearchNext, SearchUser, SearchAnswered

(* An overtaken search never fills in the list, however slowly it is        *)
(* answered and whatever was typed, selected and searched since.            *)
THEOREM OvertakenAnswersAreDropped == WorkSpec => []ResultsAnswerTheLastSearch
<1>1. WorkInit => SearchInv
  <2> SUFFICES ASSUME WorkInit, page = "search" PROVE SearchInv
    BY DEF SearchInv
  <2>1. SearchInit
    BY DEF WorkInit, SalesInit, ReturnsInit, FinancingInit, AgreementsInit, StockInit, ReceiptsInit,
       CatalogInit, ExpensesInit, BudgetsInit, DocumentsInit, TeamInit, AssistantInit,
       PreferencesInit, EditorInit
  <2> QED
    <3>1. PICK kind \in {"bar", "access"} : ui = SearchUi(kind)
      BY <2>1 DEF SearchInit
    <3>2. /\ SearchFormed /\ ui.controller = None /\ ui.selected = None /\ ui.results = None
      BY <3>1 DEF SearchUi, SearchFormed, SearchFields
    <3> QED
      BY <2>1, <3>2, MountedFacts DEF SearchInit, SearchInv, ControllerAsks, SelectionRests,
         ResultsAnswerTheLastSearch
<1>2. SearchInv /\ [WorkNext]_vars => SearchInv'
  <2> SUFFICES ASSUME SearchInv, [WorkNext]_vars, page = "search" PROVE SearchInv'
    BY PageStays DEF SearchInv
  <2>1. CASE SearchNext
    BY <2>1, SearchSteps
  <2>2. ASSUME NEW t \in Slots, Settle(t) PROVE SearchInv'
    BY <2>2, SettleFacts, ZenonT(40) DEF SearchInv, SearchFormed, ControllerAsks, SelectionRests,
       ResultsAnswerTheLastSearch, InUse
  <2>3. CASE UNCHANGED vars
    BY <2>3 DEF vars, SearchInv, CallsFormed, StoreFormed, SearchFormed, ControllerAsks,
       SelectionRests, ResultsAnswerTheLastSearch, InUse
  <2> QED
    BY <2>1, <2>2, <2>3, OwnSteps DEF Network
<1>3. SearchInv => ResultsAnswerTheLastSearch
  BY DEF SearchInv, ResultsAnswerTheLastSearch
<1> QED
  BY <1>1, <1>2, <1>3, PTL DEF WorkSpec

-----------------------------------------------------------------------------
(* The preferences *)

PreferencesFields == {"shown", "loading", "failed", "saving", "crossed", "draft", "busy", "saved"}

PreferencesFormed ==
    /\ CallsFormed /\ StoreFormed /\ DOMAIN ui = PreferencesFields
    /\ ui.shown \in Chosen \cup {None} /\ store.rows \in Chosen
    /\ \A s \in Slots : calls[s] # None =>
         /\ calls[s].draft = 0 /\ calls[s].state = "sent"
         /\ \/ InUse(s, "get") /\ calls[s].arg \in Chosen \cup {None}
            \/ InUse(s, "update") /\ calls[s].arg \in UpdateRow

(* As long as nothing crossed there is one request, and it holds what the   *)
(* backend has: before it is served to put it back, afterwards to show it.  *)
OneRequest ==
    ~ui.crossed =>
        /\ \A s, t \in Slots : calls[s] # None /\ calls[t] # None => s = t
        /\ Idling /\ ui.shown # None => ui.shown = store.rows
        /\ \A s \in Slots :
             /\ InUse(s, "get") => /\ calls[s].arg # None => calls[s].arg = store.rows
                                   /\ ui.shown # None => ui.shown = store.rows
             /\ InUse(s, "update") => IF calls[s].arg.answer = None
                                      THEN calls[s].arg.previous = store.rows
                                      ELSE calls[s].arg.answer = store.rows

PreferencesInv == page = "preferences" => PreferencesFormed /\ OneRequest

LEMMA PreferencesSteps ==
    ASSUME page = "preferences", PreferencesInv, PreferencesNext
    PROVE  PreferencesInv'
<1> USE DEF PreferencesInv
<1>1. page' = page
  BY PreferencesStays
<1>2. CASE LoadPreferences
  <2>1. PICK t \in Slots : Start(t, "get", 0, None) /\ calls[t] = None
    BY <1>2 DEF LoadPreferences, Sends, Free
  <2>2. ui' = [ui EXCEPT !.crossed = @ \/ ~Idling, !.loading = TRUE, !.failed = FALSE] /\ store' = store
    BY <1>2 DEF LoadPreferences
  <2>3. DOMAIN ui' = PreferencesFields /\ ui'.shown = ui.shown /\ (~ui'.crossed => ~ui.crossed /\ Idling)
    BY <2>2 DEF PreferencesFormed, PreferencesFields
  <2>4. Call("get", 0, None) # None
    BY PreferencesAssumption DEF Call
  <2>5. PreferencesFormed'
    <3>1. /\ CallsFormed' /\ \A s \in Slots : s # t => calls'[s] = calls[s]
          /\ calls'[t].op = "get" /\ calls'[t].arg = None
          /\ calls'[t].draft = 0 /\ calls'[t].state = "sent"
      BY <2>1, StartFacts DEF PreferencesFormed
    <3> QED
      BY <2>2, <2>3, <2>4, <3>1 DEF PreferencesFormed, StoreFormed, InUse
  <2>6. OneRequest'
    <3> SUFFICES ASSUME ~ui'.crossed PROVE OneRequest'
      BY DEF OneRequest
    <3>1. \A s \in Slots : calls[s] = None
      BY <2>3 DEF Idling
    <3>2. /\ \A s \in Slots : s # t => calls'[s] = None
          /\ calls'[t] # None /\ calls'[t].op = "get" /\ calls'[t].arg = None
      BY <2>1, <2>4, <3>1, StartFacts DEF PreferencesFormed
    <3>3. ui'.shown # None => ui'.shown = store'.rows
      BY <2>2, <2>3 DEF OneRequest
    <3> QED
      BY <3>2, <3>3 DEF OneRequest, Idling, InUse
  <2> QED
    BY <1>1, <2>5, <2>6
<1>3. ASSUME NEW p \in Preferences, ChoosePreference(p) \/ SwitchPreference(p) PROVE PreferencesInv'
  <2>1. \E next, saving :
          /\ Updating(p, next, saving) /\ DOMAIN next = PreferencesFields /\ saving \in BOOLEAN
          /\ next.shown = ui.shown /\ next.crossed = ui.crossed
    <3>1. CASE ChoosePreference(p)
      <4> DEFINE next == [ui EXCEPT !.saving = p, !.busy = TRUE]
      <4>1. Updating(p, next, TRUE)
        BY <3>1 DEF ChoosePreference
      <4>2. DOMAIN next = PreferencesFields /\ next.shown = ui.shown /\ next.crossed = ui.crossed
        BY DEF PreferencesFormed, PreferencesFields
      <4> HIDE DEF next
      <4> QED
        BY <4>1, <4>2
    <3>2. CASE SwitchPreference(p)
      BY <3>2 DEF SwitchPreference, PreferencesFormed
    <3> QED
      BY <1>3, <3>1, <3>2
  <2>0. PICK next, saving :
          /\ Updating(p, next, saving) /\ DOMAIN next = PreferencesFields /\ saving \in BOOLEAN
          /\ next.shown = ui.shown /\ next.crossed = ui.crossed
    BY <2>1
  <2> DEFINE arg == [field |-> p, value |-> ~ui.shown[p], previous |-> ui.shown,
                     answer |-> None, saving |-> saving]
  <2>2. PICK t \in Slots : Start(t, "update", 0, arg) /\ calls[t] = None
    BY <2>0 DEF Updating, Sends, Free
  <2>3. /\ ui' = [next EXCEPT !.shown[p] = ~@, !.crossed = ui.crossed \/ ~Idling]
        /\ store' = store /\ ui.shown # None
    BY <2>0 DEF Updating
  <2>4. /\ DOMAIN ui' = PreferencesFields /\ ui'.shown \in Chosen /\ ui.shown \in Chosen
        /\ ~ui'.crossed => ~ui.crossed /\ Idling
    BY <2>0, <2>3 DEF PreferencesFormed, PreferencesFields, Chosen
  <2>5. arg \in UpdateRow /\ arg.answer = None /\ arg.previous = ui.shown
    BY <2>0, <2>4 DEF UpdateRow, Chosen
  <2> HIDE DEF arg
  <2>6. Call("update", 0, arg) # None
    BY <2>5, PreferencesAssumption DEF Call
  <2>7. PreferencesFormed'
    <3>1. /\ CallsFormed' /\ \A s \in Slots : s # t => calls'[s] = calls[s]
          /\ calls'[t].op = "update" /\ calls'[t].arg = arg
          /\ calls'[t].draft = 0 /\ calls'[t].state = "sent"
      BY <2>2, StartFacts DEF PreferencesFormed
    <3> QED
      BY <2>3, <2>4, <2>5, <2>6, <3>1 DEF PreferencesFormed, StoreFormed, InUse
  <2>8. OneRequest'
    <3> SUFFICES ASSUME ~ui'.crossed PROVE OneRequest'
      BY DEF OneRequest
    <3>1. \A s \in Slots : calls[s] = None
      BY <2>4 DEF Idling
    <3>2. /\ \A s \in Slots : s # t => calls'[s] = None
          /\ calls'[t] # None /\ calls'[t].op = "update" /\ calls'[t].arg = arg
      BY <2>2, <2>6, <3>1, StartFacts DEF PreferencesFormed
    <3>3. arg.answer = None /\ arg.previous = store'.rows
      BY <2>3, <2>4, <2>5 DEF OneRequest
    <3> QED
      BY <3>2, <3>3 DEF OneRequest, Idling, InUse
  <2> QED
    BY <1>1, <2>7, <2>8
<1>4. ASSUME NEW t \in Slots, PreferencesServed(t) PROVE PreferencesInv'
  <2>1. /\ InUse(t, "get") /\ calls' = [calls EXCEPT ![t].arg = store.rows]
        /\ UNCHANGED <<ui, store>> /\ Formed(calls[t])
    BY <1>4 DEF PreferencesServed, InUse, PreferencesFormed, CallsFormed
  <2>2. /\ CallsFormed' /\ calls'[t].op = "get" /\ calls'[t].arg = store.rows
        /\ calls'[t].draft = calls[t].draft /\ calls'[t].state = calls[t].state
        /\ \A s \in Slots : s # t => calls'[s] = calls[s]
    BY <2>1 DEF Formed, InUse, PreferencesFormed, CallsFormed
  <2>3. PreferencesFormed'
    BY <2>1, <2>2 DEF PreferencesFormed, StoreFormed, InUse
  <2>4. OneRequest'
    BY <2>1, <2>2, PreferencesAssumption DEF OneRequest, Idling, InUse, PreferencesFormed
  <2> QED
    BY <1>1, <2>3, <2>4
<1>5. ASSUME NEW t \in Slots, Finish(t), calls[t] # None, store' = store, DOMAIN ui' = PreferencesFields,
             ui'.shown \in Chosen \cup {None}, ui'.crossed \/ ~ui.crossed,
             ~ui'.crossed => ui'.shown \in {None, store.rows}
      PROVE  PreferencesInv'
  <2>1. PreferencesFormed'
    BY <1>5, FinishFacts DEF PreferencesFormed, StoreFormed, InUse
  <2>2. OneRequest'
    <3> SUFFICES ASSUME ~ui'.crossed PROVE OneRequest'
      BY DEF OneRequest
    <3>1. \A s \in Slots : calls'[s] = None
      BY <1>5, FinishFacts DEF OneRequest, PreferencesFormed
    <3>2. ui'.shown # None => ui'.shown = store'.rows
      BY <1>5
    <3> QED
      BY <3>1, <3>2 DEF OneRequest, Idling, InUse
  <2> QED
    BY <1>1, <2>1, <2>2
<1>6. ASSUME NEW t \in Slots, PreferencesLoaded(t) \/ PreferencesNotLoaded(t) PROVE PreferencesInv'
  <2>1. /\ InUse(t, "get") /\ Finish(t) /\ store' = store
        /\ \/ /\ calls[t].arg # None
              /\ ui' = [ui EXCEPT !.shown = calls[t].arg, !.loading = FALSE]
           \/ ui' = [ui EXCEPT !.failed = TRUE, !.loading = FALSE]
    BY <1>6 DEF PreferencesLoaded, PreferencesNotLoaded, Ends
  <2>2. /\ DOMAIN ui' = PreferencesFields /\ ui'.crossed = ui.crossed
        /\ ui'.shown = ui.shown \/ (calls[t].arg # None /\ ui'.shown = calls[t].arg)
    BY <2>1 DEF PreferencesFormed, PreferencesFields
  <2>3. ui'.shown \in Chosen \cup {None} /\ calls[t] # None
    BY <2>1, <2>2 DEF PreferencesFormed, InUse
  <2>4. ~ui'.crossed => ui'.shown \in {None, store.rows}
    BY <2>1, <2>2 DEF OneRequest
  <2> QED
    BY <1>5, <2>1, <2>2, <2>3, <2>4
<1>7. ASSUME NEW t \in Slots, InUse(t, "update") PROVE /\ DOMAIN Done(t) = PreferencesFields
                                                      /\ Done(t).crossed = ui.crossed
                                                      /\ calls[t].arg \in UpdateRow /\ calls[t] # None
  BY <1>7 DEF Done, PreferencesFormed, PreferencesFields, InUse
<1>8. ASSUME NEW t \in Slots, UpdateServed(t) PROVE PreferencesInv'
  <2> DEFINE next == [store.rows EXCEPT ![calls[t].arg.field] = calls[t].arg.value]
  <2>1. /\ InUse(t, "update") /\ calls' = [calls EXCEPT ![t].arg.answer = next] /\ ui' = ui
        /\ store' = [store EXCEPT !.rows = next] /\ Formed(calls[t]) /\ calls[t].arg \in UpdateRow
    BY <1>8, <1>7 DEF UpdateServed, Updates, InUse, PreferencesFormed, CallsFormed
  <2>2. next \in Chosen
    BY <2>1 DEF PreferencesFormed, Chosen, UpdateRow
  <2> HIDE DEF next
  <2>3. /\ CallsFormed' /\ calls'[t].op = "update" /\ calls'[t].arg = [calls[t].arg EXCEPT !.answer = next]
        /\ calls'[t].draft = calls[t].draft /\ calls'[t].state = calls[t].state
        /\ \A s \in Slots : s # t => calls'[s] = calls[s]
    BY <2>1 DEF Formed, InUse, PreferencesFormed, CallsFormed
  <2>4. calls'[t].arg \in UpdateRow /\ calls'[t].arg.answer = next
    BY <2>1, <2>2, <2>3 DEF UpdateRow
  <2>5. StoreFormed' /\ store'.rows = next
    BY <2>1 DEF PreferencesFormed, StoreFormed
  <2>6. PreferencesFormed'
    BY <2>1, <2>2, <2>3, <2>4, <2>5 DEF PreferencesFormed, InUse
  <2>7. OneRequest'
    <3> SUFFICES ASSUME ~ui.crossed PROVE OneRequest'
      BY <2>1 DEF OneRequest
    <3>1. \A s \in Slots : s # t => calls'[s] = None
      BY <2>1, <2>3 DEF OneRequest, InUse
    <3>2. calls'[t] # None /\ calls'[t].arg.answer = store'.rows /\ next # None
      <4>1. calls'[t] = [op |-> "update", draft |-> 0, arg |-> calls'[t].arg, state |-> "sent"]
        BY <2>1 DEF PreferencesFormed, CallsFormed, Formed, InUse
      <4>2. calls'[t] # None
        BY <2>4, <4>1, PreferencesAssumption
      <4> QED
        BY <2>2, <2>4, <2>5, <4>2, PreferencesAssumption
    <3> QED
      BY <2>2, <2>3, <2>4, <3>1, <3>2 DEF OneRequest, Idling, InUse
  <2> QED
    BY <1>1, <2>6, <2>7
<1>9. ASSUME NEW t \in Slots, PreferenceUpdated(t) PROVE PreferencesInv'
  <2>1. /\ InUse(t, "update") /\ calls[t].arg.answer # None /\ Finish(t) /\ store' = store
        /\ ui' = [Done(t) EXCEPT !.shown = calls[t].arg.answer]
    BY <1>9 DEF PreferenceUpdated, Ends
  <2>2. DOMAIN ui' = PreferencesFields /\ ui'.crossed = ui.crossed /\ ui'.shown = calls[t].arg.answer
    BY <1>7, <2>1 DEF PreferencesFields
  <2>3. ui'.shown \in Chosen /\ calls[t] # None
    BY <1>7, <2>1, <2>2 DEF UpdateRow
  <2>4. ~ui'.crossed => ui'.shown = store.rows
    BY <2>1, <2>2 DEF OneRequest
  <2> QED
    BY <1>5, <2>1, <2>2, <2>3, <2>4
<1>10. ASSUME NEW t \in Slots, PreferenceRefused(t) \/ PreferenceLost(t) PROVE PreferencesInv'
  <2>1. /\ InUse(t, "update") /\ Finish(t) /\ store' = store
        /\ \/ calls[t].arg.answer = None /\ ui' = RolledBack(t)
           \/ ui' = [RolledBack(t) EXCEPT !.crossed = TRUE]
    BY <1>10 DEF PreferenceRefused, PreferenceLost, Ends, Updates
  <2>2. /\ DOMAIN RolledBack(t) = PreferencesFields /\ RolledBack(t).crossed = ui.crossed
        /\ RolledBack(t).shown = calls[t].arg.previous
    BY <1>7, <2>1 DEF RolledBack, PreferencesFields
  <2>3. DOMAIN ui' = PreferencesFields /\ ui'.shown = calls[t].arg.previous
        /\ (ui'.crossed \/ ~ui.crossed) /\ (~ui'.crossed => ~ui.crossed /\ calls[t].arg.answer = None)
    BY <2>1, <2>2 DEF PreferencesFields
  <2>4. ui'.shown \in Chosen /\ calls[t] # None
    BY <1>7, <2>1, <2>3 DEF UpdateRow
  <2>5. ~ui'.crossed => ui'.shown = store.rows
    BY <2>1, <2>3 DEF OneRequest
  <2> QED
    BY <1>5, <2>1, <2>3, <2>4, <2>5
<1> HIDE DEF PreferencesInv
<1> QED
  BY <1>2, <1>3, <1>4, <1>6, <1>8, <1>9, <1>10
     DEF PreferencesNext, PreferencesUser, PreferencesAnswered

(* What is shown at rest is what the backend has, unless requests crossed   *)
(* or an answer was lost: update() puts back exactly what it replaced.      *)
THEOREM ChoicesComeBack == WorkSpec => []ChoicesFollowTheBackend
<1>1. WorkInit => PreferencesInv
  <2> SUFFICES ASSUME WorkInit, page = "preferences" PROVE PreferencesFormed /\ OneRequest
    BY DEF PreferencesInv
  <2>1. PreferencesInit
    BY DEF WorkInit, SalesInit, ReturnsInit, FinancingInit, AgreementsInit, StockInit, ReceiptsInit,
       CatalogInit, ExpensesInit, BudgetsInit, DocumentsInit, TeamInit, AssistantInit, SearchInit,
       EditorInit
  <2>2. /\ CallsFormed /\ calls[1] = Call("get", 0, None)
        /\ \A s \in Slots : s # 1 => calls[s] = None
    <3>1. calls = [NoCalls EXCEPT ![1] = Call("get", 0, None)] /\ 1 \in Slots
      BY <2>1, RuntimeAssumption DEF PreferencesInit, Slots
    <3>2. DOMAIN calls = Slots /\ \A s \in Slots : s # 1 => calls[s] = None
      BY <3>1 DEF NoCalls
    <3>3. calls[1] = Call("get", 0, None)
      BY <3>1 DEF NoCalls
    <3>4. Formed(calls[1])
      BY <3>3 DEF Formed, Call
    <3> QED
      BY <3>2, <3>3, <3>4 DEF CallsFormed
  <2>3. StoreFormed /\ store.rows \in Chosen
    BY <2>1 DEF PreferencesInit, NoWrites, StoreFormed, Unchanged, Chosen
  <2>4. DOMAIN ui = PreferencesFields /\ ui.shown = None
    BY <2>1 DEF PreferencesInit, PreferencesUi, PreferencesFields
  <2>5. calls[1].op = "get" /\ calls[1].arg = None /\ calls[1].draft = 0 /\ calls[1].state = "sent"
    BY <2>2 DEF Call
  <2>6. PreferencesFormed
    BY <2>2, <2>3, <2>4, <2>5 DEF PreferencesFormed, InUse
  <2> QED
    BY <2>2, <2>4, <2>5, <2>6 DEF OneRequest, InUse
<1>2. PreferencesInv /\ [WorkNext]_vars => PreferencesInv'
  <2> SUFFICES ASSUME PreferencesInv, [WorkNext]_vars, page = "preferences" PROVE PreferencesInv'
    BY PageStays DEF PreferencesInv
  <2>1. CASE PreferencesNext
    BY <2>1, PreferencesSteps
  <2>2. ~Network
    BY DEF PreferencesInv, PreferencesFormed, Network, Settle, Serve, Refuse, Lose, Saves, InUse
  <2>3. CASE UNCHANGED vars
    BY <2>3 DEF vars, PreferencesInv, PreferencesFormed, CallsFormed, StoreFormed, OneRequest,
       Idling, InUse
  <2> QED
    BY <2>1, <2>2, <2>3, OwnSteps
<1>3. PreferencesInv => ChoicesFollowTheBackend
  BY DEF PreferencesInv, OneRequest, ChoicesFollowTheBackend
<1> QED
  BY <1>1, <1>2, <1>3, PTL DEF WorkSpec

-----------------------------------------------------------------------------
(* The editors *)

EditorFields == {"kind", "personal", "values", "touched", "crossed", "draft", "busy", "saved"}

(* What a request of an editor carries, and what the page holds for it. *)
EditorCall(s) ==
    /\ calls[s].draft = 0 /\ calls[s].state = "sent"
    /\ \/ Reads(s) /\ calls[s].arg \in Rows \cup {None}
       \/ InUse(s, "write") /\ calls[s].arg \in WriteRow /\ ui.values # None
       \/ /\ InUse(s, "overview") /\ calls[s].arg = None
          /\ ui.kind = "personal" /\ ui.personal # None

EditorFormed ==
    /\ CallsFormed /\ StoreFormed /\ DOMAIN ui = EditorFields
    /\ ui.values \in Rows \cup {None} /\ ui.personal \in Rows \cup {None} /\ store.rows \in Rows
    /\ \A s \in Slots : calls[s] # None =>
          IF ui.kind = "create" THEN InUse(s, "save") ELSE EditorCall(s)
    /\ ui.kind = "create" => ui.values = None
    /\ ui.kind # "personal" => ui.personal = None

(* As long as nothing crossed there is one request, which carries what the  *)
(* backend has or is about to have.                                         *)
EditorRest ==
    ui.kind # "create" /\ ~ui.crossed =>
        /\ \A s, t \in Slots : calls[s] # None /\ calls[t] # None => s = t
        /\ Idling /\ ui.values # None /\ ~ui.touched => ui.values = store.rows
        /\ \A s \in Slots :
             /\ Reads(s) => calls[s].arg \in {None, store.rows}
             /\ InUse(s, "write") =>
                  /\ ~ui.touched => ui.values = calls[s].arg.values
                  /\ calls[s].arg.answer # None =>
                       calls[s].arg.answer = store.rows /\ calls[s].arg.values = store.rows
             /\ InUse(s, "overview") => /\ ui.personal = store.rows
                                        /\ ~ui.touched => ui.values = store.rows

EditorInv == page = "editor" => EditorFormed /\ EditorRest

(* The end of a request. *)
LEMMA EditorEnds ==
    ASSUME EditorFormed, EditorRest, NEW t \in Slots, Finish(t), calls[t] # None, store' = store,
           DOMAIN ui' = EditorFields, ui'.kind = ui.kind, ui.kind # "create",
           ui'.values \in Rows \cup {None}, ui'.personal \in Rows \cup {None},
           ui.values # None => ui'.values # None, ui.personal # None => ui'.personal # None,
           ui.kind # "personal" => ui'.personal = None,
           ui'.crossed \/ ~ui.crossed,
           ~ui'.crossed /\ ~ui'.touched => ui'.values \in {None, store.rows}
    PROVE  EditorFormed' /\ EditorRest'
<1>1. CallsFormed' /\ calls'[t] = None /\ \A s \in Slots : s # t => calls'[s] = calls[s]
  BY FinishFacts DEF EditorFormed
<1>2. EditorFormed'
  BY <1>1 DEF EditorFormed, EditorCall, StoreFormed, InUse, Reads
<1>3. ~ui'.crossed => \A s \in Slots : calls'[s] = None
  BY <1>1 DEF EditorRest
<1>4. EditorRest'
  BY <1>3 DEF EditorRest, Idling, InUse, Reads
<1> QED
  BY <1>2, <1>4

(* A new request, sent while nothing else is under way or crossing it. *)
LEMMA EditorSends ==
    ASSUME EditorFormed, EditorRest, NEW t \in Slots, NEW op \in {"read", "image", "write"}, NEW arg,
           Start(t, op, 0, arg), store' = store, ui.kind # "create",
           calls[t] = None \/ InUse(t, "read"),
           DOMAIN ui' = EditorFields, ui'.kind = ui.kind, ui'.values = ui.values,
           ui'.personal = ui.personal,
           ~ui'.crossed => \A s \in Slots : calls[s] = None,
           IF op = "write"
           THEN /\ arg \in WriteRow /\ arg.values = ui.values /\ arg.answer = None
                /\ ui.values # None
           ELSE arg = None
    PROVE  EditorFormed' /\ EditorRest'
<1>1. /\ CallsFormed' /\ \A s \in Slots : s # t => calls'[s] = calls[s]
      /\ calls'[t] = Call(op, 0, arg)
      /\ calls'[t].op = op /\ calls'[t].arg = arg /\ calls'[t].draft = 0 /\ calls'[t].state = "sent"
  BY StartFacts DEF EditorFormed
<1>2. calls'[t] # None
  BY <1>1, EditorAssumption DEF Call
<1>3. EditorCall(t)'
  BY <1>1, <1>2 DEF EditorCall, InUse, Reads
<1>4. \A s \in Slots : s # t /\ calls[s] # None => EditorCall(s)'
  BY <1>1 DEF EditorFormed, EditorCall, InUse, Reads
<1>5. EditorFormed'
  BY <1>1, <1>3, <1>4 DEF EditorFormed, StoreFormed
<1>6. ~ui'.crossed => \A s \in Slots : s # t => calls'[s] = None
  BY <1>1
<1>7. EditorRest'
  BY <1>1, <1>2, <1>6 DEF EditorRest, Idling, InUse, Reads
<1> QED
  BY <1>5, <1>7

LEMMA EditorSteps ==
    ASSUME page = "editor", EditorFormed, EditorRest, EditorNext
    PROVE  EditorFormed' /\ EditorRest'
<1>1. DOMAIN ui = EditorFields
  BY DEF EditorFormed
<1>2. CASE ReadAgain
  <2>1. PICK t \in Slots : Start(t, "read", 0, None) /\ (calls[t] = None \/ InUse(t, "read"))
    BY <1>2 DEF ReadAgain, Free
  <2>2. ui' = [ui EXCEPT !.crossed = ~Idling] /\ store' = store /\ ui.kind # "create"
    BY <1>2 DEF ReadAgain
  <2>3. /\ DOMAIN ui' = EditorFields /\ ui'.kind = ui.kind /\ ui'.values = ui.values
        /\ ui'.personal = ui.personal /\ (~ui'.crossed => \A s \in Slots : calls[s] = None)
    BY <1>1, <2>2 DEF EditorFields, Idling
  <2> QED
    BY <2>1, <2>2, <2>3, EditorSends
<1>3. CASE RemoveImage
  <2>1. PICK t \in Slots : Start(t, "image", 0, None) /\ calls[t] = None
    BY <1>3 DEF RemoveImage, Sends, Free
  <2>2. ui' = [ui EXCEPT !.crossed = @ \/ ~Idling] /\ store' = store /\ ui.kind # "create"
    BY <1>3 DEF RemoveImage
  <2>3. /\ DOMAIN ui' = EditorFields /\ ui'.kind = ui.kind /\ ui'.values = ui.values
        /\ ui'.personal = ui.personal /\ (~ui'.crossed => \A s \in Slots : calls[s] = None)
    BY <1>1, <2>2 DEF EditorFields, Idling
  <2> QED
    BY <2>1, <2>2, <2>3, EditorSends
<1>4. CASE SubmitEditor
  <2> DEFINE sent == [values |-> ui.values, answer |-> None]
  <2>1. PICK t \in Slots : Start(t, "write", 0, sent) /\ calls[t] = None
    BY <1>4 DEF SubmitEditor, Sends, Free
  <2>2. /\ ui' = [ui EXCEPT !.busy = TRUE, !.touched = FALSE, !.crossed = @ \/ ~Idling]
        /\ store' = store /\ ui.values # None
    BY <1>4 DEF SubmitEditor
  <2>3. /\ DOMAIN ui' = EditorFields /\ ui'.kind = ui.kind /\ ui'.values = ui.values
        /\ ui'.personal = ui.personal /\ (~ui'.crossed => \A s \in Slots : calls[s] = None)
    BY <1>1, <2>2 DEF EditorFields, Idling
  <2>4. sent \in WriteRow /\ sent.values = ui.values /\ sent.answer = None /\ ui.kind # "create"
    BY <2>2 DEF EditorFormed, WriteRow
  <2> HIDE DEF sent
  <2> QED
    BY <2>1, <2>2, <2>3, <2>4, EditorSends
<1>5. ASSUME NEW t \in Slots, ReadLanded(t) PROVE EditorFormed' /\ EditorRest'
  <2>1. /\ Finish(t) /\ store' = store /\ ui' = Filled(calls[t].arg) /\ calls[t] # None
        /\ Reads(t) /\ calls[t].arg # None
    BY <1>5 DEF ReadLanded, Ends, InUse
  <2>2. calls[t].arg \in Rows /\ ui.kind # "create"
    BY <2>1 DEF EditorFormed, EditorCall, Reads, InUse
  <2>3. /\ DOMAIN ui' = EditorFields /\ ui'.kind = ui.kind /\ ui'.values = calls[t].arg
        /\ ui'.personal = Personal(calls[t].arg) /\ ui'.crossed = ui.crossed
    BY <1>1, <2>1 DEF Filled, EditorFields
  <2>4. /\ ui'.personal \in Rows \cup {None} /\ (ui.personal # None => ui'.personal # None)
        /\ ui.kind # "personal" => ui'.personal = None
    BY <2>2, <2>3, EditorAssumption DEF Personal, EditorFormed
  <2>5. ~ui'.crossed => ui'.values = store.rows
    BY <2>1, <2>2, <2>3 DEF EditorRest
  <2> QED
    BY <2>1, <2>2, <2>3, <2>4, <2>5, EditorAssumption, EditorEnds
<1>6. ASSUME NEW t \in Slots, ReadFailed(t) PROVE EditorFormed' /\ EditorRest'
  <2>1. /\ Finish(t) /\ store' = store /\ ui' = [ui EXCEPT !.crossed = TRUE]
        /\ calls[t] # None /\ Reads(t)
    BY <1>6 DEF ReadFailed, Ends, InUse
  <2>2. ui.kind # "create"
    BY <2>1 DEF EditorFormed, Reads, InUse
  <2>3. /\ DOMAIN ui' = EditorFields /\ ui'.kind = ui.kind /\ ui'.values = ui.values
        /\ ui'.personal = ui.personal /\ ui'.crossed
    BY <1>1, <2>1 DEF EditorFields
  <2>4. /\ ui.values \in Rows \cup {None} /\ ui.personal \in Rows \cup {None}
        /\ ui.kind # "personal" => ui.personal = None
    BY DEF EditorFormed
  <2> QED
    BY <2>1, <2>2, <2>3, <2>4, EditorEnds

<1>7. ASSUME NEW t \in Slots, ReadServed(t) PROVE EditorFormed' /\ EditorRest'
  <2>1. /\ calls' = [calls EXCEPT ![t].arg = store.rows] /\ ui' = ui /\ store' = store
        /\ Reads(t) /\ calls[t] # None
    BY <1>7 DEF ReadServed, Reads, InUse
  <2>2. /\ DOMAIN calls' = Slots /\ \A s \in Slots : s # t => calls'[s] = calls[s]
        /\ calls'[t] = [calls[t] EXCEPT !.arg = store.rows]
    BY <2>1 DEF EditorFormed, CallsFormed
  <2>3. calls[t] = [op |-> calls[t].op, draft |-> calls[t].draft, arg |-> calls[t].arg,
                    state |-> calls[t].state]
    BY <2>1 DEF EditorFormed, CallsFormed, Formed
  <2>4. /\ calls'[t] = [op |-> calls[t].op, draft |-> calls[t].draft, arg |-> store.rows,
                        state |-> calls[t].state]
    BY <2>2, <2>3
  <2>5. /\ calls'[t].op = calls[t].op /\ calls'[t].draft = calls[t].draft
        /\ calls'[t].arg = store.rows /\ calls'[t].state = calls[t].state
    BY <2>4
  <2>6. CallsFormed'
    BY <2>2, <2>4, <2>5 DEF EditorFormed, CallsFormed, Formed
  <2>7. EditorFormed'
    <3>1. calls'[t] # None => IF ui.kind = "create" THEN InUse(t, "save")' ELSE EditorCall(t)'
      BY <2>1, <2>5 DEF EditorFormed, EditorCall, InUse, Reads
    <3>2. \A s \in Slots : s # t /\ calls'[s] # None =>
             IF ui.kind = "create" THEN InUse(s, "save")' ELSE EditorCall(s)'
      BY <2>1, <2>2 DEF EditorFormed, EditorCall, InUse, Reads
    <3> QED
      BY <2>1, <2>6, <3>1, <3>2 DEF EditorFormed, StoreFormed
  <2>8. EditorRest'
    <3>0. SUFFICES ASSUME ui.kind # "create", ~ui.crossed PROVE EditorRest'
      BY <2>1 DEF EditorRest
    <3>1. \A s \in Slots : s # t => calls[s] = None /\ calls'[s] = None
      BY <2>1, <2>2, <3>0 DEF EditorRest
    <3>2. calls'[t] # None
      <4>1. calls[t].op \in {"read", "image"} /\ calls[t].draft = 0 /\ calls[t].state = "sent"
        BY <2>1, <3>0 DEF EditorFormed, EditorCall, Reads, InUse
      <4>2. calls'[t] \in [op : {"read", "image", "write", "overview"}, draft : {0},
                           arg : Rows \cup WriteRow \cup {None}, state : {"sent"}]
        BY <2>4, <4>1 DEF EditorFormed
      <4> QED
        BY <4>2, EditorAssumption
    <3> QED
      BY <2>1, <2>5, <3>0, <3>1, <3>2 DEF EditorRest, Idling, InUse, Reads
  <2> QED
    BY <2>7, <2>8

<1>8. ASSUME NEW t \in Slots, WriteServed(t) PROVE EditorFormed' /\ EditorRest'
  <2> DEFINE values == calls[t].arg.values
             served == [values |-> values, answer |-> values]
  <2>1. /\ calls' = [calls EXCEPT ![t].arg.answer = values] /\ ui' = ui
        /\ store' = [store EXCEPT !.rows = values]
        /\ InUse(t, "write") /\ calls[t] # None
    BY <1>8 DEF WriteServed, InUse
  <2>2. ui.kind # "create" /\ calls[t].arg \in WriteRow /\ ui.values # None /\ values \in Rows
    BY <2>1 DEF EditorFormed, EditorCall, Reads, InUse, WriteRow
  <2>3. [calls[t].arg EXCEPT !.answer = values] = served
    BY <2>2 DEF WriteRow
  <2>4. calls[t] = [op |-> calls[t].op, draft |-> calls[t].draft, arg |-> calls[t].arg,
                    state |-> calls[t].state]
    BY <2>1 DEF EditorFormed, CallsFormed, Formed
  <2>5. /\ DOMAIN calls' = Slots /\ \A s \in Slots : s # t => calls'[s] = calls[s]
        /\ calls'[t] = [calls[t] EXCEPT !.arg = [calls[t].arg EXCEPT !.answer = values]]
    BY <2>1 DEF EditorFormed, CallsFormed
  <2>6. /\ calls'[t] = [op |-> calls[t].op, draft |-> calls[t].draft, arg |-> served,
                        state |-> calls[t].state]
    BY <2>3, <2>4, <2>5
  <2>7. /\ calls'[t].op = "write" /\ calls'[t].draft = 0 /\ calls'[t].arg = served
        /\ calls'[t].state = "sent" /\ served \in WriteRow
        /\ served.values = values /\ served.answer = values
    BY <2>1, <2>2, <2>6 DEF EditorFormed, EditorCall, InUse, WriteRow
  <2>8. calls'[t] # None
    <3>1. calls'[t] \in [op : {"read", "image", "write", "overview"}, draft : {0},
                         arg : Rows \cup WriteRow \cup {None}, state : {"sent"}]
      BY <2>6, <2>7
    <3> QED
      BY <3>1, EditorAssumption
  <2>9. CallsFormed' /\ StoreFormed' /\ store'.rows = values
    BY <2>1, <2>5, <2>6, <2>7 DEF EditorFormed, CallsFormed, StoreFormed, Formed
  <2> HIDE DEF values, served
  <2>10. EditorFormed'
    <3>1. EditorCall(t)'
      BY <2>1, <2>2, <2>7, <2>8 DEF EditorCall, InUse
    <3>2. \A s \in Slots : s # t /\ calls'[s] # None => EditorCall(s)'
      BY <2>1, <2>2, <2>5 DEF EditorFormed, EditorCall, InUse, Reads
    <3> QED
      BY <2>1, <2>2, <2>9, <3>1, <3>2 DEF EditorFormed
  <2>11. EditorRest'
    <3>1. SUFFICES ASSUME ~ui.crossed PROVE EditorRest'
      BY <2>1 DEF EditorRest
    <3>2. \A s \in Slots : s # t => calls'[s] = None
      BY <2>1, <2>2, <2>5, <3>1 DEF EditorRest
    <3>3. ~ui.touched => ui.values = values
      BY <2>1, <2>2, <3>1 DEF EditorRest, values
    <3> QED
      BY <2>1, <2>7, <2>8, <2>9, <3>1, <3>2, <3>3 DEF EditorRest, Idling, InUse, Reads
  <2> QED
    BY <2>10, <2>11
<1>9. ASSUME NEW t \in Slots, WriteFailed(t) \/ SettingsWritten(t) PROVE EditorFormed' /\ EditorRest'
  <2>1. /\ Finish(t) /\ store' = store /\ calls[t] # None /\ InUse(t, "write")
        /\ \/ ui' = [ui EXCEPT !.busy = FALSE, !.touched = TRUE]
           \/ ui' = [ui EXCEPT !.busy = FALSE] /\ calls[t].arg.answer # None
    BY <1>9 DEF WriteFailed, SettingsWritten, Answered, Ends, InUse
  <2>2. ui.kind # "create"
    BY <2>1 DEF EditorFormed, InUse
  <2>3. /\ DOMAIN ui' = EditorFields /\ ui'.kind = ui.kind /\ ui'.values = ui.values
        /\ ui'.personal = ui.personal /\ ui'.crossed = ui.crossed
        /\ ~ui'.touched => ~ui.touched /\ calls[t].arg.answer # None
    BY <1>1, <2>1 DEF EditorFields
  <2>4. /\ ui.values \in Rows \cup {None} /\ ui.personal \in Rows \cup {None}
        /\ ui.kind # "personal" => ui.personal = None
    BY DEF EditorFormed
  <2>5. ~ui'.crossed /\ ~ui'.touched => ui'.values = store.rows
    BY <2>1, <2>2, <2>3 DEF EditorRest
  <2> QED
    BY <2>1, <2>2, <2>3, <2>4, <2>5, EditorEnds
<1>10. ASSUME NEW t \in Slots, ProfileWritten(t) PROVE EditorFormed' /\ EditorRest'
  <2>1. /\ Finish(t) /\ store' = store /\ calls[t] # None /\ InUse(t, "write")
        /\ calls[t].arg.answer # None
        /\ ui' = [ui EXCEPT !.busy = FALSE, !.values.type = calls[t].arg.answer.type]
    BY <1>10 DEF ProfileWritten, Answered, Ends, InUse
  <2>2. ui.kind # "create" /\ calls[t].arg \in WriteRow /\ ui.values \in Rows
    BY <2>1 DEF EditorFormed, EditorCall, InUse, Reads
  <2>3. calls[t].arg.answer \in [Fields -> BOOLEAN]
    BY <2>1, <2>2 DEF WriteRow, Rows
  <2>4. /\ DOMAIN ui' = EditorFields /\ ui'.kind = ui.kind
        /\ ui'.values = [ui.values EXCEPT !.type = calls[t].arg.answer.type]
        /\ ui'.personal = ui.personal /\ ui'.crossed = ui.crossed /\ ui'.touched = ui.touched
    BY <1>1, <2>1 DEF EditorFields
  <2>5. /\ ui'.values \in Rows /\ ui.personal \in Rows \cup {None}
        /\ ui.kind # "personal" => ui.personal = None
    BY <2>2, <2>3, <2>4 DEF EditorFormed, Rows, Fields
  <2>6. ~ui'.crossed /\ ~ui'.touched => ui'.values = store.rows
    <3>1. ~ui'.crossed /\ ~ui'.touched => ui.values = store.rows /\ calls[t].arg.answer = store.rows
      BY <2>1, <2>2, <2>4 DEF EditorRest
    <3> QED
      BY <2>2, <2>4, <3>1 DEF Rows
  <2> QED
    BY <2>1, <2>2, <2>4, <2>5, <2>6, EditorAssumption, EditorEnds
<1>11. ASSUME NEW t \in Slots, PersonalWritten(t) PROVE EditorFormed' /\ EditorRest'
  <2> DEFINE answer == calls[t].arg.answer
  <2>1. /\ Start(t, "overview", 0, None) /\ ui' = Filled(answer) /\ store' = store
        /\ ui.kind = "personal" /\ calls[t] # None /\ InUse(t, "write") /\ answer # None
    BY <1>11 DEF PersonalWritten, Answered, InUse
  <2>2. answer \in Rows
    BY <2>1 DEF EditorFormed, EditorCall, InUse, Reads, WriteRow
  <2>3. /\ DOMAIN ui' = EditorFields /\ ui'.kind = "personal" /\ ui'.values = answer
        /\ ui'.personal = answer /\ ui'.crossed = ui.crossed
    BY <1>1, <2>1 DEF Filled, Personal, EditorFields
  <2>4. /\ CallsFormed' /\ \A s \in Slots : s # t => calls'[s] = calls[s]
        /\ calls'[t] = Call("overview", 0, None) /\ calls'[t].op = "overview"
        /\ calls'[t].arg = None /\ calls'[t].draft = 0 /\ calls'[t].state = "sent"
    BY <2>1, StartFacts DEF EditorFormed
  <2>5. calls'[t] # None
    BY <2>4, EditorAssumption DEF Call
  <2>6. ~ui.crossed => answer = store.rows
    BY <2>1 DEF EditorRest
  <2> HIDE DEF answer
  <2>7. EditorFormed'
    <3>1. EditorCall(t)'
      BY <2>2, <2>3, <2>4, <2>5, EditorAssumption DEF EditorCall, InUse
    <3>2. \A s \in Slots : s # t /\ calls'[s] # None => EditorCall(s)'
      BY <2>1, <2>2, <2>3, <2>4, EditorAssumption DEF EditorFormed, EditorCall, InUse, Reads
    <3> QED
      BY <2>1, <2>2, <2>3, <2>4, <3>1, <3>2 DEF EditorFormed, StoreFormed
  <2>8. EditorRest'
    <3>1. SUFFICES ASSUME ~ui.crossed PROVE EditorRest'
      BY <2>3 DEF EditorRest
    <3>2. \A s \in Slots : s # t => calls'[s] = None
      BY <2>1, <2>4, <3>1 DEF EditorRest
    <3> QED
      BY <2>1, <2>3, <2>4, <2>5, <2>6, <3>1, <3>2 DEF EditorRest, Idling, InUse, Reads
  <2> QED
    BY <2>7, <2>8
<1>12. ASSUME NEW t \in Slots, OverviewRead(t) PROVE EditorFormed' /\ EditorRest'
  <2>1. /\ Finish(t) /\ store' = store /\ calls[t] # None /\ InUse(t, "overview")
        /\ \/ ui' = [Filled(ui.personal) EXCEPT !.busy = FALSE]
           \/ ui' = [ui EXCEPT !.busy = FALSE]
    BY <1>12 DEF OverviewRead, Ends, InUse
  <2>2. ui.kind = "personal" /\ ui.personal \in Rows /\ ui.values \in Rows \cup {None}
    BY <2>1 DEF EditorFormed, EditorCall, InUse, Reads
  <2>3. /\ DOMAIN ui' = EditorFields /\ ui'.kind = ui.kind /\ ui'.personal = ui.personal
        /\ ui'.crossed = ui.crossed
        /\ \/ ui'.values = ui.personal
           \/ ui'.values = ui.values /\ ui'.touched = ui.touched
    <3>1. CASE ui' = [ui EXCEPT !.busy = FALSE]
      BY <1>1, <3>1 DEF EditorFields
    <3>2. CASE ui' = [Filled(ui.personal) EXCEPT !.busy = FALSE]
      BY <1>1, <2>2, <3>2 DEF EditorFields, Filled, Personal
    <3> QED
      BY <2>1, <3>1, <3>2
  <2>4. ~ui'.crossed /\ ~ui'.touched => ui'.values = store.rows
    BY <2>1, <2>2, <2>3 DEF EditorRest
  <2> QED
    BY <2>1, <2>2, <2>3, <2>4, EditorAssumption, EditorEnds
<1>13. ASSUME NEW field \in Fields, TypeField(field) PROVE EditorFormed' /\ EditorRest'
  <2>1. /\ ui' = [ui EXCEPT !.values[field] = ~@, !.touched = TRUE] /\ calls' = calls
        /\ store' = store /\ ui.values # None
    BY <1>13 DEF TypeField, Sets
  <2>2. ui.values \in Rows
    BY <2>1 DEF EditorFormed
  <2>3. /\ DOMAIN ui' = EditorFields /\ ui'.kind = ui.kind /\ ui'.personal = ui.personal
        /\ ui'.crossed = ui.crossed /\ ui'.touched
        /\ ui'.values = [ui.values EXCEPT ![field] = ~@]
    BY <1>1, <2>1 DEF EditorFields
  <2>4. ui'.values \in Rows /\ ui'.values # None
    BY <2>2, <2>3, EditorAssumption DEF Rows
  <2>5. EditorFormed'
    BY <2>1, <2>3, <2>4 DEF EditorFormed, EditorCall, CallsFormed, StoreFormed, InUse, Reads
  <2>6. EditorRest'
    BY <2>1, <2>3 DEF EditorRest, Idling, InUse, Reads
  <2> QED
    BY <2>5, <2>6
<1>14. CASE SomeoneElse
  <2>1. PICK field \in Fields : store' = [store EXCEPT !.rows[field] = ~@]
    BY <1>14 DEF SomeoneElse
  <2>2. ui' = [ui EXCEPT !.crossed = TRUE] /\ calls' = calls
    BY <1>14 DEF SomeoneElse
  <2>3. StoreFormed' /\ store'.rows \in Rows
    BY <2>1 DEF EditorFormed, StoreFormed, Rows
  <2>4. /\ DOMAIN ui' = EditorFields /\ ui'.kind = ui.kind /\ ui'.personal = ui.personal
        /\ ui'.values = ui.values /\ ui'.crossed
    BY <1>1, <2>2 DEF EditorFields
  <2> QED
    BY <2>2, <2>3, <2>4 DEF EditorFormed, EditorCall, EditorRest, CallsFormed, InUse, Reads
<1>15. CASE CreateBusiness
  <2>1. PICK t \in Slots : Start(t, "save", ui.draft, None)
    BY <1>15 DEF CreateBusiness, Sends
  <2>2. ui' = [ui EXCEPT !.busy = TRUE] /\ store' = store /\ ui.kind = "create"
    BY <1>15 DEF CreateBusiness
  <2>3. /\ DOMAIN ui' = EditorFields /\ ui'.kind = "create" /\ ui'.personal = ui.personal
        /\ ui'.values = ui.values
    BY <1>1, <2>2 DEF EditorFields
  <2>4. /\ CallsFormed' /\ \A s \in Slots : s # t => calls'[s] = calls[s]
        /\ calls'[t].op = "save"
    BY <2>1, StartFacts DEF EditorFormed
  <2> QED
    BY <2>2, <2>3, <2>4 DEF EditorFormed, EditorRest, StoreFormed, InUse
<1>16. ASSUME NEW t \in Slots, BusinessCreated(t) \/ BusinessNotCreated(t)
       PROVE  EditorFormed' /\ EditorRest'
  <2>1. /\ Finish(t) /\ store' = store /\ InUse(t, "save") /\ calls[t] # None
        /\ \/ ui' = [ui EXCEPT !.busy = FALSE]
           \/ ui' = [EditorUi("create") EXCEPT !.draft = Following(ui.draft)]
    BY <1>16 DEF BusinessCreated, BusinessNotCreated, Saved, NotSaved, Saves, InUse
  <2>2. ui.kind = "create"
    BY <2>1 DEF EditorFormed, EditorCall, InUse, Reads
  <2>3. ui.values = None /\ ui.personal = None
    BY <2>2 DEF EditorFormed
  <2>4. /\ DOMAIN ui' = EditorFields /\ ui'.kind = "create" /\ ui'.personal = None
        /\ ui'.values = None
    <3>1. CASE ui' = [ui EXCEPT !.busy = FALSE]
      BY <1>1, <2>2, <2>3, <3>1 DEF EditorFields
    <3>2. CASE ui' = [EditorUi("create") EXCEPT !.draft = Following(ui.draft)]
      BY <3>2 DEF EditorFields, EditorUi
    <3> QED
      BY <2>1, <3>1, <3>2
  <2>5. CallsFormed' /\ calls'[t] = None /\ \A s \in Slots : s # t => calls'[s] = calls[s]
    BY <2>1, FinishFacts DEF EditorFormed
  <2> QED
    BY <2>1, <2>2, <2>4, <2>5 DEF EditorFormed, EditorRest, StoreFormed, InUse
<1> QED
  BY <1>2, <1>3, <1>4, <1>5, <1>6, <1>7, <1>8, <1>9, <1>10, <1>11, <1>12, <1>13, <1>14, <1>15,
     <1>16 DEF EditorNext, EditorUser, EditorAnswered

LEMMA EditorAlways == WorkSpec => []EditorInv
<1>1. WorkInit => EditorInv
  <2> SUFFICES ASSUME WorkInit, page = "editor" PROVE EditorFormed /\ EditorRest
    BY DEF EditorInv
  <2>1. EditorInit
    BY DEF WorkInit, SalesInit, ReturnsInit, FinancingInit, AgreementsInit, StockInit, ReceiptsInit,
       CatalogInit, ExpensesInit, BudgetsInit, DocumentsInit, TeamInit, AssistantInit, SearchInit,
       PreferencesInit
  <2>2. StoreFormed /\ store.rows \in Rows /\ store.rows = Stored
    BY <2>1 DEF EditorInit, NoWrites, StoreFormed, Stored, Rows
  <2>3. /\ DOMAIN ui = EditorFields /\ ui.values = None /\ ui.personal = None
        /\ IF ui.kind = "create" THEN calls = NoCalls
           ELSE calls = [NoCalls EXCEPT ![1] = Call("read", 0, None)]
    BY <2>1 DEF EditorInit, EditorUi, EditorFields
  <2>4. CASE calls = NoCalls
    BY <2>2, <2>3, <2>4, MountedFacts DEF EditorFormed, EditorRest, InUse, Reads
  <2>5. CASE ui.kind # "create" /\ calls = [NoCalls EXCEPT ![1] = Call("read", 0, None)]
    <3>1. 1 \in Slots
      BY RuntimeAssumption DEF Slots
    <3>2. /\ DOMAIN calls = Slots /\ \A s \in Slots : s # 1 => calls[s] = None
          /\ calls[1] = Call("read", 0, None)
      BY <2>5, <3>1 DEF NoCalls
    <3>3. /\ Formed(calls[1]) /\ calls[1].op = "read" /\ calls[1].arg = None
          /\ calls[1].draft = 0 /\ calls[1].state = "sent"
      BY <3>2 DEF Formed, Call
    <3>4. CallsFormed
      BY <3>2, <3>3 DEF CallsFormed
    <3>5. \A s \in Slots : calls[s] # None => EditorCall(s)
      BY <3>2, <3>3 DEF EditorCall, Reads, InUse
    <3> QED
      BY <2>2, <2>3, <2>5, <3>2, <3>3, <3>4, <3>5 DEF EditorFormed, EditorRest, InUse, Reads
  <2> QED
    BY <2>3, <2>4, <2>5
<1>2. EditorInv /\ [WorkNext]_vars => EditorInv'
  <2> SUFFICES ASSUME EditorInv, [WorkNext]_vars, page = "editor" PROVE EditorInv'
    BY PageStays DEF EditorInv
  <2>1. CASE EditorNext
    BY <2>1, EditorSteps DEF EditorInv
  <2>2. ASSUME NEW t \in Slots, Settle(t) PROVE EditorInv'
    <3>1. EditorFormed /\ EditorRest /\ CallsFormed /\ StoreFormed
      BY DEF EditorInv, EditorFormed
    <3>2. /\ CallsFormed' /\ StoreFormed' /\ page' = page /\ ui' = ui /\ InUse(t, "save")
          /\ \A s \in Slots : s # t => calls'[s] = calls[s]
          /\ calls'[t].op = calls[t].op /\ store'.rows = store.rows
      BY <2>2, <3>1, SettleFacts
    <3>3. ui.kind = "create"
      BY <3>1, <3>2 DEF EditorFormed, EditorCall, InUse, Reads
    <3> QED
      BY <3>1, <3>2, <3>3 DEF EditorInv, EditorFormed, EditorRest, InUse
  <2>3. CASE UNCHANGED vars
    BY <2>3 DEF vars, EditorInv, EditorFormed, EditorCall, EditorRest, CallsFormed, StoreFormed,
       Idling, InUse, Reads
  <2> QED
    BY <2>1, <2>2, <2>3, OwnSteps DEF Network
<1> QED
  BY <1>1, <1>2, PTL DEF WorkSpec

(* An editor at rest in which nothing was typed shows what the backend has, *)
(* unless requests crossed, one went astray or someone else wrote.          *)
THEOREM EditorsComeBack == WorkSpec => []EditorsFollowTheBackend
<1>1. EditorInv => EditorsFollowTheBackend
  BY DEF EditorInv, EditorFormed, EditorRest, EditorsFollowTheBackend
<1> QED
  BY <1>1, EditorAlways, PTL

-----------------------------------------------------------------------------
(* The stock recorder *)

StockFields    == {"form", "active", "draft", "busy", "saved"}
RecorderFields == {"screen", "stack", "selected", "lines", "fresh", "current", "group"}

(* A form whose list of chosen products is that of its lines. *)
Matches(f) ==
    /\ DOMAIN f = RecorderFields
    /\ f.lines \in [Choices -> LineRow \cup {None}]
    /\ f.selected = {c \in Choices : f.lines[c] # None}

StockInv ==
    page = "stock" => DOMAIN ui = StockFields /\ ui.active \subseteq Stocked /\ Matches(ui.form)

LEMMA RecorderMatches == Matches(Recorder)
  BY DEF Matches, Recorder, RecorderFields

(* Moving between the screens, and naming the product or the family that is *)
(* worked on, leave both alone.                                             *)
LEMMA MovesMatch ==
    ASSUME NEW f, Matches(f), NEW next
    PROVE  Matches(Show(next, f)) /\ Matches(Back(f)) /\ Matches(Home(f)) /\ Matches(SimpleForm(f))
<1>1. Matches(Show(next, f))
  BY DEF Matches, Show, RecorderFields
<1>2. Matches(Back(f))
  BY DEF Matches, Back, RecorderFields
<1>3. Matches(Home(f))
  BY DEF Matches, Home, RecorderFields
<1>4. Matches(SimpleForm(f))
  BY DEF Matches, SimpleForm, Show, RecorderFields
<1> QED
  BY <1>1, <1>2, <1>3, <1>4

LEMMA NamingMatches ==
    ASSUME NEW f, Matches(f), NEW group, NEW current, NEW fresh, NEW screen, NEW stack
    PROVE  /\ Matches([f EXCEPT !.group = group, !.current = current])
           /\ Matches([f EXCEPT !.current = current])
           /\ Matches([f EXCEPT !.current = current, !.screen = screen])
           /\ Matches([f EXCEPT !.fresh = fresh, !.current = current, !.screen = screen])
           /\ Matches([f EXCEPT !.group = group, !.current = current, !.screen = screen, !.stack = stack])
  BY DEF Matches, RecorderFields

LEMMA SelectedMatches ==
    ASSUME NEW f, Matches(f), NEW c \in Choices
    PROVE  Matches(Selected(c, f))
<1>1. EmptyLine \in LineRow /\ EmptyLine # None
  BY StockRecorderAssumption DEF EmptyLine, LineRow
<1>2. /\ DOMAIN Selected(c, f) = RecorderFields /\ Selected(c, f).selected = f.selected \cup {c}
      /\ Selected(c, f).lines = [f.lines EXCEPT ![c] = IF @ = None THEN EmptyLine ELSE @]
  BY DEF Matches, Selected, RecorderFields
<1> QED
  BY <1>1, <1>2 DEF Matches

(* A line that is counted again stays a line. *)
LEMMA CountedMatches ==
    ASSUME NEW f, NEW g, Matches(f), NEW c \in Choices, f.lines[c] # None, NEW line \in LineRow,
           DOMAIN g = RecorderFields, g.selected = f.selected, g.lines = [f.lines EXCEPT ![c] = line]
    PROVE  Matches(g)
  BY StockRecorderAssumption DEF Matches

LEMMA EditedForm ==
    ASSUME StockInv, page = "stock", NEW f, Edit(f), Matches(f)
    PROVE  StockInv'
  BY DEF StockInv, Edit, Sets, StockFields

(* The product that is counted, and its line. *)
LEMMA CountingFacts ==
    ASSUME StockInv, page = "stock", Counting
    PROVE  /\ form.current \in Choices /\ form.lines[form.current] # None /\ Line \in LineRow
           /\ Line = [quantity |-> Line.quantity, units |-> Line.units]
           /\ Line.quantity \in Nat /\ Line.units \in Nat
<1>1. form.current \in Choices /\ form.lines[form.current] # None
  BY DEF Counting, Available, StockInv, Choices
<1>2. form.lines \in [Choices -> LineRow \cup {None}]
  BY DEF StockInv, Matches, form
<1>3. Line \in LineRow
  BY <1>1, <1>2 DEF Line
<1> QED
  BY <1>1, <1>3 DEF LineRow

LEMMA StockEdits ==
    ASSUME StockInv, page = "stock",
           StockUser, ~RecordAnother, ~LateDelivery, \A status : ~SaveStock(status)
    PROVE  StockInv'
<1>1. DOMAIN ui = StockFields /\ Matches(form)
  BY DEF StockInv, form
<1>2. CASE GoBack \/ LeaveStockDetails
  <2>1. Edit(Back(form)) /\ Matches(Back(form))
    BY <1>1, <1>2, MovesMatch DEF GoBack, LeaveStockDetails
  <2> QED
    BY <2>1, EditedForm
<1>3. CASE GoHome
  <2>1. Edit(Home(form)) /\ Matches(Home(form))
    BY <1>1, <1>3, MovesMatch DEF GoHome
  <2> QED
    BY <2>1, EditedForm
<1>4. CASE ShowStockDetails \/ BeginNewGroup \/ ReviewStock \/ BeginNewVariety
  <2>1. PICK next \in {"stockDetails", "newGroup", "review", "newVariety"} : Edit(Show(next, form))
    BY <1>4 DEF ShowStockDetails, BeginNewGroup, ReviewStock, BeginNewVariety
  <2>2. Matches(Show(next, form))
    BY <1>1, MovesMatch
  <2> QED
    BY <2>1, <2>2, EditedForm
<1>5. CASE OpenGroup
  <2> DEFINE named == [form EXCEPT !.group = TRUE, !.current = None]
  <2>1. Edit(Show("groupVarieties", named))
    BY <1>5 DEF OpenGroup
  <2>2. Matches(named)
    BY <1>1, NamingMatches
  <2> HIDE DEF named
  <2>3. Matches(Show("groupVarieties", named))
    BY <2>2, MovesMatch
  <2> QED
    BY <2>1, <2>3, EditedForm
<1>6. CASE CreateGroup
  <2> DEFINE made == [form EXCEPT !.group = TRUE, !.current = None, !.screen = "newVariety",
                                  !.stack = Append(@, "groupVarieties")]
  <2>1. Edit(made)
    BY <1>6 DEF CreateGroup
  <2>2. Matches(made)
    BY <1>1 DEF Matches, RecorderFields
  <2> HIDE DEF made
  <2> QED
    BY <2>1, <2>2, EditedForm
<1>7. CASE CreateVariety
  <2>1. CASE \E c \in Choices : Edit([Selected(c, form) EXCEPT !.current = c, !.screen = "recording"])
    <3>1. PICK c \in Choices : Edit([Selected(c, form) EXCEPT !.current = c, !.screen = "recording"])
      BY <2>1
    <3>2. Matches(Selected(c, form))
      BY <1>1, SelectedMatches
    <3>3. Matches([Selected(c, form) EXCEPT !.current = c, !.screen = "recording"])
      BY <3>2, NamingMatches
    <3> QED
      BY <3>1, <3>3, EditedForm
  <2>2. CASE Edit([Selected("fresh", form) EXCEPT !.fresh = "grouped", !.current = "fresh",
                                                  !.screen = "recording"])
    <3>1. Matches(Selected("fresh", form))
      BY <1>1, SelectedMatches DEF Choices
    <3>2. Matches([Selected("fresh", form) EXCEPT !.fresh = "grouped", !.current = "fresh",
                                                  !.screen = "recording"])
      BY <3>1, NamingMatches
    <3> QED
      BY <2>2, <3>2, EditedForm
  <2> QED
    BY <1>7, <2>1, <2>2 DEF CreateVariety
<1>8. CASE BeginSimpleProduct
  <2>1. Edit(SimpleForm(form)) /\ Matches(SimpleForm(form))
    BY <1>1, <1>8, MovesMatch DEF BeginSimpleProduct
  <2> QED
    BY <2>1, EditedForm
<1>9. CASE CreateSimpleProduct
  <2>1. Matches(Selected("fresh", form))
    BY <1>1, SelectedMatches DEF Choices
  <2>2. Matches([Selected("fresh", form) EXCEPT !.fresh = "simple", !.current = "fresh",
                                                !.screen = "recording"])
    BY <2>1, NamingMatches
  <2> QED
    BY <1>9, <2>2, EditedForm DEF CreateSimpleProduct
<1>10. ASSUME NEW c \in Choices, Records(c) PROVE StockInv'
  <2> DEFINE chosen == [Selected(c, form) EXCEPT !.current = c]
  <2>1. Edit(Show("recording", chosen))
    BY <1>10 DEF Records
  <2>2. Matches(Selected(c, form))
    BY <1>1, SelectedMatches
  <2>3. Matches(chosen)
    BY <2>2, NamingMatches
  <2> HIDE DEF chosen
  <2>4. Matches(Show("recording", chosen))
    BY <2>3, MovesMatch
  <2> QED
    BY <2>1, <2>4, EditedForm
<1>11. ASSUME NEW c \in Choices, RemoveSelected(c) PROVE StockInv'
  <2> DEFINE removed == [form EXCEPT !.selected = @ \ {c}, !.lines[c] = None]
  <2>1. Edit(removed)
    BY <1>11 DEF RemoveSelected
  <2>2. Matches(removed)
    BY <1>1 DEF Matches, RecorderFields
  <2> HIDE DEF removed
  <2> QED
    BY <2>1, <2>2, EditedForm
<1>12. ASSUME NEW q \in 0..MaxQuantity, UpdateCurrentLine(q) PROVE StockInv'
  <2> DEFINE counted == [form EXCEPT !.lines[form.current].quantity = q]
  <2>1. Edit(counted) /\ Counting
    BY <1>12 DEF UpdateCurrentLine
  <2>2. /\ form.current \in Choices /\ form.lines[form.current] # None
        /\ [Line EXCEPT !.quantity = q] \in LineRow
    BY <2>1, CountingFacts DEF LineRow
  <2>3. /\ DOMAIN counted = RecorderFields /\ counted.selected = form.selected
        /\ counted.lines = [form.lines EXCEPT ![form.current] = [Line EXCEPT !.quantity = q]]
    BY <1>1 DEF Matches, RecorderFields, Line
  <2> HIDE DEF counted
  <2>4. Matches(counted)
    BY <1>1, <2>2, <2>3, CountedMatches
  <2> QED
    BY <2>1, <2>4, EditedForm
<1>13. CASE ContinueRecording
  <2>1. Counting
    BY <1>13 DEF ContinueRecording
  <2> DEFINE units == IF Line.units > Line.quantity THEN Line.quantity ELSE Line.units
             kept  == [form EXCEPT !.lines[form.current].units =
                                       IF @ > Line.quantity THEN Line.quantity ELSE @]
  <2>2. Matches(kept)
    <3>1. [Line EXCEPT !.units = units] \in LineRow
      BY <2>1, CountingFacts DEF LineRow
    <3>2. /\ DOMAIN kept = RecorderFields /\ kept.selected = form.selected
          /\ kept.lines = [form.lines EXCEPT ![form.current] = [Line EXCEPT !.units = units]]
      BY <1>1, <2>1, CountingFacts DEF Matches, RecorderFields, Line
    <3> HIDE DEF kept
    <3> QED
      BY <1>1, <2>1, <3>1, <3>2, CountingFacts, CountedMatches
  <2>3. \E next : Edit(Show(next, kept)) \/ Edit(Show(next, form))
    BY <1>13 DEF ContinueRecording
  <2> HIDE DEF kept
  <2>4. PICK next : Edit(Show(next, kept)) \/ Edit(Show(next, form))
    BY <2>3
  <2>5. Matches(Show(next, kept)) /\ Matches(Show(next, form))
    BY <1>1, <2>2, MovesMatch
  <2> QED
    BY <2>4, <2>5, EditedForm
<1>14. CASE AddItem
  <2>1. Counting
    BY <1>14 DEF AddItem
  <2> DEFINE more  == Line.units < Line.quantity
             added == [form EXCEPT !.lines[form.current].units = IF more THEN @ + 1 ELSE @]
             units == IF more THEN Line.units + 1 ELSE Line.units
  <2>2. Matches(added)
    <3>1. [Line EXCEPT !.units = units] \in LineRow
      BY <2>1, CountingFacts DEF LineRow
    <3>2. /\ DOMAIN added = RecorderFields /\ added.selected = form.selected
          /\ added.lines = [form.lines EXCEPT ![form.current] = [Line EXCEPT !.units = units]]
      BY <1>1, <2>1, CountingFacts DEF Matches, RecorderFields, Line
    <3> HIDE DEF added
    <3> QED
      BY <1>1, <2>1, <3>1, <3>2, CountingFacts, CountedMatches
  <2>3. Edit(Show("afterVariety", added)) \/ Edit(added)
    BY <1>14 DEF AddItem
  <2> HIDE DEF added
  <2>4. Matches(Show("afterVariety", added))
    BY <2>2, MovesMatch
  <2> QED
    BY <2>2, <2>3, <2>4, EditedForm
<1>15. CASE RemoveRecordedItem
  <2> DEFINE removed == [form EXCEPT !.lines[form.current].units = @ - 1]
  <2>1. Edit(removed) /\ Counting /\ Line.units > 0
    BY <1>15 DEF RemoveRecordedItem
  <2>2. [Line EXCEPT !.units = Line.units - 1] \in LineRow
    BY <2>1, CountingFacts DEF LineRow
  <2>3. /\ DOMAIN removed = RecorderFields /\ removed.selected = form.selected
        /\ removed.lines = [form.lines EXCEPT ![form.current] = [Line EXCEPT !.units = Line.units - 1]]
    BY <1>1, <2>1, CountingFacts DEF Matches, RecorderFields, Line
  <2> HIDE DEF removed
  <2>4. Matches(removed)
    BY <1>1, <2>1, <2>2, <2>3, CountingFacts, CountedMatches
  <2> QED
    BY <2>1, <2>4, EditedForm
<1>16. CASE AddAnotherVariety
  <2> DEFINE named == [form EXCEPT !.group = TRUE, !.current = None]
  <2>1. Edit(Show("newVariety", named)) \/ Edit(SimpleForm(form))
    BY <1>16 DEF AddAnotherVariety
  <2>2. Matches(named) /\ Matches(SimpleForm(form))
    BY <1>1, NamingMatches, MovesMatch
  <2> HIDE DEF named
  <2>3. Matches(Show("newVariety", named))
    BY <2>2, MovesMatch
  <2> QED
    BY <2>1, <2>2, <2>3, EditedForm
<1>17. CASE FinishGroup
  <2> DEFINE left == [form EXCEPT !.current = None]
  <2>1. Edit(Home(left))
    BY <1>17 DEF FinishGroup
  <2>2. Matches(left)
    BY <1>1, NamingMatches
  <2> HIDE DEF left
  <2>3. Matches(Home(left))
    BY <2>2, MovesMatch
  <2> QED
    BY <2>1, <2>3, EditedForm
<1>18. ASSUME NEW c \in Choices, StartRecording(c) \/ RecordVariety(c) PROVE StockInv'
  BY <1>10, <1>18 DEF StartRecording, RecordVariety
<1> QED
  BY <1>2, <1>3, <1>4, <1>5, <1>6, <1>7, <1>8, <1>9, <1>11, <1>12, <1>13, <1>14, <1>15, <1>16,
     <1>17, <1>18
     DEF StockUser, ProductsScreen, NewGroupScreen, GroupVarietiesScreen, NewVarietyScreen,
         NewSimpleScreen, RecordingScreen, ItemEntryScreen, AfterVarietyScreen, StockDetailsScreen,
         ReviewScreen, RecorderFrame

LEMMA StockSteps ==
    ASSUME StockInv, page = "stock", StockNext
    PROVE  StockInv'
<1>1. DOMAIN ui = StockFields /\ Matches(ui.form) /\ ui.active \subseteq Stocked
  BY DEF StockInv
<1>2. CASE RecordAnother \/ LateDelivery
  <2>1. ui' = ResetRecorder
    BY <1>2 DEF RecordAnother, LateDelivery, Sets
  <2>2. DOMAIN ui' = StockFields /\ ui'.form = Recorder /\ ui'.active = ui.active
    BY <1>1, <2>1 DEF ResetRecorder, StockFields
  <2> QED
    BY <1>1, <2>2, RecorderMatches DEF StockInv
<1>3. ASSUME NEW status, SaveStock(status) PROVE StockInv'
  <2>1. ui' = [ui EXCEPT !.busy = TRUE]
    BY <1>3 DEF SaveStock
  <2> QED
    BY <1>1, <2>1 DEF StockInv, StockFields
<1>4. ASSUME NEW s \in Slots, StockAnswered(s) PROVE StockInv'
  <2>1. \/ ui' = [ui EXCEPT !.saved = calls[s].draft]
        \/ ui' = [ui EXCEPT !.busy = FALSE]
        \/ \E active \in SUBSET Stocked :
              \/ ui' = [ui EXCEPT !.active = active]
              \/ ui' = [ui EXCEPT !.active = active, !.busy = FALSE]
    BY <1>4 DEF StockAnswered, StockSaved, StockNotSaved, StockLoaded, Saved, NotSaved, Ends
  <2> QED
    BY <1>1, <2>1 DEF StockInv, StockFields
<1>5. CASE Reloads
  BY <1>1, <1>5 DEF Reloads, StockInv
<1> QED
  BY <1>2, <1>3, <1>4, <1>5, StockEdits DEF StockNext

LEMMA StockAlways == WorkSpec => []StockInv
<1>1. WorkInit => StockInv
  <2> SUFFICES ASSUME WorkInit, page = "stock"
               PROVE  DOMAIN ui = StockFields /\ ui.active \subseteq Stocked /\ Matches(ui.form)
    BY DEF StockInv
  <2>1. StockInit
    BY DEF WorkInit, SalesInit, ReturnsInit, FinancingInit, AgreementsInit, ReceiptsInit,
       CatalogInit, ExpensesInit, BudgetsInit, DocumentsInit, TeamInit, AssistantInit, SearchInit,
       PreferencesInit, EditorInit
  <2> QED
    BY <2>1, RecorderMatches DEF StockInit, StockUi, StockFields
<1>2. StockInv /\ [WorkNext]_vars => StockInv'
  <2> SUFFICES ASSUME StockInv, [WorkNext]_vars, page = "stock" PROVE StockInv'
    BY PageStays DEF StockInv
  <2>1. CASE StockNext
    BY <2>1, StockSteps
  <2>2. CASE Network
    BY <2>2 DEF Network, Settle, Serve, Refuse, Lose, StockInv
  <2>3. CASE UNCHANGED vars
    BY <2>3 DEF vars, StockInv
  <2> QED
    BY <2>1, <2>2, <2>3, OwnSteps
<1> QED
  BY <1>1, <1>2, PTL DEF WorkSpec

(* The list of chosen products and their lines name the same products,      *)
(* through every screen, whatever is added, counted, taken off or reset.    *)
THEOREM SelectionsMatch == WorkSpec => []SelectionMatchesLines
<1>1. StockInv => SelectionMatchesLines
  BY DEF StockInv, Matches, SelectionMatchesLines, form
<1> QED
  BY <1>1, StockAlways, PTL

-----------------------------------------------------------------------------
(* The assistant *)

AssistantFields == {"mode", "typed", "messages", "asked", "controller", "failed", "draft", "busy", "saved"}

Said == [role : {"user", "assistant"}, number : Nat]

(* The one request there can be is about the message at the end. *)
AssistantInv ==
    page = "assistant" =>
        /\ CallsFormed /\ StoreFormed /\ DOMAIN ui = AssistantFields
        /\ ui.messages \in Seq(Said) /\ ui.asked \in Nat
        /\ \A s \in Slots : calls[s] # None =>
              /\ InUse(s, "ask") /\ ui.busy /\ ui.controller = s
              /\ calls[s].arg.number \in Nat /\ Len(ui.messages) > 0
              /\ ui.messages[Len(ui.messages)] = Says("user", calls[s].arg.number)
        /\ AnswersFollowTheirQuestion

LEMMA AssistantSteps ==
    ASSUME AssistantInv, page = "assistant", AssistantNext
    PROVE  AssistantInv'
<1>1. /\ CallsFormed /\ StoreFormed /\ DOMAIN ui = AssistantFields
      /\ ui.messages \in Seq(Said) /\ ui.asked \in Nat /\ AnswersFollowTheirQuestion
  BY DEF AssistantInv
<1>2. page' = page
  BY AssistantStays
<1>3. ASSUME NEW next, Sets(next), DOMAIN next = AssistantFields, next.messages = ui.messages,
             next.asked = ui.asked, next.busy = ui.busy, next.controller = ui.controller
      PROVE  AssistantInv'
  BY <1>1, <1>3 DEF AssistantInv, Sets, CallsFormed, StoreFormed, InUse, AnswersFollowTheirQuestion
<1>4. ASSUME NEW mode, ChangeMode(mode) PROVE AssistantInv'
  <2>1. /\ Sets([ui EXCEPT !.mode = mode])
        /\ DOMAIN [ui EXCEPT !.mode = mode] = AssistantFields
    BY <1>1, <1>4 DEF ChangeMode
  <2> QED
    BY <1>1, <1>3, <2>1 DEF AssistantFields
<1>5. CASE TypeMessage
  <2>1. /\ Sets([ui EXCEPT !.typed = TRUE])
        /\ DOMAIN [ui EXCEPT !.typed = TRUE] = AssistantFields
    BY <1>1, <1>5 DEF TypeMessage
  <2> QED
    BY <1>1, <1>3, <2>1 DEF AssistantFields
<1>6. CASE LeaveConversation
  <2>1. ui' = AssistantUi /\ calls' = NoCalls /\ store' = store
    BY <1>6 DEF LeaveConversation
  <2>2. /\ DOMAIN ui' = AssistantFields /\ ui'.messages = << >> /\ ui'.asked = 0
    BY <2>1 DEF AssistantUi, AssistantFields
  <2>3. CallsFormed' /\ \A s \in Slots : calls'[s] = None
    BY <2>1 DEF NoCalls, CallsFormed
  <2>4. AnswersFollowTheirQuestion'
    BY <2>2 DEF AnswersFollowTheirQuestion
  <2> QED
    BY <1>1, <2>1, <2>2, <2>3, <2>4 DEF AssistantInv, StoreFormed
<1>7. CASE SendMessage
  <2> DEFINE number == ui.asked + 1
             arg    == [number |-> number, history |-> LastOf(ui.messages)]
  <2>1. /\ calls' = [NoCalls EXCEPT ![1] = Call("ask", 0, arg)] /\ store' = store
        /\ ui' = [ui EXCEPT !.typed = FALSE, !.asked = number, !.busy = TRUE, !.failed = FALSE,
                            !.controller = 1, !.messages = Append(@, Says("user", number))]
    BY <1>7 DEF SendMessage
  <2>2. 1 \in Slots
    BY RuntimeAssumption DEF Slots
  <2>3. /\ DOMAIN calls' = Slots /\ \A r \in Slots : r # 1 => calls'[r] = None
        /\ calls'[1] = Call("ask", 0, arg) /\ calls'[1].op = "ask" /\ calls'[1].arg = arg
    BY <2>1, <2>2 DEF NoCalls, Call
  <2>4. CallsFormed'
    BY <2>3 DEF CallsFormed, Formed, Call
  <2>5. /\ DOMAIN ui' = AssistantFields /\ ui'.asked = number /\ ui'.busy /\ ui'.controller = 1
        /\ ui'.messages = Append(ui.messages, Says("user", number))
    BY <1>1, <2>1 DEF AssistantFields
  <2>6. number \in Nat /\ arg.number = number /\ Says("user", number) \in Said
    BY <1>1 DEF Says, Said
  <2>7. /\ ui'.messages \in Seq(Said) /\ Len(ui'.messages) = Len(ui.messages) + 1
        /\ ui'.messages[Len(ui'.messages)] = Says("user", number) /\ Len(ui'.messages) > 0
        /\ \A i \in 1..Len(ui.messages) : ui'.messages[i] = ui.messages[i]
    BY <1>1, <2>5, <2>6
  <2> HIDE DEF number, arg
  <2>8. AnswersFollowTheirQuestion'
    <3> SUFFICES ASSUME NEW i \in 1..Len(ui'.messages), ui'.messages[i].role = "assistant"
                 PROVE  i > 1 /\ ui'.messages[i - 1] = Says("user", ui'.messages[i].number)
      BY <2>7 DEF AnswersFollowTheirQuestion
    <3>1. i \in 1..Len(ui.messages)
      BY <1>1, <2>7 DEF Says
    <3>2. i > 1 /\ ui.messages[i - 1] = Says("user", ui.messages[i].number)
      BY <1>1, <1>2, <2>7, <3>1 DEF AnswersFollowTheirQuestion
    <3> QED
      BY <1>1, <2>7, <3>1, <3>2
  <2> QED
    BY <1>1, <2>1, <2>3, <2>4, <2>5, <2>6, <2>7, <2>8 DEF AssistantInv, StoreFormed, InUse
<1>8. ASSUME NEW s \in Slots, AssistantAnswered(s) PROVE AssistantInv'
  <2>1. /\ calls[s] # None /\ Finish(s) /\ store' = store
        /\ \/ ui' = [Sent(s) EXCEPT !.messages = Append(@, Says("assistant", calls[s].arg.number))]
           \/ ui' = [Sent(s) EXCEPT !.failed = TRUE]
    BY <1>8 DEF AssistantAnswered, AnswerArrives, AnswerFails, Ends, InUse
  <2>2. /\ ui.busy /\ ui.controller = s /\ calls[s].arg.number \in Nat /\ Len(ui.messages) > 0
        /\ ui.messages[Len(ui.messages)] = Says("user", calls[s].arg.number)
        /\ \A r \in Slots : r # s => calls[r] = None
    BY <2>1 DEF AssistantInv
  <2>3. CallsFormed' /\ \A r \in Slots : calls'[r] = None
    BY <1>1, <2>1, <2>2, FinishFacts
  <2>4. /\ DOMAIN ui' = AssistantFields /\ ui'.asked = ui.asked
        /\ \/ ui'.messages = Append(ui.messages, Says("assistant", calls[s].arg.number))
           \/ ui'.messages = ui.messages
    BY <1>1, <2>1, <2>2 DEF AssistantFields, Sent
  <2>5. ui'.messages \in Seq(Said) /\ AnswersFollowTheirQuestion'
    <3>1. CASE ui'.messages = ui.messages
      BY <1>1, <1>2, <3>1 DEF AnswersFollowTheirQuestion
    <3>2. CASE ui'.messages = Append(ui.messages, Says("assistant", calls[s].arg.number))
      <4> DEFINE number == calls[s].arg.number
      <4>1. number \in Nat /\ Says("assistant", number) \in Said
        BY <2>2 DEF Says, Said
      <4>2. /\ ui'.messages \in Seq(Said) /\ Len(ui'.messages) = Len(ui.messages) + 1
            /\ ui'.messages[Len(ui'.messages)] = Says("assistant", number)
            /\ \A i \in 1..Len(ui.messages) : ui'.messages[i] = ui.messages[i]
        BY <1>1, <3>2, <4>1
      <4> HIDE DEF number
      <4>3. AnswersFollowTheirQuestion'
        <5> SUFFICES ASSUME NEW i \in 1..Len(ui'.messages), ui'.messages[i].role = "assistant"
                     PROVE  i > 1 /\ ui'.messages[i - 1] = Says("user", ui'.messages[i].number)
          BY <4>2 DEF AnswersFollowTheirQuestion
        <5>1. CASE i \in 1..Len(ui.messages)
          <6>1. i > 1 /\ ui.messages[i - 1] = Says("user", ui.messages[i].number)
            BY <1>1, <1>2, <4>2, <5>1 DEF AnswersFollowTheirQuestion
          <6> QED
            BY <1>1, <4>2, <5>1, <6>1
        <5>2. CASE i = Len(ui'.messages)
          <6>1. i - 1 = Len(ui.messages) /\ i > 1 /\ Len(ui.messages) \in 1..Len(ui.messages)
            BY <1>1, <2>2, <4>2, <5>2
          <6>2. ui'.messages[i].number = number
            BY <4>2, <5>2 DEF Says
          <6> QED
            BY <2>2, <4>2, <6>1, <6>2 DEF number
        <5> QED
          BY <1>1, <4>2, <5>1, <5>2
      <4> QED
        BY <4>2, <4>3
    <3> QED
      BY <2>4, <3>1, <3>2
  <2> QED
    BY <1>1, <2>1, <2>3, <2>4, <2>5 DEF AssistantInv, StoreFormed
<1> QED
  BY <1>4, <1>5, <1>6, <1>7, <1>8 DEF AssistantNext, AssistantUser

(* An answer stands right below its question, and so does it in the history *)
(* sent with the next one, however many requests failed or were hidden.     *)
THEOREM AnswersStandBelow == WorkSpec => []AnswersFollowTheirQuestion
<1>1. WorkInit => AssistantInv
  <2> SUFFICES ASSUME WorkInit, page = "assistant" PROVE AssistantInv
    BY DEF AssistantInv
  <2>1. AssistantInit
    BY DEF WorkInit, SalesInit, ReturnsInit, FinancingInit, AgreementsInit, StockInit, ReceiptsInit,
       CatalogInit, ExpensesInit, BudgetsInit, DocumentsInit, TeamInit, SearchInit,
       PreferencesInit, EditorInit
  <2>2. CallsFormed /\ StoreFormed /\ \A s \in Slots : calls[s] = None
    BY <2>1, MountedFacts DEF AssistantInit
  <2>3. /\ DOMAIN ui = AssistantFields /\ ui.messages = << >> /\ ui.asked = 0
    BY <2>1 DEF AssistantInit, AssistantUi, AssistantFields
  <2> QED
    BY <2>2, <2>3 DEF AssistantInv, AnswersFollowTheirQuestion
<1>2. AssistantInv /\ [WorkNext]_vars => AssistantInv'
  <2> SUFFICES ASSUME AssistantInv, [WorkNext]_vars, page = "assistant" PROVE AssistantInv'
    BY PageStays DEF AssistantInv
  <2>1. CASE AssistantNext
    BY <2>1, AssistantSteps
  <2>2. ~Network
    BY DEF AssistantInv, Network, Settle, Serve, Refuse, Lose, Saves, InUse
  <2>3. CASE UNCHANGED vars
    BY <2>3 DEF vars, AssistantInv, CallsFormed, StoreFormed, InUse, AnswersFollowTheirQuestion
  <2> QED
    BY <2>1, <2>2, <2>3, OwnSteps
<1>3. AssistantInv => AnswersFollowTheirQuestion
  BY DEF AssistantInv, AnswersFollowTheirQuestion
<1> QED
  BY <1>1, <1>2, <1>3, PTL DEF WorkSpec

-----------------------------------------------------------------------------
(***************************************************************************)
(* No page sends a submission twice, for any number of calls under way, of *)
(* drafts and of lost answers.                                             *)
(*                                                                         *)
(* On every page that saves, what was sent holds the form: the request, or *)
(* the reading that follows it, is the only one of its kind, and `busy`    *)
(* lasts as long (Held).  A draft that was executed is never the one on    *)
(* screen again, unless the page is locked until it moves on (Locked).     *)
(* Every step of a page is Quiet, Sends, Holds or Completes; that each of  *)
(* these keeps the invariant is argued once, for all pages.                *)
(***************************************************************************)

(* The pages on which something is saved that must not be saved twice. *)
SavingPages == {"sales", "returns", "financing", "stock", "receipts", "catalog", "expenses",
                "budgets", "search", "editor"}

(* The requests during which the form is busy. *)
HeldOps == IF page = "catalog" THEN {"save", "reload", "archive"}
           ELSE IF page = "editor" THEN {"save", "write", "overview"}
           ELSE {"save", "reload"}

Held(s) == calls[s] # None /\ calls[s].op \in HeldOps

(* The recorder of stock shows what was saved until it is begun anew, the   *)
(* catalog closes the correction.                                           *)
Locked == \/ page = "stock" /\ ui.saved # None
          \/ page = "catalog" /\ ui.editing = None

Counted == /\ store.done \in [Drafts -> Nat] /\ store.lost \in [Drafts -> Nat]
           /\ ui.draft \in 1..(MaxDraft + 1)

OneHeld == \A s \in Slots : Held(s) => ui.busy /\ \A r \in Slots : Held(r) => r = s

SavesOfDrafts ==
    \A s \in Slots : InUse(s, "save") =>
        /\ calls[s] \in SaveRow /\ calls[s].draft <= ui.draft
        /\ calls[s].state = "sent" => store.done[calls[s].draft] <= store.lost[calls[s].draft]

(* A draft that was executed, its answer not lost, is not to be sent again. *)
Passed(d) == \/ d < ui.draft
             \/ d = ui.draft /\ Locked
             \/ \E s \in Slots : Saves(s, "ok") /\ calls[s].draft = d

DraftsPass ==
    \A d \in Drafts : \/ store.done[d] <= store.lost[d]
                      \/ store.done[d] <= 1 + store.lost[d] /\ d <= ui.draft /\ Passed(d)

SavingInv == Counted /\ OneHeld /\ SavesOfDrafts /\ DraftsPass

-----------------------------------------------------------------------------
(* The steps of a page, by what they do to its submissions. *)

DraftMovesOn == ui'.draft = Following(ui.draft)
DraftStands  == ui'.draft = ui.draft /\ (Locked => Locked')

Quiet ==
    /\ \A s \in Slots : Held(s)' => Held(s) /\ (calls'[s].op = "save" => calls'[s] = calls[s])
    /\ \A s \in Slots : Saves(s, "ok") => calls'[s] = calls[s]
    /\ ui'.busy = ui.busy \/ \E s \in Slots : Held(s) /\ ~Held(s)'
    /\ DraftMovesOn \/ DraftStands

Holds ==
    /\ ~ui.busy /\ ui'.busy /\ DraftStands
    /\ \E t \in Slots : /\ \A s \in Slots \ {t} : calls'[s] = calls[s]
                        /\ calls[t] = None /\ (calls'[t] = None \/ calls'[t].op # "save")

Sending ==
    /\ ~ui.busy /\ ui'.busy /\ ui'.draft = ui.draft /\ ui.draft \in Drafts /\ ~Locked
    /\ \E t \in Slots : /\ \A s \in Slots \ {t} : calls'[s] = calls[s]
                        /\ calls[t] = None
                        /\ \E arg \in Payloads : calls'[t] = Call("save", ui.draft, arg)

BesideForm(s) == calls[s] = None /\ calls'[s].op \notin HeldOps

Completes ==
    /\ DraftMovesOn \/ (ui'.draft = ui.draft /\ Locked')
    /\ \E t \in Slots : /\ Saves(t, "ok")
                        /\ \A s \in Slots \ {t} : calls'[s] = calls[s] \/ BesideForm(s)
                        /\ \/ calls'[t] = None
                           \/ ui'.busy = ui.busy /\ calls'[t].op # "save"

LEMMA RowsStay == SaveRow' = SaveRow /\ Drafts' = Drafts
  BY DEF SaveRow, Drafts, Payloads, SaleRows, ReturnRow, AgreementRow, ReceiptRow, ExpenseRow, BudgetRow,
         LineRow, Choices, ExpenseRows, ExpenseFilters, PeriodTypes

LEMMA QuietKeeps ==
    ASSUME SavingInv, page' = page, store'.done = store.done, store'.lost = store.lost, Quiet
    PROVE  SavingInv'
<1>1. HeldOps' = HeldOps /\ "save" \in HeldOps
  BY DEF HeldOps
<1>2. /\ ui.draft \in Nat /\ MaxDraft \in Nat /\ ui.draft <= ui'.draft
      /\ ui'.draft \in 1..(MaxDraft + 1) /\ Drafts = 1..MaxDraft
      /\ DraftMovesOn => \A d \in Drafts : d <= ui.draft => d < ui'.draft
  BY RuntimeAssumption DEF SavingInv, Counted, Quiet, DraftStands, DraftMovesOn, Following, Drafts
<1>3. Counted'
  BY <1>2 DEF SavingInv, Counted, Drafts
<1>4. OneHeld'
  BY DEF SavingInv, OneHeld, Quiet
<1>5. SavesOfDrafts'
  BY <1>1, <1>2 DEF SavingInv, SavesOfDrafts, Quiet, Held, InUse, SaveRow, Drafts
<1>6. ASSUME NEW d \in Drafts, Passed(d), d <= ui.draft PROVE Passed(d)'
  <2>1. CASE d < ui.draft
    BY <2>1, <1>2 DEF Passed, Drafts
  <2>2. CASE d = ui.draft /\ Locked
    BY <2>2, <1>2 DEF Passed, Drafts, Quiet, DraftStands, DraftMovesOn
  <2>3. CASE \E s \in Slots : Saves(s, "ok") /\ calls[s].draft = d
    BY <2>3, <1>1 DEF Passed, Quiet, Saves, InUse
  <2> QED
    BY <1>6, <2>1, <2>2, <2>3 DEF Passed
<1>7. DraftsPass'
  <2> SUFFICES ASSUME NEW d \in Drafts
               PROVE  \/ store'.done[d] <= store'.lost[d]
                      \/ store'.done[d] <= 1 + store'.lost[d] /\ d <= ui'.draft /\ Passed(d)'
    BY DEF DraftsPass
  <2>1. d \in Nat
    BY <1>2 DEF Drafts
  <2>2. d <= ui.draft => d <= ui'.draft
    BY <2>1, <1>2
  <2> QED
    BY <2>1, <2>2, <1>6 DEF SavingInv, DraftsPass
<1> QED
  BY <1>3, <1>4, <1>5, <1>7 DEF SavingInv

LEMMA HoldsKeeps ==
    ASSUME SavingInv, page' = page, store'.done = store.done, store'.lost = store.lost, Holds
    PROVE  SavingInv'
<1>1. HeldOps' = HeldOps /\ "save" \in HeldOps
  BY DEF HeldOps
<1>2. PICK t \in Slots : /\ \A s \in Slots \ {t} : calls'[s] = calls[s]
                         /\ calls[t] = None /\ (calls'[t] = None \/ calls'[t].op # "save")
  BY DEF Holds
<1>3. Counted'
  BY DEF SavingInv, Counted, Holds, DraftStands, Drafts
<1>4. \A s \in Slots : ~Held(s)
  BY DEF SavingInv, OneHeld, Holds
<1>5. \A s \in Slots : Held(s)' => s = t
  BY <1>1, <1>2, <1>4 DEF Held
<1>6. OneHeld'
  BY <1>5 DEF OneHeld, Holds
<1>7. \A s \in Slots : ~InUse(s, "save") /\ ~InUse(s, "save")'
  BY <1>1, <1>2, <1>4 DEF Held, InUse
<1>8. SavesOfDrafts'
  BY <1>7 DEF SavesOfDrafts
<1>9. DraftsPass'
  BY <1>7 DEF SavingInv, DraftsPass, Passed, Saves, Holds, DraftStands, Drafts
<1> QED
  BY <1>3, <1>6, <1>8, <1>9 DEF SavingInv

LEMMA SendingKeeps ==
    ASSUME SavingInv, page' = page, store'.done = store.done, store'.lost = store.lost, Sending
    PROVE  SavingInv'
<1>1. HeldOps' = HeldOps /\ "save" \in HeldOps
  BY DEF HeldOps
<1>2. PICK t \in Slots : /\ \A s \in Slots \ {t} : calls'[s] = calls[s]
                         /\ calls[t] = None
                         /\ \E arg \in Payloads : calls'[t] = Call("save", ui.draft, arg)
  BY DEF Sending
<1>3. Counted' /\ ui.draft \in Nat /\ Drafts' = Drafts /\ Drafts \subseteq Nat
  BY RuntimeAssumption DEF SavingInv, Counted, Sending, Drafts
<1>4. \A s \in Slots : ~Held(s)
  BY DEF SavingInv, OneHeld, Sending
<1>5. \A s \in Slots : Held(s)' => s = t
  BY <1>1, <1>2, <1>4 DEF Held
<1>6. OneHeld'
  BY <1>5 DEF OneHeld, Sending
<1>7. \A s \in Slots : ~InUse(s, "save") /\ (InUse(s, "save")' => s = t)
  BY <1>1, <1>2, <1>4 DEF Held, InUse
<1>8. store.done[ui.draft] <= store.lost[ui.draft]
  <2>1. ui.draft \in Drafts /\ ~Locked
    BY DEF Sending
  <2>2. ~Passed(ui.draft)
    BY <1>3, <1>7, <2>1 DEF Passed, Saves
  <2>3. \A d \in Drafts : Passed(d) \/ store.done[d] <= store.lost[d]
    BY DEF SavingInv, DraftsPass
  <2> QED
    BY <2>1, <2>2, <2>3
<1>9. SavesOfDrafts'
  BY <1>2, <1>3, <1>7, <1>8, RowsStay DEF SavesOfDrafts, Sending, Call, SaveRow, InUse
<1>10. DraftsPass'
  BY <1>3, <1>7, <1>8 DEF SavingInv, DraftsPass, Passed, Saves, Sending
<1> QED
  BY <1>3, <1>6, <1>9, <1>10 DEF SavingInv

LEMMA CompletesKeeps ==
    ASSUME SavingInv, page' = page, store'.done = store.done, store'.lost = store.lost, Completes
    PROVE  SavingInv'
<1>1. HeldOps' = HeldOps /\ "save" \in HeldOps
  BY DEF HeldOps
<1>2. PICK t \in Slots : /\ Saves(t, "ok")
                         /\ \A s \in Slots \ {t} : calls'[s] = calls[s] \/ BesideForm(s)
                         /\ \/ calls'[t] = None
                            \/ ui'.busy = ui.busy /\ calls'[t].op # "save"
  BY DEF Completes
<1>3. /\ ui.draft \in Nat /\ MaxDraft \in Nat /\ ui.draft <= ui'.draft
      /\ ui'.draft \in 1..(MaxDraft + 1) /\ Drafts = 1..MaxDraft
      /\ DraftMovesOn => \A d \in Drafts : d <= ui.draft => d < ui'.draft
  BY RuntimeAssumption DEF SavingInv, Counted, Completes, DraftMovesOn, Following, Drafts
<1>4. Counted'
  BY <1>3 DEF SavingInv, Counted, Drafts
<1>5. Held(t) /\ ui.busy /\ \A s \in Slots : Held(s) => s = t
  BY <1>1, <1>2 DEF SavingInv, OneHeld, Held, Saves, InUse
<1>6. \A s \in Slots : Held(s)' => s = t
  BY <1>1, <1>2, <1>5 DEF Held, BesideForm
<1>7. OneHeld'
  BY <1>2, <1>5, <1>6 DEF OneHeld, Held
<1>8. \A s \in Slots : ~InUse(s, "save")'
  BY <1>1, <1>2, <1>6 DEF Held, InUse
<1>9. SavesOfDrafts'
  BY <1>8 DEF SavesOfDrafts
<1>10. ASSUME NEW d \in Drafts, d <= ui.draft PROVE Passed(d)'
  BY <1>3, <1>10 DEF Passed, Completes, Drafts
<1>11. DraftsPass'
  <2> SUFFICES ASSUME NEW d \in Drafts
               PROVE  \/ store'.done[d] <= store'.lost[d]
                      \/ store'.done[d] <= 1 + store'.lost[d] /\ d <= ui'.draft /\ Passed(d)'
    BY DEF DraftsPass
  <2>1. d \in Nat
    BY <1>3 DEF Drafts
  <2>2. d <= ui.draft => d <= ui'.draft
    BY <2>1, <1>3
  <2> QED
    BY <2>1, <2>2, <1>10 DEF SavingInv, DraftsPass
<1> QED
  BY <1>4, <1>7, <1>9, <1>11 DEF SavingInv

LEMMA SettleKeeps ==
    ASSUME SavingInv, CallsFormed, StoreFormed, NEW t \in Slots, Settle(t)
    PROVE  SavingInv'
<1>1. /\ Saves(t, "sent") /\ page' = page /\ ui' = ui
      /\ \E state \in {"ok", "error"} : calls' = [calls EXCEPT ![t].state = state]
  BY DEF Settle, Serve, Refuse, Lose
<1>2. PICK state \in {"ok", "error"} : calls' = [calls EXCEPT ![t].state = state]
  BY <1>1
<1> DEFINE d == calls[t].draft
<1>3. /\ calls[t] \in SaveRow /\ d \in Drafts /\ d <= ui.draft /\ InUse(t, "save")
      /\ store.done[d] <= store.lost[d]
  BY <1>1 DEF SavingInv, SavesOfDrafts, Saves, SaveRow
<1>4. /\ calls'[t] \in SaveRow /\ calls'[t].draft = d /\ calls'[t].state = state
      /\ calls'[t].op = "save" /\ calls'[t] # None
      /\ \A s \in Slots : s # t => calls'[s] = calls[s]
  BY <1>2, <1>3, SubmissionAssumption DEF CallsFormed, SaveRow
<1>5. HeldOps' = HeldOps /\ "save" \in HeldOps
  BY <1>1 DEF HeldOps
<1>6. \A s \in Slots : Held(s)' <=> Held(s)
  BY <1>3, <1>4, <1>5 DEF Held, InUse
<1>7. OneHeld'
  BY <1>1, <1>6 DEF SavingInv, OneHeld
<1>8. Held(t) /\ \A s \in Slots : Held(s) => s = t
  BY <1>3, <1>5 DEF SavingInv, OneHeld, Held, InUse
<1>9. \A s \in Slots : (InUse(s, "save") \/ InUse(s, "save")') => s = t
  BY <1>4, <1>5, <1>8 DEF Held, InUse
<1>10. SavesOfDrafts'
  <2> SUFFICES ASSUME NEW s \in Slots, InUse(s, "save")'
               PROVE  /\ calls'[s] \in SaveRow /\ calls'[s].draft <= ui'.draft
                      /\ calls'[s].state # "sent"
    BY RowsStay DEF SavesOfDrafts
  <2>1. s = t
    BY <1>9
  <2> QED
    BY <1>1, <1>2, <1>3, <1>4, <2>1
<1>11. Counted'
  <2>1. store'.done \in [Drafts -> Nat] /\ store'.lost \in [Drafts -> Nat]
    <3>1. CASE Serve(t)
      BY <3>1, <1>3 DEF SavingInv, Counted, Serve, Executed, StoreFormed
    <3>2. CASE Refuse(t)
      BY <3>2 DEF SavingInv, Counted, Refuse
    <3>3. CASE Lose(t)
      BY <3>3, <1>3 DEF SavingInv, Counted, Lose, Executed, StoreFormed
    <3> QED
      BY <3>1, <3>2, <3>3 DEF Settle
  <2> QED
    BY <1>1, <2>1, RowsStay DEF SavingInv, Counted
<1>12. ASSUME NEW e \in Drafts, Passed(e) PROVE Passed(e)'
  BY <1>1, <1>12, <1>9 DEF Passed, Locked, Saves
<1>13. /\ store'.done[d] <= 1 + store'.lost[d]
       /\ store'.done[d] <= store'.lost[d] \/ Passed(d)'
       /\ \A e \in Drafts : e # d => store'.done[e] = store.done[e] /\ store'.lost[e] = store.lost[e]
  <2>1. store.done[d] \in Nat /\ store.lost[d] \in Nat
    BY <1>3 DEF SavingInv, Counted
  <2>2. CASE Serve(t)
    <3>1. /\ store'.lost = store.lost /\ store'.done[d] = store.done[d] + 1
          /\ \A e \in Drafts : e # d => store'.done[e] = store.done[e]
      BY <1>3, <2>2 DEF Serve, Executed, SavingInv, Counted, StoreFormed
    <3>2. Passed(d)'
      BY <1>3, <1>4, <2>2 DEF Passed, Saves, InUse, Serve
    <3> QED
      BY <1>3, <2>1, <3>1, <3>2
  <2>3. CASE Refuse(t)
    BY <1>3, <2>1, <2>3 DEF Refuse
  <2>4. CASE Lose(t)
    <3>1. /\ store'.lost[d] = store.lost[d] + 1 /\ store'.done[d] = store.done[d] + 1
          /\ \A e \in Drafts : e # d => /\ store'.done[e] = store.done[e]
                                        /\ store'.lost[e] = store.lost[e]
      BY <1>3, <2>4 DEF Lose, Executed, SavingInv, Counted, StoreFormed
    <3> QED
      BY <1>3, <2>1, <3>1
  <2> QED
    BY <2>2, <2>3, <2>4 DEF Settle
<1>14. DraftsPass'
  <2> SUFFICES ASSUME NEW e \in Drafts
               PROVE  \/ store'.done[e] <= store'.lost[e]
                      \/ store'.done[e] <= 1 + store'.lost[e] /\ e <= ui'.draft /\ Passed(e)'
    BY DEF DraftsPass
  <2> QED
    BY <1>1, <1>3, <1>12, <1>13 DEF SavingInv, DraftsPass
<1> QED
  BY <1>7, <1>10, <1>11, <1>14 DEF SavingInv

-----------------------------------------------------------------------------
(* Three ways of being quiet: nothing is sent, what is sent or ends does not *)
(* hold the form, or what held it has ended.                                 *)
LEMMA EditsAreQuiet ==
    ASSUME page' = page, calls' = calls, ui'.busy = ui.busy, DraftMovesOn \/ DraftStands
    PROVE  Quiet
<1>1. HeldOps' = HeldOps
  BY DEF HeldOps
<1>2. \A s \in Slots : Held(s)' => Held(s) /\ (calls'[s].op = "save" => calls'[s] = calls[s])
  BY <1>1 DEF Held
<1>3. \A s \in Slots : Saves(s, "ok") => calls'[s] = calls[s]
  OBVIOUS
<1>4. ui'.busy = ui.busy \/ \E s \in Slots : Held(s) /\ ~Held(s)'
  OBVIOUS
<1> QED
  BY <1>2, <1>3, <1>4 DEF Quiet

LEMMA OthersAreQuiet ==
    ASSUME page' = page, ui'.busy = ui.busy, DraftMovesOn \/ DraftStands,
           NEW t \in Slots, ~Held(t), \A s \in Slots : s # t => calls'[s] = calls[s],
           calls'[t] = None \/ calls'[t].op \notin HeldOps
    PROVE  Quiet
<1>1. HeldOps' = HeldOps /\ "save" \in HeldOps
  BY DEF HeldOps
<1>2. \A s \in Slots : Held(s)' => s # t
  BY <1>1 DEF Held
<1>3. \A s \in Slots : Saves(s, "ok") => s # t
  BY <1>1 DEF Saves, InUse, Held
<1> QED
  BY <1>1, <1>2, <1>3 DEF Quiet, DraftStands, Held

LEMMA EndsAreQuiet ==
    ASSUME page' = page, DraftMovesOn \/ DraftStands,
           NEW t \in Slots, Held(t), ~Saves(t, "ok"), \A s \in Slots : s # t => calls'[s] = calls[s],
           calls'[t] = None \/ calls'[t].op \notin HeldOps
    PROVE  Quiet
<1>1. HeldOps' = HeldOps
  BY DEF HeldOps
<1>2. ~Held(t)'
  BY <1>1 DEF Held
<1> QED
  BY <1>1, <1>2 DEF Quiet, DraftStands, Held

(* What the handlers of the pages do, in these terms. *)
LEMMA SendsSave ==
    ASSUME CallsFormed, NEW arg \in Payloads, Sends("save", ui.draft, arg),
           ui.draft \in Drafts, ui'.draft = ui.draft, ~ui.busy, ui'.busy, ~Locked
    PROVE  Sending /\ CallsFormed'
<1>1. PICK t \in Slots : calls[t] = None /\ Start(t, "save", ui.draft, arg)
  BY DEF Sends, Free
<1>2. /\ CallsFormed' /\ calls'[t] = Call("save", ui.draft, arg)
      /\ \A s \in Slots \ {t} : calls'[s] = calls[s]
  BY <1>1, StartFacts
<1> QED
  BY <1>1, <1>2 DEF Sending

LEMMA SaveEndsWell ==
    ASSUME CallsFormed, NEW t \in Slots, Saves(t, "ok"),
           \/ Finish(t)
           \/ ui'.busy = ui.busy /\ \E arg : Start(t, "reload", 0, arg),
           DraftMovesOn \/ (ui'.draft = ui.draft /\ Locked')
    PROVE  Completes /\ CallsFormed'
<1>1. /\ CallsFormed' /\ \A s \in Slots : s # t => calls'[s] = calls[s]
      /\ calls'[t] = None \/ (ui'.busy = ui.busy /\ calls'[t].op # "save")
  <2>1. CASE Finish(t)
    BY <2>1, FinishFacts
  <2>2. CASE ui'.busy = ui.busy /\ \E arg : Start(t, "reload", 0, arg)
    <3>1. PICK arg : Start(t, "reload", 0, arg)
      BY <2>2
    <3>2. CallsFormed' /\ calls'[t].op = "reload" /\ \A s \in Slots : s # t => calls'[s] = calls[s]
      BY <3>1, StartFacts
    <3> QED
      BY <2>2, <3>2
  <2> QED
    BY <2>1, <2>2
<1> QED
  BY <1>1 DEF Completes

LEMMA SaveEndsBadly ==
    ASSUME CallsFormed, page' = page, NEW t \in Slots, Saves(t, "error"), Finish(t),
           DraftMovesOn \/ DraftStands
    PROVE  Quiet /\ CallsFormed'
<1>1. Held(t) /\ ~Saves(t, "ok")
  BY DEF Held, HeldOps, Saves, InUse
<1> QED
  BY <1>1, FinishFacts, EndsAreQuiet

LEMMA RequestEnds ==
    ASSUME CallsFormed, page' = page, NEW t \in Slots, NEW op, op # "save", InUse(t, op), Finish(t),
           DraftMovesOn \/ DraftStands, op \notin HeldOps => ui'.busy = ui.busy
    PROVE  Quiet /\ CallsFormed'
<1>1. ~Saves(t, "ok") /\ (Held(t) <=> op \in HeldOps)
  BY DEF Held, Saves, InUse
<1>2. CallsFormed' /\ calls'[t] = None /\ \A s \in Slots : s # t => calls'[s] = calls[s]
  BY FinishFacts
<1> QED
  BY <1>1, <1>2, EndsAreQuiet, OthersAreQuiet

LEMMA RequestStarts ==
    ASSUME CallsFormed, page' = page, NEW t \in Slots, NEW op, NEW draft, NEW arg,
           Start(t, op, draft, arg), ~Held(t), op \notin HeldOps,
           ui'.busy = ui.busy, DraftMovesOn \/ DraftStands
    PROVE  Quiet /\ CallsFormed'
<1>1. CallsFormed' /\ calls'[t].op = op /\ \A s \in Slots : s # t => calls'[s] = calls[s]
  BY StartFacts
<1> QED
  BY <1>1, OthersAreQuiet

LEMMA RequestSent ==
    ASSUME CallsFormed, page' = page, NEW op, NEW draft, NEW arg, Sends(op, draft, arg),
           op \notin HeldOps, ui'.busy = ui.busy, DraftMovesOn \/ DraftStands
    PROVE  Quiet /\ CallsFormed'
<1>1. PICK t \in Slots : calls[t] = None /\ Start(t, op, draft, arg)
  BY DEF Sends, Free
<1> QED
  BY <1>1, RequestStarts DEF Held

LEMMA LoadStartsAnew ==
    ASSUME CallsFormed, Reloads, {"load"} \cap HeldOps = {}
    PROVE  Quiet /\ CallsFormed' /\ ui' = ui /\ store' = store /\ page' = page
<1>1. PICK t \in Slots : /\ InUse(t, "load") \/ calls[t] = None
                         /\ Start(t, "load", 0, None)
  BY DEF Reloads, Free
<1>2. ~Held(t) /\ "load" \notin HeldOps
  BY <1>1 DEF Held, InUse
<1>3. ui' = ui /\ store' = store /\ page' = page
  BY DEF Reloads
<1>4. DraftStands
  BY <1>3 DEF DraftStands, Locked
<1> QED
  BY <1>1, <1>2, <1>3, <1>4, RequestStarts

-----------------------------------------------------------------------------
(* The sales workspace *)

SalesFormed ==
    /\ ui = [form |-> ui.form, draft |-> ui.draft, busy |-> ui.busy, open |-> ui.open,
             expanded |-> ui.expanded, saved |-> ui.saved]
    /\ ui.form = [editing |-> ui.form.editing, transaction |-> ui.form.transaction,
                  mode |-> ui.form.mode, lines |-> ui.form.lines, tradeIn |-> ui.form.tradeIn]
    /\ ui.form.editing \in SaleRows \cup {None}

LEMMA SalesSteps ==
    ASSUME page = "sales", SavingInv, CallsFormed, SalesFormed, SalesNext
    PROVE  /\ Quiet \/ Sending \/ Completes
           /\ CallsFormed' /\ store' = store /\ SalesFormed' /\ page' = page
<1> DEFINE Edited == /\ calls' = calls /\ store' = store /\ page' = page /\ SalesFormed'
                     /\ ui'.busy = ui.busy /\ (ui'.draft = ui.draft \/ DraftMovesOn)
<1> USE DEF SalesFormed, Sets
<1>1. ASSUME ToggleRecorder PROVE Edited
  BY <1>1 DEF ToggleRecorder, ResetSale, SaleForm, DraftMovesOn
<1>2. ASSUME AddSaleLine \/ CloseSaleReceipt \/ ToggleSaleDetails \/ RemoveSaleLine PROVE Edited
  BY <1>2 DEF AddSaleLine, CloseSaleReceipt, ToggleSaleDetails, RemoveSaleLine
<1>3. ASSUME NEW t \in {"normal", "trade_in"}, ChooseTransaction(t) PROVE Edited
  BY <1>3 DEF ChooseTransaction
<1>4. ASSUME NEW m \in {"stock", "independent"}, ChooseSaleMode(m) PROVE Edited
  BY <1>4 DEF ChooseSaleMode
<1>5. ASSUME NEW complete \in BOOLEAN, UpdateSaleLine(complete) \/ FillTradeIn(complete) PROVE Edited
  BY <1>5 DEF UpdateSaleLine, FillTradeIn
<1>6. ASSUME NEW r \in SaleRows, BeginEdit(r) PROVE Edited
  <2>1. PICK t \in {"normal", "trade_in"}, b \in BOOLEAN :
            /\ ui' = [ui EXCEPT !.form = [editing |-> r, transaction |-> t, mode |-> "stock",
                                         lines |-> TRUE, tradeIn |-> b],
                                !.draft = Following(@), !.open = TRUE]
            /\ UNCHANGED <<page, calls, store>>
    BY <1>6 DEF BeginEdit
  <2> QED
    BY <2>1 DEF DraftMovesOn
<1>7. HeldOps = {"save", "reload"} /\ ~Locked /\ (page' = page => ~Locked')
  BY DEF HeldOps, Locked
<1>8. Edited => Quiet /\ CallsFormed'
  BY <1>7, EditsAreQuiet DEF DraftStands, CallsFormed, Formed
<1>9. ASSUME SubmitSale PROVE Sending /\ CallsFormed' /\ store' = store /\ SalesFormed' /\ page' = page
  <2>1. /\ ui'.draft = ui.draft /\ ui'.busy /\ ~ui.busy /\ SalesFormed' /\ store' = store /\ page' = page
        /\ ui.draft \in Drafts /\ Sends("save", ui.draft, ui.form.editing)
    BY <1>9 DEF SubmitSale
  <2>2. ui.form.editing \in Payloads
    BY DEF Payloads
  <2> QED
    BY <1>7, <2>1, <2>2, SendsSave
<1>10. ASSUME NEW t \in Slots, SaleSaved(t)
       PROVE  Completes /\ CallsFormed' /\ store' = store /\ SalesFormed' /\ page' = page
  <2>1. /\ DraftMovesOn /\ ui'.busy = ui.busy /\ SalesFormed' /\ store' = store /\ page' = page
        /\ Saves(t, "ok") /\ Start(t, "reload", 0, None)
    BY <1>10 DEF SaleSaved, Saved, ResetSale, SaleForm, DraftMovesOn
  <2> QED
    BY <2>1, SaveEndsWell
<1>11. ASSUME NEW t \in Slots, SaleNotSaved(t)
       PROVE  Quiet /\ CallsFormed' /\ store' = store /\ SalesFormed' /\ page' = page
  <2>1. /\ ui'.draft = ui.draft /\ SalesFormed' /\ store' = store /\ page' = page
        /\ Saves(t, "error") /\ Finish(t)
    BY <1>11 DEF SaleNotSaved, NotSaved
  <2> QED
    BY <1>7, <2>1, SaveEndsBadly DEF DraftStands
<1>12. ASSUME NEW t \in Slots, SalesLoaded(t)
       PROVE  Quiet /\ CallsFormed' /\ store' = store /\ SalesFormed' /\ page' = page
  <2> DEFINE Result == Quiet /\ CallsFormed' /\ store' = store /\ SalesFormed' /\ page' = page
  <2>1. PICK lines \in BOOLEAN :
           \/ Ends(t, "reload", [ui EXCEPT !.form.lines = lines, !.busy = FALSE])
           \/ Ends(t, "load", [ui EXCEPT !.form.lines = lines])
           \/ Ends(t, "refresh", [ui EXCEPT !.form.lines = lines])
    BY <1>12 DEF SalesLoaded
  <2>2. ASSUME Ends(t, "reload", [ui EXCEPT !.form.lines = lines, !.busy = FALSE]) PROVE Result
    <3>1. ui'.draft = ui.draft /\ SalesFormed' /\ InUse(t, "reload") /\ Finish(t) /\ UNCHANGED <<page, store>>
      BY <2>2 DEF Ends
    <3> QED
      BY <1>7, <3>1, RequestEnds DEF DraftStands
  <2>3. ASSUME NEW op \in {"load", "refresh"}, Ends(t, op, [ui EXCEPT !.form.lines = lines]) PROVE Result
    <3>1. /\ ui'.draft = ui.draft /\ ui'.busy = ui.busy /\ SalesFormed'
          /\ InUse(t, op) /\ Finish(t) /\ UNCHANGED <<page, store>>
      BY <2>3 DEF Ends
    <3> QED
      BY <1>7, <3>1, RequestEnds DEF DraftStands
  <2> QED
    BY <2>1, <2>2, <2>3
<1>13. ASSUME NEW r \in SaleRows, VoidSale(r)
       PROVE  Quiet /\ CallsFormed' /\ store' = store /\ SalesFormed' /\ page' = page
  BY <1>7, <1>13, RequestSent DEF VoidSale, DraftStands
<1>14. ASSUME NEW t \in Slots, SaleVoided(t)
       PROVE  Quiet /\ CallsFormed' /\ store' = store /\ SalesFormed' /\ page' = page
  <2>1. /\ InUse(t, "void") /\ (Start(t, "refresh", 0, None) \/ Finish(t)) /\ UNCHANGED <<page, ui, store>>
        /\ ~Held(t) /\ DraftStands
    BY <1>7, <1>14 DEF SaleVoided, Held, InUse, DraftStands
  <2> QED
    BY <1>7, <2>1, RequestEnds, RequestStarts
<1> QED
  BY <1>1, <1>2, <1>3, <1>4, <1>5, <1>6, <1>7, <1>8, <1>9, <1>10, <1>11, <1>12, <1>13, <1>14, LoadStartsAnew
     DEF SalesNext, SalesUser, SalesAnswered

-----------------------------------------------------------------------------
(* The returns workspace *)

ReturnsFormed ==
    /\ ui = [form |-> ui.form, draft |-> ui.draft, busy |-> ui.busy, found |-> ui.found,
             searching |-> ui.searching, saved |-> ui.saved]
    /\ ui.form = [chosen |-> ui.form.chosen, quantity |-> ui.form.quantity,
                  resolution |-> ui.form.resolution, refund |-> ui.form.refund,
                  source |-> ui.form.source, replacement |-> ui.form.replacement]
    /\ ui.form.quantity \in Nat /\ ui.form.refund \in Nat \cup {None}

LEMMA ReturnsSteps ==
    ASSUME page = "returns", SavingInv, CallsFormed, ReturnsFormed, ReturnsNext
    PROVE  /\ Quiet \/ Sending \/ Completes
           /\ CallsFormed' /\ store' = store /\ ReturnsFormed' /\ page' = page
<1> DEFINE Edited == /\ calls' = calls /\ store' = store /\ page' = page /\ ReturnsFormed'
                     /\ ui'.busy = ui.busy /\ ui'.draft = ui.draft
           Ended  == Quiet /\ CallsFormed' /\ store' = store /\ ReturnsFormed' /\ page' = page
<1> USE DEF ReturnsFormed, Sets
<1>1. HeldOps = {"save", "reload"} /\ ~Locked /\ (page' = page => ~Locked')
  BY DEF HeldOps, Locked
<1>2. Edited => Ended
  BY <1>1, EditsAreQuiet DEF DraftStands, CallsFormed, Formed
<1>3. ASSUME ChooseSale \/ UseFullRefund \/ ChooseAnotherReceipt PROVE Edited
  <2>1. CASE ChooseSale
    BY <2>1 DEF ChooseSale
  <2>2. CASE UseFullRefund
    BY <2>2 DEF UseFullRefund, RefundableValue
  <2>3. CASE ChooseAnotherReceipt
    BY <2>3 DEF ChooseAnotherReceipt
  <2> QED
    BY <1>3, <2>1, <2>2, <2>3
<1>4. ASSUME NEW q \in 0..MaxReturn, TypeQuantity(q) PROVE Edited
  BY <1>4, ReturnsAssumption DEF TypeQuantity
<1>5. ASSUME NEW r \in Resolutions, ChooseResolution(r) PROVE Edited
  BY <1>5 DEF ChooseResolution
<1>6. ASSUME NEW amount \in 0..MaxReturn \cup {None}, TypeRefund(amount) PROVE Edited
  BY <1>6, ReturnsAssumption DEF TypeRefund
<1>7. ASSUME NEW source \in {"stock", "independent"}, ChooseSource(source) PROVE Edited
  BY <1>7 DEF ChooseSource
<1>8. ASSUME NEW complete \in BOOLEAN, StockReplacement(complete) \/ IndependentReplacement(complete)
      PROVE  Edited
  BY <1>8 DEF StockReplacement, IndependentReplacement
<1>9. ASSUME SearchSales PROVE Ended
  <2>1. /\ ui'.draft = ui.draft /\ ui'.busy = ui.busy /\ ReturnsFormed' /\ UNCHANGED <<page, store>>
        /\ Sends("search", 0, None)
    BY <1>9 DEF SearchSales
  <2> QED
    BY <1>1, <2>1, RequestSent DEF DraftStands
<1>10. ASSUME SubmitReturn
       PROVE  Sending /\ CallsFormed' /\ store' = store /\ ReturnsFormed' /\ page' = page
  <2>1. /\ ui'.draft = ui.draft /\ ui'.busy /\ ~ui.busy /\ ReturnsFormed' /\ store' = store /\ page' = page
        /\ ui.draft \in Drafts
        /\ Sends("save", ui.draft, [quantity |-> ui.form.quantity, refund |-> ui.form.refund])
    BY <1>10 DEF SubmitReturn
  <2>2. [quantity |-> ui.form.quantity, refund |-> ui.form.refund] \in Payloads
    BY DEF Payloads, ReturnRow
  <2> QED
    BY <1>1, <2>1, <2>2, SendsSave
<1>11. ASSUME NEW t \in Slots, ReturnSaved(t)
       PROVE  Completes /\ CallsFormed' /\ store' = store /\ ReturnsFormed' /\ page' = page
  <2>1. /\ DraftMovesOn /\ ui'.busy = ui.busy /\ ReturnsFormed' /\ store' = store /\ page' = page
        /\ Saves(t, "ok") /\ Start(t, "reload", 0, None)
    BY <1>11 DEF ReturnSaved, Saved, ReturnForm, DraftMovesOn
  <2> QED
    BY <2>1, SaveEndsWell
<1>12. ASSUME NEW t \in Slots, ReturnNotSaved(t) PROVE Ended
  <2>1. /\ ui'.draft = ui.draft /\ ReturnsFormed' /\ store' = store /\ page' = page
        /\ Saves(t, "error") /\ Finish(t)
    BY <1>12 DEF ReturnNotSaved, NotSaved
  <2> QED
    BY <1>1, <2>1, SaveEndsBadly DEF DraftStands
<1>13. ASSUME NEW t \in Slots, ReturnsReloaded(t) PROVE Ended
  <2>1. ui'.draft = ui.draft /\ ReturnsFormed' /\ InUse(t, "reload") /\ Finish(t) /\ UNCHANGED <<page, store>>
    BY <1>13 DEF ReturnsReloaded, Ends
  <2> QED
    BY <1>1, <2>1, RequestEnds DEF DraftStands
<1>14. ASSUME NEW t \in Slots, ReturnsLoaded(t) \/ SalesFound(t) PROVE Ended
  <2>1. PICK op \in {"load", "search"} : InUse(t, op)
    BY <1>14 DEF ReturnsLoaded, SalesFound, Ends
  <2>2. /\ ui'.draft = ui.draft /\ ui'.busy = ui.busy /\ ReturnsFormed'
        /\ Finish(t) /\ UNCHANGED <<page, store>>
    BY <1>14 DEF ReturnsLoaded, SalesFound, Ends
  <2> QED
    BY <1>1, <2>1, <2>2, RequestEnds DEF DraftStands
<1>15. ASSUME Reloads PROVE Ended
  BY <1>1, <1>15, LoadStartsAnew
<1> HIDE DEF ReturnsFormed, Edited, Ended
<1>16. Edited \/ Ended => Ended
  BY <1>2
<1>17. ASSUME \/ ChooseSale \/ UseFullRefund \/ ChooseAnotherReceipt
              \/ \E q \in 0..MaxReturn : TypeQuantity(q)
              \/ \E r \in Resolutions : ChooseResolution(r)
              \/ \E amount \in 0..MaxReturn \cup {None} : TypeRefund(amount)
              \/ \E source \in {"stock", "independent"} : ChooseSource(source)
              \/ \E complete \in BOOLEAN : StockReplacement(complete) \/ IndependentReplacement(complete)
       PROVE  Ended
  BY <1>17, <1>2, <1>3, <1>4, <1>5, <1>6, <1>7, <1>8
<1> QED
  BY <1>17, <1>9, <1>10, <1>11, <1>12, <1>13, <1>14, <1>15
     DEF ReturnsNext, ReturnsUser, ReturnsAnswered, Ended

-----------------------------------------------------------------------------
(* The financing workspace *)

LEMMA FinancingSends ==
    ASSUME page = "financing", SavingInv, CallsFormed, FinancingFormed, FinancingNext
    PROVE  /\ Quiet \/ Sending \/ Completes
           /\ CallsFormed' /\ store' = store /\ page' = page
<1> DEFINE Edited == /\ calls' = calls /\ store' = store /\ page' = page
                     /\ ui'.busy = ui.busy /\ (ui'.draft = ui.draft \/ DraftMovesOn)
           Ended  == Quiet /\ CallsFormed' /\ store' = store /\ page' = page
<1> USE DEF FinancingFormed, AgreementRow, Sets
<1>1. HeldOps = {"save", "reload"} /\ ~Locked /\ (page' = page => ~Locked')
  BY DEF HeldOps, Locked
<1>2. Edited => Ended
  BY <1>1, EditsAreQuiet DEF DraftStands, CallsFormed, Formed
<1>3. ASSUME ToggleAgreementRecorder \/ CloseSummary PROVE Edited
  BY <1>3 DEF ToggleAgreementRecorder, CloseSummary, ResetAgreement, DraftMovesOn
<1>4. ASSUME AddFinancingLine \/ RemoveFinancingLine \/ NextStep PROVE Edited
  BY <1>4 DEF AddFinancingLine, RemoveFinancingLine, NextStep
<1>5. ASSUME NEW k \in 0..Review, GoToStep(k) PROVE Edited
  BY <1>5 DEF GoToStep
<1>6. ASSUME NEW stock \in BOOLEAN, NEW asksMore \in BOOLEAN, SetUp(stock, asksMore) PROVE Edited
  BY <1>6 DEF SetUp
<1>7. ASSUME NEW complete \in BOOLEAN, TypeCustomer(complete) \/ UpdateFinancingLine(complete)
      PROVE  Edited
  BY <1>7 DEF TypeCustomer, UpdateFinancingLine
<1>8. ASSUME NEW typed \in SUBSET {"terms", "extra"}, TypeTerms(typed) PROVE Edited
  BY <1>8 DEF TypeTerms
<1>9. ASSUME SubmitAgreement PROVE Sending /\ CallsFormed' /\ store' = store /\ page' = page
  <2>1. /\ ui'.draft = ui.draft /\ ui'.busy /\ ~ui.busy /\ store' = store /\ page' = page
        /\ ui.draft \in Drafts /\ Sends("save", ui.draft, ui.form)
    BY <1>9 DEF SubmitAgreement
  <2>2. ui.form \in Payloads
    BY DEF Payloads
  <2> QED
    BY <1>1, <2>1, <2>2, SendsSave
<1>10. ASSUME NEW t \in Slots, AgreementSaved(t)
       PROVE  Completes /\ CallsFormed' /\ store' = store /\ page' = page
  <2>1. /\ DraftMovesOn /\ ui'.busy = ui.busy /\ store' = store /\ page' = page
        /\ Saves(t, "ok") /\ Start(t, "reload", 0, None)
    BY <1>10 DEF AgreementSaved, Saved, ResetAgreement, DraftMovesOn
  <2> QED
    BY <2>1, SaveEndsWell
<1>11. ASSUME NEW t \in Slots, AgreementNotSaved(t) PROVE Ended
  <2>1. ui'.draft = ui.draft /\ store' = store /\ page' = page /\ Saves(t, "error") /\ Finish(t)
    BY <1>11 DEF AgreementNotSaved, NotSaved
  <2> QED
    BY <1>1, <2>1, SaveEndsBadly DEF DraftStands
<1>12. ASSUME NEW t \in Slots, FinancingLoaded(t) PROVE Ended
  <2>1. PICK op \in {"load", "reload"} : /\ InUse(t, op) /\ ui'.draft = ui.draft
                                         /\ op = "load" => ui'.busy = ui.busy
    BY <1>12 DEF FinancingLoaded, Ends
  <2>2. Finish(t) /\ UNCHANGED <<page, store>>
    BY <1>12 DEF FinancingLoaded, Ends
  <2> QED
    BY <1>1, <2>1, <2>2, RequestEnds DEF DraftStands
<1>13. ASSUME Reloads PROVE Ended
  BY <1>1, <1>13, LoadStartsAnew
<1> HIDE DEF FinancingFormed, Edited, Ended
<1>14. ASSUME \/ ToggleAgreementRecorder \/ CloseSummary \/ AddFinancingLine \/ RemoveFinancingLine
              \/ NextStep
              \/ \E k \in 0..Review : GoToStep(k)
              \/ \E stock, asksMore \in BOOLEAN : SetUp(stock, asksMore)
              \/ \E complete \in BOOLEAN : TypeCustomer(complete) \/ UpdateFinancingLine(complete)
              \/ \E typed \in SUBSET {"terms", "extra"} : TypeTerms(typed)
       PROVE  Ended
  BY <1>14, <1>2, <1>3, <1>4, <1>5, <1>6, <1>7, <1>8
<1> QED
  BY <1>14, <1>9, <1>10, <1>11, <1>12, <1>13
     DEF FinancingNext, FinancingUser, FinancingAnswered, Ended

-----------------------------------------------------------------------------
(* The recorder of stock *)

LEMMA EditIsQuiet ==
    ASSUME page = "stock", CallsFormed, StockInv, NEW f, Edit(f)
    PROVE  Quiet /\ CallsFormed' /\ store' = store /\ page' = page
<1>1. /\ calls' = calls /\ store' = store /\ page' = page
      /\ ui'.busy = ui.busy /\ ui'.draft = ui.draft /\ ui'.saved = ui.saved
  BY DEF Edit, Sets, StockInv, StockFields
<1>2. DraftStands
  BY <1>1 DEF DraftStands, Locked
<1> QED
  BY <1>1, <1>2, EditsAreQuiet DEF CallsFormed, Formed

LEMMA StockSends ==
    ASSUME page = "stock", SavingInv, CallsFormed, StockInv, StockNext
    PROVE  /\ Quiet \/ Sending \/ Completes
           /\ CallsFormed' /\ store' = store /\ page' = page
<1> DEFINE Ended == Quiet /\ CallsFormed' /\ store' = store /\ page' = page
<1>1. HeldOps = {"save", "reload"} /\ (Locked <=> ui.saved # None)
  BY DEF HeldOps, Locked
<1>2. DOMAIN ui = StockFields
  BY DEF StockInv
<1>3. ASSUME NEW f, Edit(f) PROVE Ended
  BY <1>3, EditIsQuiet
<1>4. CASE \/ GoBack \/ GoHome \/ ShowStockDetails \/ ReviewStock \/ LeaveStockDetails
           \/ AddAnotherVariety \/ FinishGroup
  BY <1>3, <1>4 DEF GoBack, GoHome, ShowStockDetails, ReviewStock, LeaveStockDetails,
     AddAnotherVariety, FinishGroup
<1>5. CASE \/ CreateGroup \/ BeginNewVariety \/ CreateVariety \/ CreateSimpleProduct
           \/ OpenGroup \/ BeginNewGroup \/ BeginSimpleProduct
  BY <1>3, <1>5 DEF CreateGroup, BeginNewVariety, CreateVariety, CreateSimpleProduct,
     OpenGroup, BeginNewGroup, BeginSimpleProduct
<1>6. ASSUME NEW c \in Choices, StartRecording(c) \/ RemoveSelected(c) \/ RecordVariety(c)
      PROVE  Ended
  BY <1>3, <1>6 DEF StartRecording, RemoveSelected, RecordVariety, Records
<1>7. ASSUME NEW q \in 0..MaxQuantity, UpdateCurrentLine(q) PROVE Ended
  BY <1>3, <1>7 DEF UpdateCurrentLine
<1>8. CASE ContinueRecording \/ AddItem \/ RemoveRecordedItem
  <2>1. \E f : Edit(f)
    BY <1>8 DEF ContinueRecording, AddItem, RemoveRecordedItem
  <2> QED
    BY <1>3, <2>1
<1>9. CASE RecordAnother \/ LateDelivery
  <2>1. calls' = calls /\ store' = store /\ page' = page /\ ui'.busy = ui.busy /\ DraftMovesOn
    BY <1>2, <1>9 DEF RecordAnother, LateDelivery, ResetRecorder, Sets, StockFields, DraftMovesOn
  <2> QED
    BY <2>1, EditsAreQuiet DEF CallsFormed, Formed
<1>10. ASSUME NEW status \in {"draft", "received"}, SaveStock(status)
       PROVE  Sending /\ CallsFormed' /\ store' = store /\ page' = page
  <2>1. /\ ui'.draft = ui.draft /\ ui'.busy /\ ~ui.busy /\ store' = store /\ page' = page
        /\ ui.draft \in Drafts /\ ui.saved = None /\ Sends("save", ui.draft, Payload(status))
    BY <1>2, <1>10 DEF SaveStock, On, StockFields
  <2>2. Payload(status) \in Payloads
    <3>1. /\ form.lines \in [Choices -> LineRow \cup {None}]
          /\ form.selected = {c \in Choices : form.lines[c] # None}
      BY DEF StockInv, Matches, form
    <3>2. [c \in form.selected |-> form.lines[c]] \in [form.selected -> LineRow]
      BY <3>1
    <3>3. form.selected \in SUBSET Choices
      BY <3>1
    <3>4. Payload(status) \in ReceiptRow
      BY <3>2, <3>3 DEF Payload, ReceiptRow
    <3> QED
      BY <3>4 DEF Payloads
  <2> QED
    BY <1>1, <2>1, <2>2, SendsSave
<1>11. ASSUME NEW t \in Slots, StockSaved(t)
       PROVE  Completes /\ CallsFormed' /\ store' = store /\ page' = page
  <2>1. calls[t].draft \in Nat
    BY <1>11 DEF StockSaved, Saved, Saves, SavingInv, SavesOfDrafts, SaveRow, Drafts
  <2>2. /\ ui'.draft = ui.draft /\ ui'.busy = ui.busy /\ ui'.saved = calls[t].draft
        /\ store' = store /\ page' = page
        /\ Saves(t, "ok") /\ Start(t, "reload", 0, None)
    BY <1>2, <1>11 DEF StockSaved, Saved, StockFields
  <2>3. Locked'
    BY <2>1, <2>2, RuntimeAssumption DEF Locked
  <2> QED
    BY <2>2, <2>3, SaveEndsWell
<1>12. ASSUME NEW t \in Slots, StockNotSaved(t) PROVE Ended
  <2>1. /\ ui'.draft = ui.draft /\ ui'.saved = ui.saved /\ store' = store /\ page' = page
        /\ Saves(t, "error") /\ Finish(t)
    BY <1>2, <1>12 DEF StockNotSaved, NotSaved, StockFields
  <2>2. DraftStands
    BY <2>1 DEF DraftStands, Locked
  <2> QED
    BY <2>1, <2>2, SaveEndsBadly
<1>13. ASSUME NEW t \in Slots, StockLoaded(t) PROVE Ended
  <2>1. PICK op \in {"load", "reload"} : /\ InUse(t, op) /\ ui'.draft = ui.draft /\ ui'.saved = ui.saved
                                         /\ op = "load" => ui'.busy = ui.busy
    BY <1>2, <1>13 DEF StockLoaded, Ends, StockFields
  <2>2. Finish(t) /\ UNCHANGED <<page, store>>
    BY <1>13 DEF StockLoaded, Ends
  <2>3. DraftStands
    BY <2>1, <2>2 DEF DraftStands, Locked
  <2> QED
    BY <1>1, <2>1, <2>2, <2>3, RequestEnds
<1>14. CASE Reloads
  BY <1>1, <1>14, LoadStartsAnew
<1>15. CASE StockUser
  BY <1>15, <1>4, <1>5, <1>6, <1>7, <1>8, <1>9, <1>10
     DEF StockUser, ProductsScreen, NewGroupScreen, GroupVarietiesScreen, NewVarietyScreen,
         NewSimpleScreen, RecordingScreen, ItemEntryScreen, AfterVarietyScreen, StockDetailsScreen,
         ReviewScreen, RecorderFrame
<1> QED
  BY <1>11, <1>12, <1>13, <1>14, <1>15 DEF StockNext, StockAnswered

-----------------------------------------------------------------------------
(* The receipts of stock *)

(* The backend serves a request of which it writes nothing down. *)
LEMMA AnswerComes ==
    ASSUME CallsFormed, page' = page, ui'.busy = ui.busy, DraftStands,
           NEW t \in Slots, NEW op, InUse(t, op), op # "save", op \notin HeldOps, NEW arg,
           calls' = [calls EXCEPT ![t].arg = arg]
    PROVE  Quiet /\ CallsFormed'
<1>1. calls'[t] = [op |-> calls[t].op, draft |-> calls[t].draft, arg |-> arg, state |-> calls[t].state]
  BY DEF CallsFormed, Formed, InUse
<1>2. \A s \in Slots : s # t => calls'[s] = calls[s]
  OBVIOUS
<1>3. CallsFormed'
  BY <1>1, <1>2 DEF CallsFormed, Formed
<1>4. ~Held(t) /\ calls'[t].op \notin HeldOps
  BY <1>1 DEF Held, InUse
<1> QED
  BY <1>2, <1>3, <1>4, OthersAreQuiet

ReceiptsFields == {"listed", "kept", "open", "expanded", "archiving", "menu", "correction",
                   "draft", "busy", "saved"}

LEMMA ReceiptsSteps ==
    ASSUME page = "receipts", SavingInv, CallsFormed, DOMAIN ui = ReceiptsFields, ReceiptsNext
    PROVE  /\ Quiet \/ Sending \/ Completes
           /\ CallsFormed' /\ store' = store /\ DOMAIN ui' = ReceiptsFields /\ page' = page
<1> DEFINE Edited == /\ calls' = calls /\ store' = store /\ page' = page /\ DOMAIN ui' = ReceiptsFields
                     /\ ui'.busy = ui.busy /\ ui'.draft = ui.draft
           Ended  == Quiet /\ CallsFormed' /\ store' = store /\ DOMAIN ui' = ReceiptsFields /\ page' = page
<1> USE DEF ReceiptsFields, Sets
<1>1. HeldOps = {"save", "reload"} /\ ~Locked /\ (page' = page => ~Locked')
  BY DEF HeldOps, Locked
<1>2. Edited => Ended
  BY <1>1, EditsAreQuiet DEF DraftStands, CallsFormed, Formed
<1>3. ASSUME ToggleMenu \/ CloseMenu \/ LeaveMode \/ CancelCorrection \/ CloseWindow PROVE Edited
  BY <1>3 DEF ToggleMenu, CloseMenu, LeaveMode, CancelCorrection, CloseWindow
<1>4. ASSUME NEW m \in {"correct", "late_delivery"}, ChooseMode(m) PROVE Edited
  BY <1>4 DEF ChooseMode
<1>5. ASSUME NEW r \in ReceiptRows, ToggleDetails(r) \/ ChooseReceipt(r) PROVE Edited
  BY <1>5 DEF ToggleDetails, ChooseReceipt, BeginCorrection
<1>6. ASSUME ArchiveDraft PROVE Ended
  <2>1. /\ ui'.draft = ui.draft /\ ui'.busy = ui.busy /\ DOMAIN ui' = ReceiptsFields
        /\ UNCHANGED <<page, store>> /\ Sends("archive", 0, None)
    BY <1>6 DEF ArchiveDraft
  <2> QED
    BY <1>1, <2>1, RequestSent DEF DraftStands
<1>7. ASSUME SaveCorrection
      PROVE  Sending /\ CallsFormed' /\ store' = store /\ DOMAIN ui' = ReceiptsFields /\ page' = page
  <2>1. /\ ui'.draft = ui.draft /\ ui'.busy /\ ~ui.busy /\ DOMAIN ui' = ReceiptsFields
        /\ store' = store /\ page' = page /\ ui.draft \in Drafts /\ Sends("save", ui.draft, None)
    BY <1>7 DEF SaveCorrection
  <2>2. None \in Payloads
    BY DEF Payloads
  <2> QED
    BY <1>1, <2>1, <2>2, SendsSave
<1>8. ASSUME NEW t \in Slots, CorrectionSaved(t)
      PROVE  Completes /\ CallsFormed' /\ store' = store /\ DOMAIN ui' = ReceiptsFields /\ page' = page
  <2>1. /\ DraftMovesOn /\ ui'.busy = ui.busy /\ DOMAIN ui' = ReceiptsFields /\ store' = store
        /\ page' = page /\ Saves(t, "ok") /\ ReceiptsChanged(t)
    BY <1>8 DEF CorrectionSaved, Saved, DraftMovesOn
  <2>2. CASE Start(t, "reload", 0, None)
    BY <2>1, <2>2, SaveEndsWell
  <2>3. ASSUME NEW r \in Slots, Free(r),
               calls' = [calls EXCEPT ![t] = Call("reload", 0, None), ![r] = Call("load", 0, None)]
        PROVE  Completes /\ CallsFormed'
    <3>1. r # t /\ calls[r] = None
      BY <2>1, <2>3 DEF Free, Saves, InUse
    <3>2. /\ calls'[t] = Call("reload", 0, None) /\ calls'[r] = Call("load", 0, None)
          /\ \A s \in Slots : s # t /\ s # r => calls'[s] = calls[s]
      BY <2>3, <3>1 DEF CallsFormed
    <3>3. CallsFormed'
      BY <2>3, <3>2 DEF CallsFormed, Formed, Call
    <3>4. calls'[t].op = "reload" /\ BesideForm(r)
      BY <1>1, <3>1, <3>2 DEF BesideForm, Call
    <3> QED
      BY <2>1, <3>2, <3>3, <3>4 DEF Completes
  <2> QED
    BY <2>1, <2>2, <2>3 DEF ReceiptsChanged
<1>9. ASSUME NEW t \in Slots, CorrectionNotSaved(t) PROVE Ended
  <2>1. /\ ui'.draft = ui.draft /\ DOMAIN ui' = ReceiptsFields /\ store' = store /\ page' = page
        /\ Saves(t, "error") /\ Finish(t)
    BY <1>9 DEF CorrectionNotSaved, NotSaved
  <2> QED
    BY <1>1, <2>1, SaveEndsBadly DEF DraftStands
<1>10. ASSUME NEW t \in Slots, StockReloaded(t) PROVE Ended
  <2>1. /\ ui'.draft = ui.draft /\ DOMAIN ui' = ReceiptsFields /\ InUse(t, "reload") /\ Finish(t)
        /\ UNCHANGED <<page, store>>
    BY <1>10 DEF StockReloaded, Ends
  <2> QED
    BY <1>1, <2>1, RequestEnds DEF DraftStands
<1>11. ASSUME NEW t \in Slots, ReceiptsListed(t) PROVE Ended
  <2>1. /\ ui'.draft = ui.draft /\ ui'.busy = ui.busy /\ DOMAIN ui' = ReceiptsFields
        /\ InUse(t, "load") /\ Finish(t) /\ UNCHANGED <<page, store>>
    BY <1>11 DEF ReceiptsListed, Ends
  <2> QED
    BY <1>1, <2>1, RequestEnds DEF DraftStands
<1>12. ASSUME NEW t \in Slots, ReceiptsRead(t) \/ DraftArchived(t) PROVE Ended
  <2>1. PICK op \in {"load", "archive"} : InUse(t, op)
    BY <1>12 DEF ReceiptsRead, DraftArchived
  <2>2. /\ ui'.draft = ui.draft /\ ui'.busy = ui.busy /\ DOMAIN ui' = ReceiptsFields
        /\ UNCHANGED <<page, store>> /\ calls' = [calls EXCEPT ![t].arg = ui.kept]
    BY <1>12 DEF ReceiptsRead, DraftArchived
  <2> QED
    BY <1>1, <2>1, <2>2, AnswerComes DEF DraftStands
<1>13. ASSUME NEW t \in Slots, ArchiveEnds(t) PROVE Ended
  <2>1. /\ ui'.draft = ui.draft /\ ui'.busy = ui.busy /\ DOMAIN ui' = ReceiptsFields
        /\ UNCHANGED <<page, store>> /\ InUse(t, "archive")
        /\ Start(t, "load", 0, None) \/ Finish(t)
    BY <1>13 DEF ArchiveEnds
  <2>2. ~Held(t) /\ DraftStands
    BY <1>1, <2>1 DEF Held, InUse, DraftStands
  <2> QED
    BY <1>1, <2>1, <2>2, RequestEnds, RequestStarts
<1>14. ASSUME Reloads PROVE Ended
  BY <1>1, <1>14, LoadStartsAnew
<1> HIDE DEF ReceiptsFields, Edited, Ended
<1>15. ASSUME \/ ToggleMenu \/ CloseMenu \/ LeaveMode \/ CancelCorrection \/ CloseWindow
              \/ \E m \in {"correct", "late_delivery"} : ChooseMode(m)
              \/ \E r \in ReceiptRows : ToggleDetails(r) \/ ChooseReceipt(r)
       PROVE  Ended
  BY <1>15, <1>2, <1>3, <1>4, <1>5
<1> QED
  BY <1>15, <1>6, <1>7, <1>8, <1>9, <1>10, <1>11, <1>12, <1>13, <1>14
     DEF ReceiptsNext, ReceiptsUser, ReceiptsAnswered, Ended

-----------------------------------------------------------------------------
(* Expenses *)

ExpensesFields == {"editing", "complete", "receipt", "filter", "listed", "loading", "draft", "busy",
                   "saved"}

ExpensesFormed == /\ DOMAIN ui = ExpensesFields
                  /\ ui.editing \in ExpenseRows \cup {None} /\ ui.filter \in ExpenseFilters

LEMMA ExpensesSteps ==
    ASSUME page = "expenses", SavingInv, CallsFormed, ExpensesFormed, ExpensesNext
    PROVE  /\ Quiet \/ Sending \/ Completes
           /\ CallsFormed' /\ store' = store /\ ExpensesFormed' /\ page' = page
<1> DEFINE Edited == /\ calls' = calls /\ store' = store /\ page' = page /\ ExpensesFormed'
                     /\ ui'.busy = ui.busy /\ (ui'.draft = ui.draft \/ DraftMovesOn)
           Ended  == Quiet /\ CallsFormed' /\ store' = store /\ ExpensesFormed' /\ page' = page
<1> USE DEF ExpensesFormed, ExpensesFields, Sets
<1>1. HeldOps = {"save", "reload"} /\ ~Locked /\ (page' = page => ~Locked')
  BY DEF HeldOps, Locked
<1>2. Edited => Ended
  BY <1>1, EditsAreQuiet DEF DraftStands, CallsFormed, Formed
<1>3. ASSUME CancelEditExpense \/ CloseExpenseReceipt PROVE Edited
  BY <1>3 DEF CancelEditExpense, CloseExpenseReceipt, NewForm, DraftMovesOn
<1>4. ASSUME NEW e \in ExpenseRows, BeginEditExpense(e) \/ ShowExpenseReceipt(e) PROVE Edited
  BY <1>4 DEF BeginEditExpense, ShowExpenseReceipt, NewForm, DraftMovesOn
<1>5. ASSUME NEW complete \in BOOLEAN, TypeExpense(complete) PROVE Edited
  BY <1>5 DEF TypeExpense
<1>6. ASSUME NEW f \in ExpenseFilters, ChooseFilter(f) PROVE Ended
  <2>1. PICK t \in Slots : (InUse(t, "load") \/ calls[t] = None) /\ Start(t, "load", 0, f)
    BY <1>6 DEF ChooseFilter, Free
  <2>2. ui'.draft = ui.draft /\ ui'.busy = ui.busy /\ ExpensesFormed' /\ UNCHANGED <<page, store>>
    BY <1>6 DEF ChooseFilter
  <2>3. ~Held(t) /\ DraftStands
    BY <1>1, <2>1, <2>2 DEF Held, InUse, DraftStands
  <2> QED
    BY <1>1, <2>1, <2>2, <2>3, RequestStarts
<1>7. ASSUME SubmitExpense
      PROVE  Sending /\ CallsFormed' /\ store' = store /\ ExpensesFormed' /\ page' = page
  <2>1. /\ ui'.draft = ui.draft /\ ui'.busy /\ ~ui.busy /\ ExpensesFormed'
        /\ store' = store /\ page' = page /\ ui.draft \in Drafts
        /\ Sends("save", ui.draft, [editing |-> ui.editing, filter |-> ui.filter])
    BY <1>7 DEF SubmitExpense
  <2>2. [editing |-> ui.editing, filter |-> ui.filter] \in Payloads
    BY DEF Payloads, ExpenseRow
  <2> QED
    BY <1>1, <2>1, <2>2, SendsSave
<1>8. ASSUME NEW t \in Slots, ExpenseSaved(t)
      PROVE  Completes /\ CallsFormed' /\ store' = store /\ ExpensesFormed' /\ page' = page
  <2>1. /\ DraftMovesOn /\ ui'.busy = ui.busy /\ ExpensesFormed' /\ store' = store
        /\ page' = page /\ Saves(t, "ok") /\ Start(t, "reload", 0, calls[t].arg.filter)
    BY <1>8 DEF ExpenseSaved, Saved, NewForm, DraftMovesOn
  <2> QED
    BY <2>1, SaveEndsWell
<1>9. ASSUME NEW t \in Slots, ExpenseNotSaved(t) PROVE Ended
  <2>1. /\ ui'.draft = ui.draft /\ ExpensesFormed' /\ store' = store /\ page' = page
        /\ Saves(t, "error") /\ Finish(t)
    BY <1>9 DEF ExpenseNotSaved, NotSaved
  <2> QED
    BY <1>1, <2>1, SaveEndsBadly DEF DraftStands
<1>10. ASSUME NEW t \in Slots, ExpensesLoaded(t) PROVE Ended
  <2>1. PICK op \in {"load", "reload"} : /\ InUse(t, op) /\ ui'.draft = ui.draft
                                         /\ op = "load" => ui'.busy = ui.busy
    BY <1>10 DEF ExpensesLoaded, Ends
  <2>2. Finish(t) /\ UNCHANGED <<page, store>> /\ ExpensesFormed'
    BY <1>10 DEF ExpensesLoaded, Ends
  <2> QED
    BY <1>1, <2>1, <2>2, RequestEnds DEF DraftStands
<1> HIDE DEF ExpensesFormed, Edited, Ended
<1>11. ASSUME \/ CancelEditExpense \/ CloseExpenseReceipt
              \/ \E e \in ExpenseRows : BeginEditExpense(e) \/ ShowExpenseReceipt(e)
              \/ \E complete \in BOOLEAN : TypeExpense(complete)
       PROVE  Ended
  BY <1>11, <1>2, <1>3, <1>4, <1>5
<1> QED
  BY <1>11, <1>6, <1>7, <1>8, <1>9, <1>10 DEF ExpensesNext, ExpensesUser, ExpensesAnswered, Ended

-----------------------------------------------------------------------------
(* Budgets *)

BudgetsFields == {"type", "value", "complete", "loading", "draft", "busy", "saved"}

BudgetsFormed == /\ DOMAIN ui = BudgetsFields
                 /\ ui.type \in PeriodTypes /\ ui.value \in {"month", "date"}

LEMMA BudgetsSteps ==
    ASSUME page = "budgets", SavingInv, CallsFormed, BudgetsFormed, BudgetsNext
    PROVE  /\ Quiet \/ Sending \/ Completes
           /\ CallsFormed' /\ store' = store /\ BudgetsFormed' /\ page' = page
<1> DEFINE Edited == /\ calls' = calls /\ store' = store /\ page' = page /\ BudgetsFormed'
                     /\ ui'.busy = ui.busy /\ ui'.draft = ui.draft
           Ended  == Quiet /\ CallsFormed' /\ store' = store /\ BudgetsFormed' /\ page' = page
<1> USE DEF BudgetsFormed, BudgetsFields, Sets
<1>1. HeldOps = {"save", "reload"} /\ ~Locked /\ (page' = page => ~Locked')
  BY DEF HeldOps, Locked
<1>2. Edited => Ended
  BY <1>1, EditsAreQuiet DEF DraftStands, CallsFormed, Formed
<1>3. ASSUME NEW type \in PeriodTypes, ChangePeriodType(type) PROVE Ended
  BY <1>2, <1>3 DEF ChangePeriodType, InitialPeriod
<1>4. ASSUME NEW complete \in BOOLEAN, TypeBudget(complete) PROVE Ended
  BY <1>2, <1>4 DEF TypeBudget
<1>5. ASSUME SubmitBudget
      PROVE  Sending /\ CallsFormed' /\ store' = store /\ BudgetsFormed' /\ page' = page
  <2>1. /\ ui'.draft = ui.draft /\ ui'.busy /\ ~ui.busy /\ BudgetsFormed'
        /\ store' = store /\ page' = page /\ ui.draft \in Drafts
        /\ Sends("save", ui.draft, [type |-> ui.type, value |-> ui.value])
    BY <1>5 DEF SubmitBudget
  <2>2. [type |-> ui.type, value |-> ui.value] \in Payloads
    BY DEF Payloads, BudgetRow
  <2> QED
    BY <1>1, <2>1, <2>2, SendsSave
<1>6. ASSUME NEW t \in Slots, BudgetSaved(t)
      PROVE  Completes /\ CallsFormed' /\ store' = store /\ BudgetsFormed' /\ page' = page
  <2>1. /\ DraftMovesOn /\ ui'.busy = ui.busy /\ BudgetsFormed' /\ store' = store
        /\ page' = page /\ Saves(t, "ok") /\ Start(t, "reload", 0, None)
    BY <1>6 DEF BudgetSaved, Saved, DraftMovesOn
  <2> QED
    BY <2>1, SaveEndsWell
<1>7. ASSUME NEW t \in Slots, BudgetNotSaved(t) PROVE Ended
  <2>1. /\ ui'.draft = ui.draft /\ BudgetsFormed' /\ store' = store /\ page' = page
        /\ Saves(t, "error") /\ Finish(t)
    BY <1>7 DEF BudgetNotSaved, NotSaved
  <2> QED
    BY <1>1, <2>1, SaveEndsBadly DEF DraftStands
<1>8. ASSUME NEW t \in Slots, BudgetsLoaded(t) PROVE Ended
  <2>1. PICK op \in {"load", "reload"} : /\ InUse(t, op) /\ ui'.draft = ui.draft
                                         /\ op = "load" => ui'.busy = ui.busy
    BY <1>8 DEF BudgetsLoaded, Ends
  <2>2. Finish(t) /\ UNCHANGED <<page, store>> /\ BudgetsFormed'
    BY <1>8 DEF BudgetsLoaded, Ends
  <2> QED
    BY <1>1, <2>1, <2>2, RequestEnds DEF DraftStands
<1>9. ASSUME Reloads PROVE Ended
  BY <1>1, <1>9, LoadStartsAnew
<1> HIDE DEF BudgetsFormed, Edited, Ended
<1> QED
  BY <1>3, <1>4, <1>5, <1>6, <1>7, <1>8, <1>9 DEF BudgetsNext, BudgetsUser, BudgetsAnswered, Ended

-----------------------------------------------------------------------------
(* The catalog *)

(* What holds the form gives way to a request that holds it on. *)
LEMMA RequestTurns ==
    ASSUME page' = page, ui'.busy = ui.busy, DraftMovesOn \/ DraftStands,
           NEW t \in Slots, NEW op, op # "save", InUse(t, op), op \in HeldOps,
           calls'[t].op # "save", \A s \in Slots : s # t => calls'[s] = calls[s]
    PROVE  Quiet
<1>1. HeldOps' = HeldOps
  BY DEF HeldOps
<1>2. Held(t) /\ ~Saves(t, "ok")
  BY DEF Held, InUse, Saves
<1> QED
  BY <1>1, <1>2 DEF Quiet, DraftStands, Held

CatalogFields == {"stocked", "archived", "editing", "complete", "showEmpty", "draft", "busy", "saved"}

LEMMA CatalogSteps ==
    ASSUME page = "catalog", SavingInv, CallsFormed, DOMAIN ui = CatalogFields, CatalogNext
    PROVE  /\ Quiet \/ Sending \/ Holds \/ Completes
           /\ CallsFormed' /\ store' = store /\ DOMAIN ui' = CatalogFields /\ page' = page
<1> DEFINE Ended == /\ Quiet /\ CallsFormed'
                    /\ store' = store /\ DOMAIN ui' = CatalogFields /\ page' = page
<1> USE DEF CatalogFields, Sets
<1>1. HeldOps = {"save", "reload", "archive"} /\ (Locked <=> ui.editing = None)
  BY DEF HeldOps, Locked
<1>2. ASSUME calls' = calls, store' = store, page' = page, DOMAIN ui' = CatalogFields,
             ui'.busy = ui.busy, DraftMovesOn \/ DraftStands
      PROVE  Ended
  BY <1>2, EditsAreQuiet DEF CallsFormed, Formed
<1>3. CASE ReviewEmptyItems
  BY <1>2, <1>3 DEF ReviewEmptyItems, DraftStands, Locked
<1>4. CASE CloseEdit
  BY <1>2, <1>4 DEF CloseEdit, ClosedEdit, DraftStands, Locked
<1>5. ASSUME NEW complete \in BOOLEAN, TypeCorrection(complete) PROVE Ended
  BY <1>2, <1>5 DEF TypeCorrection, DraftStands, Locked
<1>6. ASSUME NEW p \in CatalogRows, OpenEdit(p) PROVE Ended
  BY <1>2, <1>6 DEF OpenEdit, DraftMovesOn
<1>7. ASSUME SaveProduct
      PROVE  Sending /\ CallsFormed' /\ store' = store /\ DOMAIN ui' = CatalogFields /\ page' = page
  <2>1. /\ ui'.draft = ui.draft /\ ui'.busy /\ ~ui.busy /\ ~Locked /\ DOMAIN ui' = CatalogFields
        /\ store' = store /\ page' = page /\ ui.draft \in Drafts /\ Sends("save", ui.draft, None)
    BY <1>1, <1>7 DEF SaveProduct
  <2>2. None \in Payloads
    BY DEF Payloads
  <2> QED
    BY <2>1, <2>2, SendsSave
<1>8. ASSUME NEW p \in CatalogRows, ArchiveEmptyProduct(p)
      PROVE  Holds /\ CallsFormed' /\ store' = store /\ DOMAIN ui' = CatalogFields /\ page' = page
  <2>1. /\ ui'.draft = ui.draft /\ ui'.editing = ui.editing /\ ui'.busy /\ ~ui.busy
        /\ DOMAIN ui' = CatalogFields /\ store' = store /\ page' = page /\ Sends("archive", 0, p)
    BY <1>8 DEF ArchiveEmptyProduct
  <2>2. PICK t \in Slots : calls[t] = None /\ Start(t, "archive", 0, p)
    BY <2>1 DEF Sends, Free
  <2>3. CallsFormed' /\ calls'[t].op = "archive" /\ \A s \in Slots : s # t => calls'[s] = calls[s]
    BY <2>2, StartFacts
  <2>4. DraftStands
    BY <2>1 DEF DraftStands, Locked
  <2> QED
    BY <2>1, <2>2, <2>3, <2>4 DEF Holds
<1>9. ASSUME NEW t \in Slots, ProductSaved(t)
      PROVE  Completes /\ CallsFormed' /\ store' = store /\ DOMAIN ui' = CatalogFields /\ page' = page
  <2>1. /\ ui'.draft = ui.draft /\ ui'.busy = ui.busy /\ ui'.editing = None
        /\ DOMAIN ui' = CatalogFields /\ store' = store /\ page' = page
        /\ Saves(t, "ok") /\ Start(t, "reload", 0, None)
    BY <1>9 DEF ProductSaved, Saved, ClosedEdit
  <2>2. Locked'
    BY <2>1 DEF Locked
  <2> QED
    BY <2>1, <2>2, SaveEndsWell
<1>10. ASSUME NEW t \in Slots, ProductNotSaved(t) PROVE Ended
  <2>1. /\ ui'.draft = ui.draft /\ ui'.editing = ui.editing /\ DOMAIN ui' = CatalogFields
        /\ store' = store /\ page' = page /\ Saves(t, "error") /\ Finish(t)
    BY <1>10 DEF ProductNotSaved, NotSaved
  <2>2. DraftStands
    BY <2>1 DEF DraftStands, Locked
  <2> QED
    BY <2>1, <2>2, SaveEndsBadly
<1>11. ASSUME NEW t \in Slots, CatalogLoaded(t) PROVE Ended
  <2>1. PICK op \in {"load", "reload"} :
            /\ InUse(t, op) /\ ui'.draft = ui.draft /\ ui'.editing = ui.editing
            /\ DOMAIN ui' = CatalogFields /\ op = "load" => ui'.busy = ui.busy
    BY <1>11 DEF CatalogLoaded, Ends
  <2>2. Finish(t) /\ UNCHANGED <<page, store>> /\ DOMAIN ui' = CatalogFields
    BY <1>11 DEF CatalogLoaded, Ends
  <2>3. DraftStands
    BY <2>1, <2>2 DEF DraftStands, Locked
  <2> QED
    BY <1>1, <2>1, <2>2, <2>3, RequestEnds
<1>12. ASSUME NEW t \in Slots, ProductArchived(t) PROVE Ended
  <2>1. /\ InUse(t, "archive") /\ UNCHANGED <<page, store>>
        /\ ui'.draft = ui.draft /\ ui'.editing \in {ui.editing, None} /\ DOMAIN ui' = CatalogFields
        /\ Finish(t) \/ (ui'.busy = ui.busy /\ Start(t, "reload", 0, None))
    BY <1>12 DEF ProductArchived, Ends, ClosedEdit
  <2>2. DraftStands
    BY <2>1 DEF DraftStands, Locked
  <2>3. CASE Finish(t)
    BY <1>1, <2>1, <2>2, <2>3, RequestEnds
  <2>4. CASE ui'.busy = ui.busy /\ Start(t, "reload", 0, None)
    <3>1. CallsFormed' /\ calls'[t].op = "reload" /\ \A s \in Slots : s # t => calls'[s] = calls[s]
      BY <2>4, StartFacts
    <3> QED
      BY <1>1, <2>1, <2>2, <2>4, <3>1, RequestTurns
  <2> QED
    BY <2>1, <2>3, <2>4
<1>13. ASSUME ReloadCatalog PROVE Ended
  <2>1. Sends("load", 0, None) /\ UNCHANGED <<page, ui, store>> /\ DraftStands
    BY <1>13 DEF ReloadCatalog, DraftStands, Locked
  <2> QED
    BY <1>1, <2>1, RequestSent
<1> HIDE DEF CatalogFields, Ended
<1> QED
  BY <1>3, <1>4, <1>5, <1>6, <1>7, <1>8, <1>9, <1>10, <1>11, <1>12, <1>13
     DEF CatalogNext, CatalogUser, CatalogAnswered, Ended

-----------------------------------------------------------------------------
(* The searches: the bar of a workspace sends no submission. *)

SearchSaves == DOMAIN ui = SearchFields /\ (ui.kind = "bar" => ui.draft = 1 /\ ui.busy = FALSE)

LEMMA SearchSends ==
    ASSUME page = "search", SavingInv, CallsFormed, SearchSaves, SearchNext
    PROVE  /\ Quiet \/ Sending \/ Completes
           /\ CallsFormed' /\ store' = store /\ SearchSaves' /\ page' = page
<1> DEFINE Same == /\ DOMAIN ui' = SearchFields
                   /\ ui'.kind = ui.kind /\ ui'.draft = ui.draft /\ ui'.busy = ui.busy
           Ended == Quiet /\ CallsFormed' /\ store' = store /\ SearchSaves' /\ page' = page
<1> USE DEF SearchSaves, SearchFields, Sets
<1>1. HeldOps = {"save", "reload"} /\ ~Locked /\ (page' = page => ~Locked')
  BY DEF HeldOps, Locked
<1>2. ASSUME Same, calls' = calls, store' = store, page' = page PROVE Ended
  BY <1>1, <1>2, EditsAreQuiet DEF DraftStands, CallsFormed, Formed
<1>3. ASSUME NEW next, NEW query, Searches(next, query), DOMAIN next = SearchFields,
             next.kind = ui.kind, next.draft = ui.draft, next.busy = ui.busy
      PROVE  Ended
  <2>1. PICK t \in Slots : /\ calls[t] = None /\ Start(t, "search", 0, query)
                           /\ ui' = [next EXCEPT !.controller = t] /\ UNCHANGED <<page, store>>
    BY <1>3 DEF Searches, Free
  <2>2. Same
    BY <1>3, <2>1
  <2>3. ~Held(t) /\ DraftStands
    BY <1>1, <2>1, <2>2 DEF Held, DraftStands
  <2> QED
    BY <1>1, <2>1, <2>2, <2>3, RequestStarts
<1>4. ASSUME NEW next, Sets(AfterTyping(next)), DOMAIN next = SearchFields,
             next.kind = ui.kind, next.draft = ui.draft, next.busy = ui.busy
      PROVE  Ended
  <2>1. Same
    BY <1>4 DEF AfterTyping, Abort
  <2> QED
    BY <1>2, <1>4, <2>1
<1>5. ASSUME NEW query \in Queries \cup {""}, TypeSearch(query) PROVE Ended
  BY <1>2, <1>5 DEF TypeSearch
<1>6. CASE OpenResult
  BY <1>2, <1>6 DEF OpenResult
<1>7. CASE ClearSearch
  <2>1. ui' = SearchUi("bar") /\ ui.kind = "bar" /\ calls' = calls /\ store' = store /\ page' = page
    BY <1>7 DEF ClearSearch
  <2>2. Same
    BY <2>1 DEF SearchUi
  <2> QED
    BY <1>2, <2>1, <2>2
<1>8. CASE SubmitSearch
  BY <1>3, <1>8 DEF SubmitSearch, Abort
<1>9. CASE SearchTimer
  BY <1>3, <1>9 DEF SearchTimer
<1>10. ASSUME NEW query \in Queries \cup {""}, UpdateQuery(query) PROVE Ended
  <2>1. Sets(AfterTyping([ui EXCEPT !.query = query, !.selected = None]))
    BY <1>10 DEF UpdateQuery
  <2> QED
    BY <1>4, <2>1
<1>11. CASE SearchAgain
  <2>1. Sets(AfterTyping(ui))
    BY <1>11 DEF SearchAgain
  <2> QED
    BY <1>4, <2>1
<1>12. CASE SelectBusiness
  <2>1. Sets(AfterTyping([ui EXCEPT !.selected = ui.results]))
    BY <1>12 DEF SelectBusiness
  <2> QED
    BY <1>4, <2>1
<1>13. ASSUME SubmitAccessRequest
       PROVE  Sending /\ CallsFormed' /\ store' = store /\ SearchSaves' /\ page' = page
  <2>1. /\ ui'.draft = ui.draft /\ ui'.busy /\ ~ui.busy /\ SearchSaves'
        /\ store' = store /\ page' = page /\ ui.draft \in Drafts /\ Sends("save", ui.draft, None)
    BY <1>13 DEF SubmitAccessRequest
  <2>2. None \in Payloads
    BY DEF Payloads
  <2> QED
    BY <1>1, <2>1, <2>2, SendsSave
<1>14. ASSUME NEW t \in Slots, AccessRequested(t)
       PROVE  Completes /\ CallsFormed' /\ store' = store /\ SearchSaves' /\ page' = page
  <2>1. /\ DraftMovesOn /\ SearchSaves' /\ store' = store /\ page' = page
        /\ Saves(t, "ok") /\ Finish(t)
    BY <1>14 DEF AccessRequested, Saved, SearchUi, DraftMovesOn
  <2> QED
    BY <2>1, SaveEndsWell
<1>15. ASSUME NEW t \in Slots, AccessNotRequested(t) PROVE Ended
  <2>1. /\ store' = store /\ page' = page /\ Saves(t, "error") /\ Finish(t)
    BY <1>15 DEF AccessNotRequested, NotSaved
  <2>2. SearchSaves' /\ (ui'.draft = ui.draft \/ DraftMovesOn)
    BY <1>15 DEF AccessNotRequested, NotSaved, SearchUi, DraftMovesOn
  <2> QED
    BY <1>1, <2>1, <2>2, SaveEndsBadly DEF DraftStands
<1>16. ASSUME NEW t \in Slots, SearchLanded(t) \/ SearchFailed(t) PROVE Ended
  <2>1. InUse(t, "search") /\ Finish(t) /\ UNCHANGED <<page, store>>
    BY <1>16 DEF SearchLanded, SearchFailed, Ends
  <2>2. CASE SearchLanded(t)
    <3>1. Same
      BY <2>2 DEF SearchLanded, Ends, Abort
    <3> QED
      BY <1>1, <2>1, <3>1, RequestEnds DEF DraftStands
  <2>3. CASE SearchFailed(t)
    <3>1. \/ ui' = Overtaken(t)
          \/ \E results : ui' = [Abort(ui) EXCEPT !.results = results, !.loading = FALSE, !.failed = TRUE]
      BY <2>3 DEF SearchFailed, Ends, Abort
    <3>2. Same
      BY <3>1 DEF Overtaken, Abort
    <3> QED
      BY <1>1, <2>1, <3>2, RequestEnds DEF DraftStands
  <2> QED
    BY <1>16, <2>2, <2>3
<1> HIDE DEF SearchSaves, SearchFields, Ended
<1> QED
  BY <1>5, <1>6, <1>7, <1>8, <1>9, <1>10, <1>11, <1>12, <1>13, <1>14, <1>15, <1>16
     DEF SearchNext, SearchUser, SearchAnswered, Ended

-----------------------------------------------------------------------------
(* The editors, of which only the form of a new business sends a draft. *)

LEMMA EditorSendsOnce ==
    ASSUME page = "editor", SavingInv, EditorFormed, EditorNext
    PROVE  /\ Quiet \/ Sending \/ Holds \/ Completes
           /\ store'.done = store.done /\ store'.lost = store.lost /\ page' = page
<1> DEFINE Ended == Quiet /\ UNCHANGED <<page, store.done, store.lost>>
<1> USE DEF EditorFields
<1>1. /\ HeldOps = {"save", "write", "overview"} /\ ~Locked /\ (page' = page => ~Locked')
      /\ DOMAIN ui = EditorFields /\ CallsFormed /\ StoreFormed
  BY DEF HeldOps, Locked, EditorFormed
<1>2. ASSUME ReadAgain PROVE Ended
  <2>1. PICK t \in Slots : (calls[t] = None \/ InUse(t, "read")) /\ Start(t, "read", 0, None)
    BY <1>2 DEF ReadAgain, Free
  <2>2. ui'.draft = ui.draft /\ ui'.busy = ui.busy /\ UNCHANGED <<page, store>>
    BY <1>1, <1>2 DEF ReadAgain
  <2>3. ~Held(t) /\ DraftStands
    BY <1>1, <2>1, <2>2 DEF Held, InUse, DraftStands
  <2> QED
    BY <1>1, <2>1, <2>2, <2>3, RequestStarts
<1>3. ASSUME RemoveImage PROVE Ended
  <2>1. /\ ui'.draft = ui.draft /\ ui'.busy = ui.busy /\ UNCHANGED <<page, store>>
        /\ Sends("image", 0, None)
    BY <1>1, <1>3 DEF RemoveImage
  <2> QED
    BY <1>1, <2>1, RequestSent DEF DraftStands
<1>4. ASSUME NEW field \in Fields, TypeField(field) PROVE Ended
  <2>1. /\ ui'.draft = ui.draft /\ ui'.busy = ui.busy /\ UNCHANGED <<page, calls, store>>
    BY <1>1, <1>4 DEF TypeField, Sets
  <2> QED
    BY <1>1, <2>1, EditsAreQuiet DEF DraftStands
<1>5. ASSUME SubmitEditor PROVE Holds /\ store' = store /\ page' = page
  <2>1. /\ ui'.draft = ui.draft /\ ui'.busy /\ ~ui.busy /\ store' = store /\ page' = page
        /\ Sends("write", 0, [values |-> ui.values, answer |-> None])
    BY <1>1, <1>5 DEF SubmitEditor
  <2>2. PICK t \in Slots : /\ calls[t] = None
                           /\ Start(t, "write", 0, [values |-> ui.values, answer |-> None])
    BY <2>1 DEF Sends, Free
  <2>3. calls'[t].op = "write" /\ \A s \in Slots : s # t => calls'[s] = calls[s]
    BY <1>1, <2>2, StartFacts
  <2> QED
    BY <1>1, <2>1, <2>2, <2>3 DEF Holds, DraftStands
<1>6. ASSUME SomeoneElse PROVE Ended
  <2>1. /\ ui'.draft = ui.draft /\ ui'.busy = ui.busy /\ page' = page /\ calls' = calls
        /\ store'.done = store.done /\ store'.lost = store.lost
    BY <1>1, <1>6 DEF SomeoneElse, StoreFormed
  <2> QED
    BY <1>1, <2>1, EditsAreQuiet DEF DraftStands
<1>7. ASSUME CreateBusiness PROVE Sending /\ store' = store /\ page' = page
  <2>1. /\ ui'.draft = ui.draft /\ ui'.busy /\ ~ui.busy /\ store' = store /\ page' = page
        /\ ui.draft \in Drafts /\ Sends("save", ui.draft, None)
    BY <1>1, <1>7 DEF CreateBusiness
  <2>2. None \in Payloads
    BY DEF Payloads
  <2> QED
    BY <1>1, <2>1, <2>2, SendsSave
<1>8. ASSUME NEW t \in Slots, BusinessCreated(t) PROVE Completes /\ store' = store /\ page' = page
  <2>1. DraftMovesOn /\ store' = store /\ page' = page /\ Saves(t, "ok") /\ Finish(t)
    BY <1>8 DEF BusinessCreated, Saved, EditorUi, DraftMovesOn
  <2> QED
    BY <1>1, <2>1, SaveEndsWell
<1>9. ASSUME NEW t \in Slots, BusinessNotCreated(t) PROVE Ended
  <2>1. ui'.draft = ui.draft /\ store' = store /\ page' = page /\ Saves(t, "error") /\ Finish(t)
    BY <1>1, <1>9 DEF BusinessNotCreated, NotSaved
  <2> QED
    BY <1>1, <2>1, SaveEndsBadly DEF DraftStands
<1>10. ASSUME NEW t \in Slots, ReadServed(t) PROVE Ended
  <2>1. PICK op \in {"read", "image"} : InUse(t, op)
    BY <1>10 DEF ReadServed, Reads
  <2>2. UNCHANGED <<page, ui, store>> /\ calls' = [calls EXCEPT ![t].arg = store.rows]
    BY <1>10 DEF ReadServed
  <2> QED
    BY <1>1, <2>1, <2>2, AnswerComes DEF DraftStands
<1>11. ASSUME NEW t \in Slots, ReadLanded(t) \/ ReadFailed(t) PROVE Ended
  <2>1. PICK op \in {"read", "image"} : InUse(t, op)
    BY <1>11 DEF ReadLanded, ReadFailed, Reads
  <2>2. ui'.draft = ui.draft /\ ui'.busy = ui.busy /\ Finish(t) /\ UNCHANGED <<page, store>>
    BY <1>1, <1>11 DEF ReadLanded, ReadFailed, Ends, Filled
  <2> QED
    BY <1>1, <2>1, <2>2, RequestEnds DEF DraftStands
<1>12. ASSUME NEW t \in Slots, WriteServed(t) PROVE Ended
  <2>1. /\ InUse(t, "write") /\ UNCHANGED <<page, ui>>
        /\ store'.done = store.done /\ store'.lost = store.lost
        /\ calls' = [calls EXCEPT ![t].arg.answer = calls[t].arg.values]
    BY <1>1, <1>12 DEF WriteServed, StoreFormed
  <2>2. calls'[t].op = "write" /\ \A s \in Slots : s # t => calls'[s] = calls[s]
    BY <1>1, <2>1 DEF CallsFormed, Formed, InUse
  <2> QED
    BY <1>1, <2>1, <2>2, RequestTurns DEF DraftStands
<1>13. ASSUME NEW t \in Slots, WriteFailed(t) \/ ProfileWritten(t) \/ SettingsWritten(t) \/ OverviewRead(t)
       PROVE  Ended
  <2>1. PICK op \in {"write", "overview"} : InUse(t, op)
    BY <1>13 DEF WriteFailed, ProfileWritten, SettingsWritten, OverviewRead, Ends
  <2>2. Finish(t) /\ UNCHANGED <<page, store>>
    BY <1>13 DEF WriteFailed, ProfileWritten, SettingsWritten, OverviewRead, Ends
  <2>3. ui'.draft = ui.draft
    BY <1>1, <1>13 DEF WriteFailed, ProfileWritten, SettingsWritten, OverviewRead, Ends, Filled
  <2> QED
    BY <1>1, <2>1, <2>2, <2>3, RequestEnds DEF DraftStands
<1>14. ASSUME NEW t \in Slots, PersonalWritten(t) PROVE Ended
  <2>1. /\ InUse(t, "write") /\ Start(t, "overview", 0, None) /\ UNCHANGED <<page, store>>
        /\ ui'.draft = ui.draft /\ ui'.busy = ui.busy
    BY <1>1, <1>14 DEF PersonalWritten, Answered, Filled
  <2>2. calls'[t].op = "overview" /\ \A s \in Slots : s # t => calls'[s] = calls[s]
    BY <1>1, <2>1, StartFacts
  <2> QED
    BY <1>1, <2>1, <2>2, RequestTurns DEF DraftStands
<1> HIDE DEF EditorFields, Ended
<1> QED
  BY <1>2, <1>3, <1>4, <1>5, <1>6, <1>7, <1>8, <1>9, <1>10, <1>11, <1>12, <1>13, <1>14
     DEF EditorNext, EditorUser, EditorAnswered, Ended

-----------------------------------------------------------------------------
(* The pages that save nothing a second time would change. *)

Unsent    == \A s \in Slots : ~InUse(s, "save")
Unwritten == \A d \in Drafts : store.done[d] = 0 /\ store.lost[d] = 0

LEMMA StartsUnsent ==
    ASSUME CallsFormed, Unsent, NEW t \in Slots, NEW op, op # "save", NEW draft, NEW arg,
           Start(t, op, draft, arg)
    PROVE  CallsFormed' /\ Unsent'
<1>1. CallsFormed' /\ calls'[t].op = op /\ \A s \in Slots : s # t => calls'[s] = calls[s]
  BY StartFacts
<1> QED
  BY <1>1 DEF Unsent, InUse

LEMMA FinishesUnsent ==
    ASSUME CallsFormed, Unsent, NEW t \in Slots, Finish(t)
    PROVE  CallsFormed' /\ Unsent'
  BY FinishFacts DEF Unsent, InUse

LEMMA AnswersUnsent ==
    ASSUME CallsFormed, Unsent, NEW t \in Slots, calls[t] # None, NEW arg,
           calls' = [calls EXCEPT ![t].arg = arg]
    PROVE  CallsFormed' /\ Unsent'
<1>1. /\ calls'[t] = [op |-> calls[t].op, draft |-> calls[t].draft, arg |-> arg, state |-> calls[t].state]
      /\ \A s \in Slots : s # t => calls'[s] = calls[s]
  BY DEF CallsFormed, Formed
<1> QED
  BY <1>1 DEF CallsFormed, Formed, Unsent, InUse

LEMMA KeepsUnsent ==
    ASSUME CallsFormed, Unsent, calls' = calls
    PROVE  CallsFormed' /\ Unsent'
  BY DEF CallsFormed, Formed, Unsent, InUse

LEMMA DocumentsSendNothing ==
    ASSUME CallsFormed, Unsent, DocumentsNext
    PROVE  CallsFormed' /\ Unsent' /\ store' = store
<1>1. calls' = calls /\ store' = store
  BY DEF DocumentsNext, OpenDocument, CloseDocument, CopyDocument, ShareDocument, PrintDocument,
     FramePrinted, FrameRemoved, Sets
<1> QED
  BY <1>1, KeepsUnsent

LEMMA TeamSendsNothing ==
    ASSUME CallsFormed, Unsent, TeamNext
    PROVE  CallsFormed' /\ Unsent' /\ store' = store
<1>1. ASSUME NEW op, op # "save", NEW row, NEW arg, Acts(op, row, arg)
      PROVE  CallsFormed' /\ Unsent' /\ store' = store
  BY <1>1, StartsUnsent DEF Acts, Sends
<1>2. ASSUME NEW t \in Slots, NEW op, NEW next, Ends(t, op, next)
      PROVE  CallsFormed' /\ Unsent' /\ store' = store
  BY <1>2, FinishesUnsent DEF Ends
<1>3. ASSUME NEW next, Sets(next) PROVE CallsFormed' /\ Unsent' /\ store' = store
  BY <1>3, KeepsUnsent DEF Sets
<1>4. ASSUME NEW role, RoleChanges(role) PROVE CallsFormed' /\ Unsent' /\ store' = store
  BY <1>4, StartsUnsent DEF RoleChanges
<1>5. CASE TeamUser
  BY <1>1, <1>3, <1>5 DEF TeamUser, SendInvitation, CancelInvitation, UpdateRole, ChooseInviteRole,
     ChooseApprovalRole, UpdateStatus, TypeInvitation, DecideRequest
<1>6. ASSUME NEW t \in Slots, TeamAnswered(t) PROVE CallsFormed' /\ Unsent' /\ store' = store
  BY <1>2, <1>6 DEF TeamAnswered, TeamLoaded, MemberUpdated, InvitationSent, InvitationCancelled,
     RequestDecided
<1> QED
  BY <1>4, <1>5, <1>6 DEF TeamNext

LEMMA AssistantSendsNothing ==
    ASSUME CallsFormed, Unsent, AssistantNext
    PROVE  CallsFormed' /\ Unsent' /\ store' = store
<1>1. 1 \in Slots
  BY RuntimeAssumption DEF Slots
<1>2. ASSUME NEW mode, ChangeMode(mode) PROVE CallsFormed' /\ Unsent' /\ store' = store
  BY <1>2, KeepsUnsent DEF ChangeMode, Sets
<1>3. CASE TypeMessage
  BY <1>3, KeepsUnsent DEF TypeMessage, Sets
<1>4. CASE SendMessage
  <2>1. PICK asks : calls' = [NoCalls EXCEPT ![1] = Call("ask", 0, asks)] /\ store' = store
    BY <1>4 DEF SendMessage
  <2>2. /\ DOMAIN calls' = Slots /\ \A s \in Slots : s # 1 => calls'[s] = None
        /\ calls'[1] = Call("ask", 0, asks)
    BY <1>1, <2>1 DEF NoCalls
  <2> QED
    BY <2>1, <2>2 DEF CallsFormed, Formed, Call, Unsent, InUse
<1>5. CASE LeaveConversation
  BY <1>5 DEF LeaveConversation, NoCalls, CallsFormed, Unsent, InUse
<1>6. ASSUME NEW t \in Slots, AssistantAnswered(t) PROVE CallsFormed' /\ Unsent' /\ store' = store
  BY <1>6, FinishesUnsent DEF AssistantAnswered, AnswerArrives, AnswerFails, Ends
<1> QED
  BY <1>2, <1>3, <1>4, <1>5, <1>6 DEF AssistantNext, AssistantUser

LEMMA PreferencesSendNothing ==
    ASSUME CallsFormed, Unsent, StoreFormed, PreferencesNext
    PROVE  /\ CallsFormed' /\ Unsent' /\ StoreFormed'
           /\ store'.done = store.done /\ store'.lost = store.lost
<1> DEFINE Kept == CallsFormed' /\ Unsent' /\ store' = store
<1>1. ASSUME LoadPreferences PROVE Kept
  BY <1>1, StartsUnsent DEF LoadPreferences, Sends
<1>2. ASSUME NEW p \in Preferences, ChoosePreference(p) \/ SwitchPreference(p) PROVE Kept
  <2>1. PICK next, saving : Updating(p, next, saving)
    BY <1>2 DEF ChoosePreference, SwitchPreference
  <2> QED
    BY <2>1, StartsUnsent DEF Updating, Sends
<1>3. ASSUME NEW t \in Slots, PreferencesServed(t) PROVE Kept
  BY <1>3, AnswersUnsent DEF PreferencesServed, InUse
<1>4. ASSUME NEW t \in Slots, NEW op, NEW next, Ends(t, op, next) PROVE Kept
  BY <1>4, FinishesUnsent DEF Ends
<1>5. ASSUME NEW t \in Slots, \/ PreferencesLoaded(t) \/ PreferencesNotLoaded(t)
                              \/ PreferenceUpdated(t) \/ PreferenceRefused(t) \/ PreferenceLost(t)
      PROVE  Kept
  BY <1>4, <1>5 DEF PreferencesLoaded, PreferencesNotLoaded, PreferenceUpdated, PreferenceRefused,
     PreferenceLost
<1>6. ASSUME NEW t \in Slots, UpdateServed(t)
      PROVE  CallsFormed' /\ Unsent' /\ StoreFormed' /\ store'.done = store.done /\ store'.lost = store.lost
  <2>1. PICK next : /\ store' = [store EXCEPT !.rows = next]
                    /\ calls' = [calls EXCEPT ![t].arg.answer = next] /\ calls[t] # None
    BY <1>6 DEF UpdateServed, Updates, InUse
  <2>2. calls' = [calls EXCEPT ![t].arg = [calls[t].arg EXCEPT !.answer = next]]
    BY <2>1
  <2> QED
    BY <2>1, <2>2, AnswersUnsent DEF StoreFormed
<1>7. Kept => /\ CallsFormed' /\ Unsent' /\ StoreFormed'
              /\ store'.done = store.done /\ store'.lost = store.lost
  BY DEF StoreFormed
<1> QED
  BY <1>1, <1>2, <1>3, <1>5, <1>6, <1>7 DEF PreferencesNext, PreferencesUser, PreferencesAnswered

-----------------------------------------------------------------------------
(* All pages together. *)

PageFormed ==
    /\ page = "sales"    => SalesFormed
    /\ page = "returns"  => ReturnsFormed
    /\ page = "receipts" => DOMAIN ui = ReceiptsFields
    /\ page = "catalog"  => DOMAIN ui = CatalogFields
    /\ page = "expenses" => ExpensesFormed
    /\ page = "budgets"  => BudgetsFormed
    /\ page = "search"   => SearchSaves

SubmissionInv ==
    page # "agreements" =>
        /\ CallsFormed /\ StoreFormed /\ PageFormed
        /\ IF page \in SavingPages THEN SavingInv ELSE Unsent /\ Unwritten

(* At first nothing that holds a form is under way. *)
LEMMA NothingBegan ==
    ASSUME \/ calls = NoCalls
           \/ \E op \in {"load", "read", "get"} : \E arg : calls = [NoCalls EXCEPT ![1] = Call(op, 0, arg)],
           store.done = NoWrites.done, store.lost = NoWrites.lost, StoreFormed, ui.draft = 1
    PROVE  CallsFormed /\ SavingInv /\ Unsent /\ Unwritten
<1>1. CallsFormed /\ \A s \in Slots : calls[s] # None => calls[s].op \in {"load", "read", "get"}
  <2>1. CASE calls = NoCalls
    BY <2>1 DEF NoCalls, CallsFormed
  <2>2. ASSUME NEW op \in {"load", "read", "get"}, NEW arg, calls = [NoCalls EXCEPT ![1] = Call(op, 0, arg)]
        PROVE  CallsFormed /\ \A s \in Slots : calls[s] # None => calls[s].op \in {"load", "read", "get"}
    <3>1. /\ DOMAIN calls = Slots /\ \A s \in Slots : s # 1 => calls[s] = None
          /\ \A s \in Slots : s = 1 => calls[s] = Call(op, 0, arg)
      BY <2>2 DEF NoCalls
    <3> QED
      BY <3>1 DEF CallsFormed, Formed, Call
  <2> QED
    BY <2>1, <2>2
<1>2. \A s \in Slots : ~Held(s) /\ ~InUse(s, "save")
  BY <1>1 DEF Held, HeldOps, InUse
<1>3. Counted /\ \A d \in Drafts : store.done[d] = 0 /\ store.lost[d] = 0
  BY RuntimeAssumption DEF Counted, NoWrites, Drafts
<1> QED
  BY <1>1, <1>2, <1>3 DEF SavingInv, OneHeld, SavesOfDrafts, DraftsPass, Unsent, Unwritten

LEMMA SubmissionStarts == WorkInit => SubmissionInv
<1> SUFFICES ASSUME WorkInit, page # "agreements" PROVE SubmissionInv
  BY DEF SubmissionInv
<1> DEFINE Begun == /\ \/ calls = NoCalls
                       \/ \E op \in {"load", "read", "get"} : \E arg :
                              calls = [NoCalls EXCEPT ![1] = Call(op, 0, arg)]
                    /\ store.done = NoWrites.done /\ store.lost = NoWrites.lost /\ StoreFormed
                    /\ ui.draft = 1 /\ PageFormed
<1>1. Mounted = [NoCalls EXCEPT ![1] = Call("load", 0, None)]
  BY DEF Mounted
<1>2. (store = NoWrites \/ \E rows : store = [NoWrites EXCEPT !.rows = rows])
        => store.done = NoWrites.done /\ store.lost = NoWrites.lost /\ StoreFormed
  BY DEF NoWrites, StoreFormed
<1>3. SalesInit \/ ReturnsInit => Begun
  BY <1>1, <1>2, RuntimeAssumption DEF SalesInit, SalesUi, SaleForm, SalesFormed, ReturnsInit, ReturnsUi,
     ReturnForm, ReturnsFormed, PageFormed
<1>4. FinancingInit \/ StockInit => Begun
  BY <1>1, <1>2 DEF FinancingInit, FinancingUi, StockInit, StockUi, PageFormed
<1>5. ReceiptsInit \/ CatalogInit => Begun
  BY <1>1, <1>2 DEF ReceiptsInit, ReceiptsUi, ReceiptsFields, CatalogInit, CatalogUi, CatalogFields,
     PageFormed
<1>6. ExpensesInit \/ BudgetsInit => Begun
  BY <1>1, <1>2 DEF ExpensesInit, ExpensesUi, ExpensesFields, ExpensesFormed, ExpenseFilters, BudgetsInit,
     BudgetsUi, BudgetsFields, BudgetsFormed, PeriodTypes, PageFormed
<1>7. DocumentsInit \/ AssistantInit => Begun
  BY <1>1, <1>2 DEF DocumentsInit, DocumentsUi, AssistantInit, AssistantUi, PageFormed
<1>8. SearchInit \/ TeamInit => Begun
  <2>1. ASSUME SearchInit PROVE Begun
    <3>1. PICK kind \in {"bar", "access"} : ui = SearchUi(kind)
      BY <2>1 DEF SearchInit
    <3>2. SearchSaves /\ ui.draft = 1
      BY <3>1 DEF SearchUi, SearchSaves, SearchFields
    <3> QED
      BY <1>2, <2>1, <3>2 DEF SearchInit, PageFormed
  <2>2. ASSUME TeamInit PROVE Begun
    <3>1. PICK view, role : ui = TeamUi(view, role)
      BY <2>2 DEF TeamInit
    <3>2. ui.draft = 1
      BY <3>1 DEF TeamUi
    <3> QED
      BY <1>1, <1>2, <2>2, <3>2 DEF TeamInit, PageFormed
  <2> QED
    BY <2>1, <2>2
<1>9. PreferencesInit \/ EditorInit => Begun
  BY <1>1, <1>2 DEF PreferencesInit, PreferencesUi, EditorInit, EditorUi, PageFormed
<1>10. ~AgreementsInit
  BY DEF AgreementsInit
<1>11. Begun
  <2> HIDE DEF Begun
  <2> QED
    BY <1>3, <1>4, <1>5, <1>6, <1>7, <1>8, <1>9, <1>10 DEF WorkInit
<1> QED
  BY <1>11, NothingBegan DEF SubmissionInv

LEMMA SubmissionSteps ==
    ASSUME page # "agreements", SubmissionInv, FinancingInv, StockInv, EditorInv, [WorkNext]_vars
    PROVE  SubmissionInv'
<1> DEFINE Stays == /\ page' = page /\ store'.done = store.done /\ store'.lost = store.lost
                    /\ CallsFormed' /\ StoreFormed' /\ PageFormed'
<1>1. page' = page /\ CallsFormed /\ StoreFormed /\ PageFormed
  BY PageStays DEF SubmissionInv
<1>2. store' = store => StoreFormed' /\ store'.done = store.done /\ store'.lost = store.lost
  BY <1>1 DEF StoreFormed
<1>3. ASSUME page \in SavingPages, Stays, Quiet \/ Sending \/ Holds \/ Completes PROVE SubmissionInv'
  BY <1>3, QuietKeeps, SendingKeeps, HoldsKeeps, CompletesKeeps DEF SubmissionInv
<1>4. ASSUME page \notin SavingPages, Stays, Unsent' PROVE SubmissionInv'
  BY <1>4, RowsStay DEF SubmissionInv, Unwritten
<1>5. ASSUME page = "sales", SalesNext PROVE SubmissionInv'
  BY <1>1, <1>2, <1>3, <1>5, SalesSteps DEF SubmissionInv, SavingPages, PageFormed
<1>6. ASSUME page = "returns", ReturnsNext PROVE SubmissionInv'
  BY <1>1, <1>2, <1>3, <1>6, ReturnsSteps DEF SubmissionInv, SavingPages, PageFormed
<1>7. ASSUME page = "financing", FinancingNext PROVE SubmissionInv'
  BY <1>1, <1>2, <1>3, <1>7, FinancingSends DEF SubmissionInv, SavingPages, PageFormed, FinancingInv
<1>8. ASSUME page = "stock", StockNext PROVE SubmissionInv'
  BY <1>1, <1>2, <1>3, <1>8, StockSends DEF SubmissionInv, SavingPages, PageFormed
<1>9. ASSUME page = "receipts", ReceiptsNext PROVE SubmissionInv'
  BY <1>1, <1>2, <1>3, <1>9, ReceiptsSteps DEF SubmissionInv, SavingPages, PageFormed
<1>10. ASSUME page = "catalog", CatalogNext PROVE SubmissionInv'
  BY <1>1, <1>2, <1>3, <1>10, CatalogSteps DEF SubmissionInv, SavingPages, PageFormed
<1>11. ASSUME page = "expenses", ExpensesNext PROVE SubmissionInv'
  BY <1>1, <1>2, <1>3, <1>11, ExpensesSteps DEF SubmissionInv, SavingPages, PageFormed
<1>12. ASSUME page = "budgets", BudgetsNext PROVE SubmissionInv'
  BY <1>1, <1>2, <1>3, <1>12, BudgetsSteps DEF SubmissionInv, SavingPages, PageFormed
<1>13. ASSUME page = "search", SearchNext PROVE SubmissionInv'
  BY <1>1, <1>2, <1>3, <1>13, SearchSends DEF SubmissionInv, SavingPages, PageFormed
<1>14. ASSUME page = "editor", EditorNext PROVE SubmissionInv'
  <2>1. EditorFormed /\ EditorFormed'
    BY <1>14, EditorSteps DEF EditorInv
  <2>2. Stays
    BY <1>1, <1>14, <2>1, EditorSendsOnce DEF SubmissionInv, SavingPages, EditorFormed, PageFormed
  <2> QED
    BY <1>3, <1>14, <2>1, <2>2, EditorSendsOnce DEF SubmissionInv, SavingPages
<1>15. ASSUME page = "documents", DocumentsNext PROVE SubmissionInv'
  BY <1>1, <1>2, <1>4, <1>15, DocumentsSendNothing DEF SubmissionInv, SavingPages, PageFormed
<1>16. ASSUME page = "team", TeamNext PROVE SubmissionInv'
  BY <1>1, <1>2, <1>4, <1>16, TeamSendsNothing DEF SubmissionInv, SavingPages, PageFormed
<1>17. ASSUME page = "assistant", AssistantNext PROVE SubmissionInv'
  BY <1>1, <1>2, <1>4, <1>17, AssistantSendsNothing DEF SubmissionInv, SavingPages, PageFormed
<1>18. ASSUME page = "preferences", PreferencesNext PROVE SubmissionInv'
  BY <1>1, <1>2, <1>4, <1>18, PreferencesSendNothing DEF SubmissionInv, SavingPages, PageFormed
<1>19. ASSUME NEW t \in Slots, Settle(t) PROVE SubmissionInv'
  <2>1. CallsFormed' /\ StoreFormed' /\ ui' = ui /\ InUse(t, "save")
    BY <1>1, <1>19, SettleFacts
  <2>2. page \in SavingPages
    BY <2>1 DEF SubmissionInv, Unsent
  <2>3. PageFormed'
    BY <1>1, <2>1 DEF PageFormed, SalesFormed, ReturnsFormed, ExpensesFormed, BudgetsFormed, SearchSaves,
       ReceiptsFields, CatalogFields, ExpensesFields, BudgetsFields, SearchFields, SaleRows, ExpenseRows,
       ExpenseFilters, PeriodTypes
  <2> QED
    BY <1>1, <1>19, <2>1, <2>2, <2>3, SettleKeeps DEF SubmissionInv, SavingPages
<1>20. CASE UNCHANGED vars
  <2>1. UNCHANGED <<page, ui, calls, store>>
    BY <1>20 DEF vars
  <2>2. CallsFormed' /\ StoreFormed'
    BY <1>1, <2>1 DEF CallsFormed, Formed, StoreFormed
  <2>3. PageFormed'
    BY <1>1, <2>1 DEF PageFormed, SalesFormed, ReturnsFormed, ExpensesFormed, BudgetsFormed, SearchSaves,
       ReceiptsFields, CatalogFields, ExpensesFields, BudgetsFields, SearchFields, SaleRows, ExpenseRows,
       ExpenseFilters, PeriodTypes
  <2>4. Quiet /\ (Unsent => Unsent')
    BY <2>1, EditsAreQuiet DEF DraftStands, Locked, Unsent, InUse
  <2> QED
    BY <1>2, <1>3, <1>4, <2>1, <2>2, <2>3, <2>4 DEF SubmissionInv
<1> QED
  BY <1>5, <1>6, <1>7, <1>8, <1>9, <1>10, <1>11, <1>12, <1>13, <1>14, <1>15, <1>16, <1>17, <1>18,
     <1>19, <1>20, OwnSteps DEF Network

(* What was filled in once is executed once by the backend, unless an answer *)
(* was lost and the user sent it again, on every page but that of payments:  *)
(* for any number of requests under way, of drafts and of lost answers.      *)
THEOREM SubmittedOnce == WorkSpec => []SubmissionsRunOnce
<1>1. WorkInit => SubmissionInv
  BY SubmissionStarts
<1>2. SubmissionInv /\ FinancingInv /\ StockInv /\ EditorInv /\ [WorkNext]_vars => SubmissionInv'
  <2>1. page = "agreements" /\ [WorkNext]_vars => SubmissionInv'
    BY PageStays DEF SubmissionInv
  <2> QED
    BY <2>1, SubmissionSteps
<1>3. SubmissionInv => SubmissionsRunOnce
  <2> SUFFICES ASSUME SubmissionInv, page # "agreements", NEW d \in Drafts
               PROVE  store.done[d] <= 1 + store.lost[d]
    BY DEF SubmissionsRunOnce
  <2>1. CASE page \in SavingPages
    BY <2>1 DEF SubmissionInv, SavingInv, Counted, DraftsPass
  <2>2. CASE page \notin SavingPages
    BY <2>2 DEF SubmissionInv, Unwritten
  <2> QED
    BY <2>1, <2>2
<1> QED
  BY <1>1, <1>2, <1>3, FinancingAlways, StockAlways, EditorAlways, PTL DEF WorkSpec
=============================================================================
