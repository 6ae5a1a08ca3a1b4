---------------------------- MODULE FinancingPage ----------------------------
(***************************************************************************)
(* The financing workspace, the five-step recorder of agreements (the list *)
(* of agreements below it is AgreementsPage).                              *)
(*                                                                         *)
(* Each step is complete or not: the customer, the product lines (all of   *)
(* them typed, and for stock still available), the terms, of which an      *)
(* upfront payment, a trade-in or a partner asks for more.                 *)
(***************************************************************************)
EXTENDS PageRuntime

CONSTANTS CanRecord

ASSUME FinancingAssumption == CanRecord \in BOOLEAN

(* setup, customer, products, terms, review *)
Review == 4

(* extra: the upfront cash, the traded-in item or the partner's figures. *)
AgreementForm == [customer |-> FALSE, stock |-> TRUE, lines |-> FALSE,
                  asksMore |-> FALSE, terms |-> {}]

AgreementRow == [customer : BOOLEAN, stock : BOOLEAN, lines : BOOLEAN, asksMore : BOOLEAN,
                 terms : SUBSET {"terms", "extra"}]

FinancingUi == [form |-> AgreementForm, step |-> 0, draft |-> 1, busy |-> FALSE,
                open |-> FALSE, available |-> TRUE, saved |-> None]

FinancingInit == page = "financing" /\ ui = FinancingUi /\ calls = Mounted /\ store = NoWrites

ResetAgreement == [ui EXCEPT !.form = AgreementForm, !.step = 0, !.open = FALSE,
                             !.draft = Following(@)]

TermsTyped(form) == "terms" \in form.terms /\ (form.asksMore => "extra" \in form.terms)

StepValid ==
    CASE ui.step = 1 -> ui.form.customer
      [] ui.step = 2 -> ui.form.lines /\ (ui.form.stock => ui.available)
      [] ui.step = 3 -> TermsTyped(ui.form)
      [] OTHER -> TRUE

-----------------------------------------------------------------------------
(* The recorder, which is offered to who may record. *)

ToggleAgreementRecorder ==
    /\ CanRecord
    /\ Sets(IF ui.open THEN ResetAgreement ELSE [ui EXCEPT !.open = TRUE])

\* Fault: every step is a link.
GoAnywhere(k) == ui.open /\ Sets([ui EXCEPT !.step = k])

(* The steps up to the current one are links; a later one is reached only   *)
(* through the steps between.                                               *)
GoToStep(k) == ui.open /\ k <= ui.step /\ Sets([ui EXCEPT !.step = k])

(* Step 0: another source forgets the lines; the transaction type and the   *)
(* financing mode decide what the terms must hold.                          *)
SetUp(stock, asksMore) ==
    /\ ui.open /\ ui.step = 0
    /\ Sets([ui EXCEPT !.form.stock = stock, !.form.asksMore = asksMore,
                       !.form.lines = IF stock = ui.form.stock THEN @ ELSE FALSE])

TypeCustomer(complete) == ui.open /\ ui.step = 1 /\ Sets([ui EXCEPT !.form.customer = complete])

UpdateFinancingLine(complete) == ui.open /\ ui.step = 2 /\ Sets([ui EXCEPT !.form.lines = complete])

AddFinancingLine == ui.open /\ ui.step = 2 /\ Sets([ui EXCEPT !.form.lines = FALSE])

(* The incomplete line may be the one that goes. *)
RemoveFinancingLine ==
    /\ ui.open /\ ui.step = 2
    /\ \E complete \in {ui.form.lines, TRUE} : Sets([ui EXCEPT !.form.lines = complete])

(* The fields of the extra terms are on screen only when they are asked for. *)
TypeTerms(typed) ==
    /\ ui.open /\ ui.step = 3
    /\ ui.form.asksMore \/ "extra" \in typed <=> "extra" \in ui.form.terms
    /\ Sets([ui EXCEPT !.form.terms = typed])

NextStep ==
    /\ ui.open /\ ui.step < Review /\ StepValid
    /\ Sets([ui EXCEPT !.step = @ + 1])

SubmitAgreement ==
    /\ CanRecord /\ ui.open /\ ui.step = Review /\ StepValid /\ ~ui.busy /\ ui.draft \in Drafts
    /\ Sends("save", ui.draft, ui.form)
    /\ ui' = [ui EXCEPT !.busy = TRUE]
    /\ UNCHANGED <<page, store>>

(* The summary is shown and the recorder closed, whatever it holds by now.  *)
AgreementSaved(s) ==
    /\ Saved(s, [ResetAgreement EXCEPT !.saved = calls[s].draft])
    /\ Start(s, "reload", 0, None)

AgreementNotSaved(s) == NotSaved(s, [ui EXCEPT !.busy = FALSE])

(* Agreements and availability: chosen products may be gone, or back. *)
FinancingLoaded(s) ==
    \E available \in BOOLEAN :
        \/ Ends(s, "load", [ui EXCEPT !.available = available])
        \/ Ends(s, "reload", [ui EXCEPT !.available = available, !.busy = FALSE])

CloseSummary == ui.saved # None /\ Sets([ui EXCEPT !.saved = None])

FinancingUser ==
    \/ ToggleAgreementRecorder \/ AddFinancingLine \/ NextStep \/ SubmitAgreement \/ CloseSummary
    \/ \E k \in 0..Review : GoToStep(k)
    \/ RemoveFinancingLine \/ \E stock, asksMore \in BOOLEAN : SetUp(stock, asksMore)
    \/ \E complete \in BOOLEAN : TypeCustomer(complete) \/ UpdateFinancingLine(complete)
    \/ \E typed \in SUBSET {"terms", "extra"} : TypeTerms(typed)

FinancingAnswered(s) == AgreementSaved(s) \/ AgreementNotSaved(s) \/ FinancingLoaded(s)

FinancingNext ==
    /\ page = "financing"
    /\ FinancingUser \/ Reloads \/ \E s \in Slots : FinancingAnswered(s)

-----------------------------------------------------------------------------
(* Only the step on screen is validated, and going back opens every earlier *)
(* one again: still, whatever was left behind stays complete, and so is     *)
(* every agreement that is sent.                                            *)
StepsLeftBehindHold(form, step) ==
    /\ step > 1 => form.customer
    /\ step > 2 => form.lines
    /\ step > 3 => TermsTyped(form)

ReviewedStepsHold ==
    page = "financing" =>
        /\ StepsLeftBehindHold(ui.form, ui.step)
        /\ \A s \in Slots : InUse(s, "save") => StepsLeftBehindHold(calls[s].arg, Review)
=============================================================================
