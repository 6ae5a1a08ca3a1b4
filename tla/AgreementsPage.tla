--------------------------- MODULE AgreementsPage ---------------------------
(***************************************************************************)
(* The financing workspace, the list of agreements: payments are recorded  *)
(* and documents uploaded on each.  One agreement stands for the list.     *)
(*                                                                         *)
(* The payment is the draft that is sent; an amount is typed or not.       *)
(***************************************************************************)
EXTENDS PageRuntime

CONSTANTS CanRecordPayment, CanManageDocuments

ASSUME AgreementsAssumption == CanRecordPayment \in BOOLEAN /\ CanManageDocuments \in BOOLEAN

AgreementsUi == [draft |-> 1, busy |-> FALSE, saved |-> None, amount |-> FALSE,
                 document |-> None]

AgreementsInit == page = "agreements" /\ ui = AgreementsUi /\ calls = Mounted /\ store = NoWrites

AgreementsLoaded(s) == Ends(s, "load", ui) \/ Ends(s, "refresh", ui)

-----------------------------------------------------------------------------
(* Payments. *)

TypePayment(typed) == CanRecordPayment /\ Sets([ui EXCEPT !.amount = typed])

(* savePayment looks at the amount and at nothing else: the button stays    *)
(* while an earlier payment is on its way.                                  *)
SavePayment ==
    /\ CanRecordPayment /\ ui.amount /\ ui.draft \in Drafts
    /\ Sends("save", ui.draft, None)
    /\ UNCHANGED <<page, ui, store>>

PaymentSaved(s) ==
    /\ Saved(s, [ui EXCEPT !.amount = FALSE, !.draft = Following(@)])
    /\ Start(s, "refresh", 0, None)

PaymentNotSaved(s) == NotSaved(s, ui)

-----------------------------------------------------------------------------
(* Documents. *)

(* A file of an accepted size and type is kept; any other one also forgets  *)
(* the file chosen before.                                                  *)
ChooseDocument(file) == CanManageDocuments /\ Sets([ui EXCEPT !.document = file])

(* `busy` is documentUploading, under which the button is disabled. *)
SaveDocument ==
    /\ CanManageDocuments /\ ui.document # None /\ ~ui.busy
    /\ Sends("document", 0, None)
    /\ ui' = [ui EXCEPT !.busy = TRUE]
    /\ UNCHANGED <<page, store>>

DocumentSaved(s) ==
    /\ InUse(s, "document")
    /\ ui' = [ui EXCEPT !.document = None]
    /\ Start(s, "listed", 0, None)
    /\ UNCHANGED <<page, store>>

DocumentEnds(s) ==
    \E op \in {"document", "listed"} : Ends(s, op, [ui EXCEPT !.busy = FALSE])

AgreementsUser ==
    \/ SavePayment \/ SaveDocument
    \/ \E typed \in BOOLEAN : TypePayment(typed)
    \/ \E file \in {None, "file"} : ChooseDocument(file)

AgreementsAnswered(s) ==
    \/ AgreementsLoaded(s) \/ PaymentSaved(s) \/ PaymentNotSaved(s)
    \/ DocumentSaved(s) \/ DocumentEnds(s)

AgreementsNext ==
    /\ page = "agreements"
    /\ AgreementsUser \/ Reloads \/ \E s \in Slots : AgreementsAnswered(s)
=============================================================================
