------------------------------ MODULE SalesPage ------------------------------
(***************************************************************************)
(* The sales workspace: a recorder for stock and independent sales, with   *)
(* an optional trade-in, and the history with edit and void.               *)
(*                                                                         *)
(* `lines` says whether every line of the form is complete: its product    *)
(* (still available) with the exact unit it needs and a price, or the      *)
(* fields of an independent item.  Of the history the model keeps an       *)
(* ordinary sale and one whose trade-in went into stock (read-only).       *)
(***************************************************************************)
EXTENDS PageRuntime

CONSTANTS MayVoid

ASSUME SalesAssumption == MayVoid \in BOOLEAN

SaleRows == {"plain", "traded"}

(* resetForm: an empty sale from stock. *)
SaleForm == [editing |-> None, transaction |-> "normal", mode |-> "stock",
             lines |-> FALSE, tradeIn |-> FALSE]

SalesUi == [form |-> SaleForm, draft |-> 1, busy |-> FALSE, open |-> FALSE,
            expanded |-> FALSE, saved |-> None]

SalesInit == page = "sales" /\ ui = SalesUi /\ calls = Mounted /\ store = NoWrites

ResetSale == [ui EXCEPT !.form = SaleForm, !.draft = Following(@), !.open = FALSE]

(* validate(): every line is complete, and so is a trade-in. *)
SaleValid ==
    /\ ui.form.lines
    /\ ui.form.transaction = "trade_in" => ui.form.tradeIn

-----------------------------------------------------------------------------
(* The recorder. *)

ToggleRecorder == Sets(IF ui.open THEN ResetSale ELSE [ui EXCEPT !.open = TRUE])

(* The selects on top: another transaction type forgets the trade-in,       *)
(* another source forgets the lines.                                        *)
ChooseTransaction(t) ==
    /\ ui.open
    /\ Sets([ui EXCEPT !.form.transaction = t, !.form.tradeIn = FALSE])

ChooseSaleMode(m) ==
    /\ ui.open
    /\ Sets([ui EXCEPT !.form.mode = m, !.form.lines = FALSE])

(* A product, its exact unit, the price, or the fields of an independent    *)
(* item are filled in or emptied; choosing another product clears the unit. *)
UpdateSaleLine(complete) == ui.open /\ Sets([ui EXCEPT !.form.lines = complete])

AddSaleLine == ui.open /\ Sets([ui EXCEPT !.form.lines = FALSE])

(* The incomplete line may be the one that goes. *)
RemoveSaleLine == ui.open /\ \E complete \in {ui.form.lines, TRUE} : Sets([ui EXCEPT !.form.lines = complete])

FillTradeIn(complete) ==
    /\ ui.open /\ ui.form.transaction = "trade_in"
    /\ Sets([ui EXCEPT !.form.tradeIn = complete])

SubmitSale ==
    /\ ui.open /\ ~ui.busy /\ SaleValid /\ ui.draft \in Drafts
    /\ Sends("save", ui.draft, ui.form.editing)
    /\ ui' = [ui EXCEPT !.busy = TRUE]
    /\ UNCHANGED <<page, store>>

(* createSale shows the receipt, updateSale does not; both reset the form   *)
(* and close the recorder, whatever it holds by now, and load again: busy   *)
(* stays until that load ends.                                              *)
SaleSaved(s) ==
    /\ Saved(s, IF calls[s].arg = None THEN [ResetSale EXCEPT !.saved = calls[s].draft]
                                       ELSE ResetSale)
    /\ Start(s, "reload", 0, None)

SaleNotSaved(s) == NotSaved(s, [ui EXCEPT !.busy = FALSE])

-----------------------------------------------------------------------------
(* The history. *)

(* getSales and getSalesAvailability: a chosen product may not be available *)
(* any more, or again.                                                      *)
SalesLoaded(s) ==
    \E lines \in BOOLEAN :
        /\ ui.form.mode = "independent" => lines = ui.form.lines
        /\ \/ Ends(s, "reload", [ui EXCEPT !.form.lines = lines, !.busy = FALSE])
           \/ Ends(s, "load", [ui EXCEPT !.form.lines = lines])
           \/ Ends(s, "refresh", [ui EXCEPT !.form.lines = lines])

(* beginEdit copies the sale into the form; a traded-in one is read-only. *)
BeginEdit(r) ==
    /\ r # "traded"
    /\ \E t \in {"normal", "trade_in"} :
          Sets([ui EXCEPT !.form = [editing |-> r, transaction |-> t, mode |-> "stock",
                                    lines |-> TRUE, tradeIn |-> t = "trade_in"],
                          !.draft = Following(@), !.open = TRUE])

VoidSale(r) ==
    /\ MayVoid /\ r # "traded" /\ ~UnderWay("void")
    /\ Sends("void", 0, None)
    /\ UNCHANGED <<page, ui, store>>

SaleVoided(s) ==
    /\ InUse(s, "void")
    /\ Start(s, "refresh", 0, None) \/ Finish(s)
    /\ UNCHANGED <<page, ui, store>>

ToggleSaleDetails == Sets([ui EXCEPT !.expanded = ~@])

CloseSaleReceipt == ui.saved # None /\ Sets([ui EXCEPT !.saved = None])

SalesUser ==
    \/ ToggleRecorder \/ AddSaleLine \/ SubmitSale \/ CloseSaleReceipt \/ ToggleSaleDetails
    \/ \E t \in {"normal", "trade_in"} : ChooseTransaction(t)
    \/ \E m \in {"stock", "independent"} : ChooseSaleMode(m)
    \/ RemoveSaleLine \/ \E complete \in BOOLEAN : UpdateSaleLine(complete) \/ FillTradeIn(complete)
    \/ \E r \in SaleRows : BeginEdit(r) \/ VoidSale(r)

SalesAnswered(s) == SaleSaved(s) \/ SaleNotSaved(s) \/ SalesLoaded(s) \/ SaleVoided(s)

SalesNext ==
    /\ page = "sales"
    /\ SalesUser \/ Reloads \/ \E s \in Slots : SalesAnswered(s)
=============================================================================
