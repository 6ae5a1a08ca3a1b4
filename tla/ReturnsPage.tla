----------------------------- MODULE ReturnsPage -----------------------------
(***************************************************************************)
(* The returns workspace: find a sale by date or receipt number, choose    *)
(* the items and how the customer is made whole, record the return.        *)
(*                                                                         *)
(* One sale with one line of MaxReturn pieces at price 1 stands for the    *)
(* sales found.  `quantity` is what is typed to go back, `refund` the      *)
(* typed amount (None when empty); a replacement is complete or not.       *)
(***************************************************************************)
EXTENDS PageRuntime

CONSTANTS MaxReturn

ASSUME ReturnsAssumption == MaxReturn \in Nat \ {0}

Resolutions == {"refund", "replacement", "credit"}

ReturnForm == [chosen |-> FALSE, quantity |-> 0, resolution |-> "refund", refund |-> None,
               source |-> "stock", replacement |-> FALSE]

ReturnsUi == [form |-> ReturnForm, draft |-> 1, busy |-> FALSE, found |-> FALSE,
              searching |-> FALSE, saved |-> None]

ReturnsInit == page = "returns" /\ ui = ReturnsUi /\ calls = Mounted /\ store = NoWrites

(* What the chosen items come to; the price of a piece is 1. *)
RefundableValue == ui.form.quantity

RefundValid == ui.form.resolution = "refund" => ui.form.refund # None /\ ui.form.refund <= RefundableValue

ReplacementValid == ui.form.resolution = "replacement" => ui.form.replacement

-----------------------------------------------------------------------------
(* Finding the sale. *)

(* searchSales: by date, or by a receipt number; drops the choice at once. *)
SearchSales ==
    /\ ~ui.searching
    /\ Sends("search", 0, None)
    /\ ui' = [ui EXCEPT !.searching = TRUE, !.form.chosen = FALSE, !.form.quantity = 0]
    /\ UNCHANGED <<page, store>>

SalesFound(s) ==
    \/ Ends(s, "search", [ui EXCEPT !.searching = FALSE])
    \/ Ends(s, "search", [ui EXCEPT !.searching = FALSE, !.found = TRUE])

(* A sale of which nothing is left to return cannot be chosen. *)
ChooseSale ==
    /\ ui.found
    /\ Sets([ui EXCEPT !.saved = None, !.form.chosen = TRUE, !.form.refund = None,
                       !.form.quantity = 0])

(* The list of returns is part of loadContext; it is drawn as it comes. *)
ReturnsLoaded(s) == Ends(s, "load", ui)

-----------------------------------------------------------------------------
(* Filling in the return. *)

(* The quantity of a line stays within what is left of it (max of the input). *)
TypeQuantity(q) == ui.form.chosen /\ Sets([ui EXCEPT !.form.quantity = q])

(* Another resolution forgets the replacement, and the refund of a refund. *)
ChooseResolution(r) ==
    /\ ui.form.chosen
    /\ Sets([ui EXCEPT !.form.resolution = r,
                       !.form.source = IF r = "replacement" THEN @ ELSE "stock",
                       !.form.replacement = @ /\ r = "replacement",
                       !.form.refund = IF r = "refund" THEN @ ELSE None])

TypeRefund(amount) ==
    /\ ui.form.chosen /\ ui.form.resolution = "refund"
    /\ Sets([ui EXCEPT !.form.refund = amount])

UseFullRefund ==
    /\ ui.form.chosen /\ ui.form.resolution = "refund" /\ RefundableValue > 0
    /\ Sets([ui EXCEPT !.form.refund = RefundableValue])

ChooseSource(source) ==
    /\ ui.form.chosen /\ ui.form.resolution = "replacement"
    /\ Sets([ui EXCEPT !.form.source = source, !.form.replacement = FALSE])

(* From stock: a product, its unit or a quantity it has.  *)
StockReplacement(complete) ==
    /\ ui.form.chosen /\ ui.form.resolution = "replacement" /\ ui.form.source = "stock"
    /\ Sets([ui EXCEPT !.form.replacement = complete])

(* Bought elsewhere: where, what and its cost; an identifier is one piece. *)
IndependentReplacement(complete) ==
    /\ ui.form.chosen /\ ui.form.resolution = "replacement" /\ ui.form.source = "independent"
    /\ Sets([ui EXCEPT !.form.replacement = complete])

ChooseAnotherReceipt ==
    /\ ui.form.chosen
    /\ Sets([ui EXCEPT !.form.chosen = FALSE, !.form.quantity = 0, !.form.refund = None])

-----------------------------------------------------------------------------
(* Recording it. *)

SubmitReturn ==
    /\ ui.form.chosen /\ ~ui.busy /\ ui.draft \in Drafts
    /\ ui.form.quantity > 0 /\ RefundValid /\ ReplacementValid
    /\ Sends("save", ui.draft, [quantity |-> ui.form.quantity, refund |-> ui.form.refund])
    /\ ui' = [ui EXCEPT !.busy = TRUE]
    /\ UNCHANGED <<page, store>>

\* Fault: the form is kept.
ReturnSavedKeepsForm(s) ==
    /\ Saved(s, [ui EXCEPT !.saved = calls[s].draft, !.searching = TRUE])
    /\ Start(s, "reload", 0, None)

(* The receipt is shown, the form forgets everything, whatever was chosen    *)
(* since; the last search and the context are read again before busy ends.   *)
ReturnSaved(s) ==
    /\ Saved(s, [ui EXCEPT !.form = ReturnForm, !.draft = Following(@),
                           !.saved = calls[s].draft, !.searching = TRUE])
    /\ Start(s, "reload", 0, None)

\* Fault: the button is not given back after an error.
ReturnNotSavedStaysBusy(s) == NotSaved(s, ui)

ReturnNotSaved(s) == NotSaved(s, [ui EXCEPT !.busy = FALSE])

ReturnsReloaded(s) == Ends(s, "reload", [ui EXCEPT !.busy = FALSE, !.searching = FALSE])

ReturnsUser ==
    \/ SearchSales \/ ChooseSale \/ UseFullRefund \/ ChooseAnotherReceipt \/ SubmitReturn
    \/ \E q \in 0..MaxReturn : TypeQuantity(q)
    \/ \E r \in Resolutions : ChooseResolution(r)
    \/ \E amount \in 0..MaxReturn \cup {None} : TypeRefund(amount)
    \/ \E source \in {"stock", "independent"} : ChooseSource(source)
    \/ \E complete \in BOOLEAN : StockReplacement(complete) \/ IndependentReplacement(complete)

ReturnsAnswered(s) ==
    ReturnSaved(s) \/ ReturnNotSaved(s) \/ ReturnsReloaded(s) \/ ReturnsLoaded(s) \/ SalesFound(s)

ReturnsNext ==
    /\ page = "returns"
    /\ ReturnsUser \/ Reloads \/ \E s \in Slots : ReturnsAnswered(s)
=============================================================================
