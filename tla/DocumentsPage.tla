---------------------------- MODULE DocumentsPage ----------------------------
(***************************************************************************)
(* The documents of the shop: the receipt of a sale or a trade-in, the     *)
(* summary of a financing agreement, the receipt of stock.  Each is shown  *)
(* in a dialog, and handed over as text: copied, shared or printed.        *)
(*                                                                         *)
(* A document is known by the parts it has; its text and its preview are   *)
(* the sets of facts they state.  What was handed over last is in `handed`.*)
(* Days are told only where a warranty runs from them.                     *)
(* Dates are [y, m, d] with months counted from 0, as Date counts them.    *)
(***************************************************************************)
EXTENDS PageRuntime, FiniteSets

CONSTANTS SoldOn, WarrantyMonths

ASSUME DocumentsAssumption ==
    /\ SoldOn \subseteq [y : Nat, m : 0..11, d : 1..31]
    /\ WarrantyMonths \subseteq Nat

(* The parts a document may have. *)
SaleParts      == {"details", "warranty", "discount", "voided"}
TradeParts     == {"details", "warranty", "tradeDetails", "cashTopUp", "voided"}
AgreementParts == {"phone", "region", "details", "warranty", "upfrontCash", "tradeIn", "threshold"}

Kinds == {"sale", "trade", "agreement", "stock"}

PartsOf(kind) ==
    CASE kind = "sale" -> SaleParts
      [] kind = "trade" -> TradeParts
      [] kind = "agreement" -> AgreementParts
      [] kind = "stock" -> {}

DocumentsUi == [kind |-> None, parts |-> {}, soldOn |-> None, months |-> None, handed |-> None,
                frames |-> << >>, draft |-> 1, busy |-> FALSE, saved |-> None]

DocumentsInit == page = "documents" /\ ui = DocumentsUi /\ calls = NoCalls /\ store = NoWrites

-----------------------------------------------------------------------------
(* Calendar months. *)

Leap(y) == y % 4 = 0 /\ (y % 100 # 0 \/ y % 400 = 0)

DaysIn(y, m) ==
    IF m = 1 THEN IF Leap(y) THEN 29 ELSE 28
    ELSE IF m \in {3, 5, 8, 10} THEN 30 ELSE 31

AtMost(a, b) == IF a < b THEN a ELSE b

(* Date.setMonth: months beyond a year carry over, and so do the days a     *)
(* month does not have.                                                     *)
SetMonth(date, m) ==
    LET y    == date.y + m \div 12
        n    == m % 12
        over == date.d - DaysIn(y, n)
    IN  IF over <= 0 THEN [y |-> y, m |-> n, d |-> date.d]
        ELSE IF n = 11 THEN [y |-> y + 1, m |-> 0, d |-> over]
        ELSE [y |-> y, m |-> n + 1, d |-> over]

\* Fault: the day carries over into the next month.
AddMonthsCarrying(date, months) == SetMonth(date, date.m + months)

AddCalendarMonths(date, months) ==
    LET first == [date EXCEPT !.d = 1]
        moved == SetMonth(first, first.m + months)
    IN  [moved EXCEPT !.d = AtMost(date.d, DaysIn(moved.y, moved.m))]

-----------------------------------------------------------------------------
(* What the documents state. *)

WarrantyFacts(parts) == IF "warranty" \in parts THEN {"warranty", "validUntil"} ELSE {}

SaleFacts(kind, parts) ==
    {"receiptNumber", "date", "customer", "region", "payment", "product", "quantity"}
      \cup (parts \cap {"details"}) \cup WarrantyFacts(parts)
      \cup IF kind = "trade"
           THEN {"customerItem"} \cup (parts \cap {"tradeDetails", "cashTopUp"})
           ELSE {"amount", "totalAmount"} \cup (parts \cap {"discount"})

\* Fault: the text forgets the discount.
SaleTextUndiscounted(kind, parts) == SaleFacts(kind, parts) \ {"discount"}

SaleText(kind, parts) == SaleFacts(kind, parts)

(* The preview alone tells a voided sale. *)
SalePreview(kind, parts) == SaleFacts(kind, parts) \cup (parts \cap {"voided"})

TradeInFacts(parts) == IF "tradeIn" \in parts THEN {"tradeInItem", "tradeInCredit"} ELSE {}

AgreementText(parts) ==
    {"reference", "date", "customer", "agreementType", "transactionType", "product", "quantity",
     "contractTotal", "initialContribution", "scheduledPayment", "frequency", "nextDue"}
      \cup (parts \cap {"phone", "region", "details", "warranty", "upfrontCash", "threshold"})
      \cup TradeInFacts(parts)

(* The preview leaves the transaction type out, and shows a dash for a      *)
(* phone or a region that is not known.                                     *)
AgreementPreview(parts) ==
    {"reference", "date", "customer", "phone", "region", "agreementType", "product", "quantity",
     "contractTotal", "initialContribution", "scheduledPayment", "frequency", "nextDue"}
      \cup (parts \cap {"details", "warranty", "upfrontCash", "threshold"})
      \cup TradeInFacts(parts)

StockText    == {"status", "date", "receivedFrom", "product", "quantity", "lineTotal", "total"}
StockPreview == {"status", "date", "receivedFrom", "product", "quantity", "lineTotal", "total"}

Text(kind, parts) ==
    CASE kind \in {"sale", "trade"} -> SaleText(kind, parts)
      [] kind = "agreement" -> AgreementText(parts)
      [] kind = "stock" -> StockText

Preview(kind, parts) ==
    CASE kind \in {"sale", "trade"} -> SalePreview(kind, parts)
      [] kind = "agreement" -> AgreementPreview(parts)
      [] kind = "stock" -> StockPreview

Figures == {"amount", "discount", "totalAmount", "cashTopUp", "contractTotal",
            "initialContribution", "upfrontCash", "tradeInCredit", "scheduledPayment",
            "threshold", "lineTotal", "total", "validUntil"}

-----------------------------------------------------------------------------
(* The dialog. *)

OpenDocument(kind, parts, date, months) ==
    /\ ui.kind = None
    /\ Sets([ui EXCEPT !.kind = kind, !.parts = parts, !.soldOn = date, !.months = months])

(* The button, or Escape. *)
CloseDocument ==
    /\ ui.kind # None
    /\ Sets([ui EXCEPT !.kind = None, !.parts = {}, !.soldOn = None, !.months = None,
                       !.handed = None])

HandedOver == [ui EXCEPT !.handed = [kind |-> ui.kind, parts |-> ui.parts,
                                     text |-> Text(ui.kind, ui.parts)]]

(* The clipboard may refuse, which is not told. *)
CopyDocument == ui.kind # None /\ Sets(HandedOver)

(* The share sheet of the device, which the user may leave, or a copy. *)
ShareDocument == ui.kind # None /\ Sets(HandedOver)

(* Printing goes through a hidden frame, which two timers print and remove. *)
PrintDocument ==
    /\ ui.kind # None /\ Len(ui.frames) < MaxCalls
    /\ Sets([HandedOver EXCEPT !.frames = Append(@, "written")])

FramePrinted ==
    \E f \in DOMAIN ui.frames :
        /\ ui.frames[f] = "written" /\ \A g \in 1..(f - 1) : ui.frames[g] = "printed"
        /\ Sets([ui EXCEPT !.frames[f] = "printed"])

FrameRemoved ==
    /\ Len(ui.frames) > 0 /\ ui.frames[1] = "printed"
    /\ Sets([ui EXCEPT !.frames = Tail(@)])

DocumentsNext ==
    /\ page = "documents"
    /\ \/ CloseDocument \/ CopyDocument \/ ShareDocument \/ PrintDocument
       \/ FramePrinted \/ FrameRemoved
       \/ \E kind \in Kinds : \E parts \in SUBSET PartsOf(kind) :
              OpenDocument(kind, parts, None, None)
       \/ \E date \in SoldOn, months \in WarrantyMonths :
              OpenDocument("sale", {"warranty"}, date, months)

-----------------------------------------------------------------------------
(* Whatever is copied, shared or printed states the figures of the preview, *)
(* no more and no less, for every combination of parts of a document.       *)
HandedFiguresAreThePreview ==
    page = "documents" /\ ui.handed # None =>
        ui.handed.text \cap Figures = Preview(ui.handed.kind, ui.handed.parts) \cap Figures

(* A warranty of so many months ends that many months later, on the day of  *)
(* the sale or on the last day of a month that has no such day.             *)
WarrantyEndsInItsMonth ==
    page = "documents" /\ ui.months # None =>
        LET end == AddCalendarMonths(ui.soldOn, ui.months)
        IN  /\ end.y * 12 + end.m = ui.soldOn.y * 12 + ui.soldOn.m + ui.months
            /\ end.d \in 1..DaysIn(end.y, end.m)
            /\ end.d # ui.soldOn.d => end.d = DaysIn(end.y, end.m) /\ end.d < ui.soldOn.d
=============================================================================
