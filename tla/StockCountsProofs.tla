------------------------- MODULE StockCountsProofs -------------------------
(***************************************************************************)
(* What the quantities of StockLedger add up to, and where its units are,  *)
(* for every catalog, every number of batches, units, sales and            *)
(* agreements, and every bound.  The counts are sums over the rows of a    *)
(* table; SumTheorems says how a sum changes when some of its rows do.     *)
(*                                                                         *)
(* The inductive invariants.  RowsInv comes first, the three others add to *)
(* it, and the last adds to HolderInv:                                     *)
(*   RowsInv     the rows that must agree do, and lines are allocated      *)
(*               in full (AllocationsMatchLines);                          *)
(*   LedgerInv   what left each batch and what each product has on hand    *)
(*               balance;                                                  *)
(*   ReturnsInv  what a sale gave back is within what it took from each    *)
(*               batch, whatever order its returns came in;                *)
(*   HolderInv   a unit has one holder at most, and is sold if it has one; *)
(*   SerialInv   a line counts its units, its remainder the available.     *)
(* The last two speak of histories without a return on a voided sale.      *)
(***************************************************************************)
EXTENDS StockLedgerProofs, SumTheorems

\* Quantities per batch are natural numbers.
LEMMA QuantitiesAreNat ==
    ASSUME NEW f \in [Batches -> Quantities]
    PROVE  f \in [Batches -> Nat] /\ \A b \in Batches : f[b] \in Nat
<1>1. Quantities \subseteq Nat
  BY StockConstants DEF Quantities
<1> QED
  BY <1>1

-----------------------------------------------------------------------------
(* What each step does to the rows, one field at a time *)

\* n pieces of p enter batch b, with the movement that says so.
BatchGrows(b, p, n) ==
    /\ batch'[b].product = p
    /\ batch'[b].remaining = batch[b].remaining + n
    /\ batchMoves'[b] = batchMoves[b] + n
    /\ \A q \in Products :
          product'[q].qty = product[q].qty + (IF q = p THEN n ELSE 0)
    /\ batch'[b].status = "received" =>
          batch'[b].received = n + (IF batch[b].status = "received"
                                    THEN batch[b].received ELSE 0)

\* A line gets its product when it is created and keeps it; a received line stays
\* received and keeps its place in the order of batches.
LineStep(b) ==
    \/ /\ batch[b].status = "absent" /\ batch'[b].status \in {"draft", "received"}
       /\ batch'[b].product \in Products
    \/ /\ batch[b].status = "draft" /\ batch'[b].status # "absent"
       /\ batch'[b].product = batch[b].product
    \/ /\ batch'[b].status = batch[b].status
       /\ batch'[b].product = batch[b].product
       /\ batch'[b].at = batch[b].at

\* A new receipt line enters its quantity, or none while it is a draft.
LEMMA CreateReceiptRows ==
    ASSUME DraftInv, NEW b \in Batches, CreateReceipt(b)
    PROVE  LineStep(b) /\ \E n \in Int : BatchGrows(b, batch'[b].product, n)
<1> USE DEF DraftInv
<1>1. PICK p \in Products, n \in 1 .. MaxQuantity, t \in Times,
           status \in {"draft", "received"}, us \in SUBSET FreshUnits :
        /\ FreshBatch(b)
        /\ product[p].active
        /\ Mode[p] = "individual" =>
              /\ Cardinality(us) <= n
              /\ status = "received" => Cardinality(us) = n
        /\ batch' = [batch EXCEPT ![b] = NewLine(p, n, status, t, TRUE)]
        /\ unit' = Shelve(us, b)
        /\ IF status = "received"
           THEN /\ product' = [product EXCEPT ![p].qty = @ + n]
                /\ batchMoves' = [batchMoves EXCEPT ![b] = n]
           ELSE UNCHANGED <<product, batchMoves>>
        /\ UNCHANGED <<sale, financing, replacement, looseMoves, saleMoves,
                       returnMoves>>
  BY DEF CreateReceipt
<1>2. /\ batch[b].status = "absent" /\ batch[b].remaining = 0 /\ batchMoves[b] = 0
  BY <1>1 DEF FreshBatch, DraftsHoldNoStock
<1>3. batch'[b] = NewLine(p, n, status, t, TRUE)
  BY <1>1 DEF TypeOK
<1>4. n \in Int /\ \A q \in Products : product[q].qty \in Nat
  BY StockConstants DEF TypeOK, ProductRow
<1>5. LineStep(b)
  BY <1>2, <1>3 DEF LineStep, NewLine
<1>6. CASE status = "received"
  <2>1. /\ product' = [product EXCEPT ![p].qty = @ + n]
        /\ batchMoves' = [batchMoves EXCEPT ![b] = n]
    BY <1>1, <1>6
  <2>2. \A q \in Products :
          product'[q].qty = product[q].qty + (IF q = p THEN n ELSE 0)
    BY <1>4, <2>1 DEF TypeOK, ProductRow
  <2>3. BatchGrows(b, p, n)
    BY <1>2, <1>3, <1>4, <1>6, <2>1, <2>2 DEF BatchGrows, NewLine, TypeOK
  <2> QED
    BY <1>4, <1>5, <2>3 DEF BatchGrows
<1>7. CASE status # "received"
  <2>1. BatchGrows(b, p, 0)
    BY <1>1, <1>2, <1>3, <1>4, <1>7 DEF BatchGrows, NewLine, TypeOK
  <2> QED
    BY <1>5, <2>1 DEF BatchGrows
<1> QED
  BY <1>6, <1>7

\* Stock received without a receipt enters the batch, the product and the movements.
LEMMA ReceiveStockRows ==
    ASSUME DraftInv, NEW b \in Batches, ReceiveStock(b)
    PROVE  LineStep(b) /\ \E n \in Int : BatchGrows(b, batch'[b].product, n)
<1> USE DEF DraftInv
<1>1. PICK p \in Products, n \in 1 .. MaxQuantity, t \in Times :
        /\ FreshBatch(b)
        /\ batch' = [batch EXCEPT ![b] = NewLine(p, n, "received", t, FALSE)]
        /\ product' = [product EXCEPT ![p].qty = @ + n]
        /\ batchMoves' = [batchMoves EXCEPT ![b] = n]
  BY DEF ReceiveStock
<1>2. /\ batch[b].status = "absent" /\ batch[b].remaining = 0 /\ batchMoves[b] = 0
  BY <1>1 DEF FreshBatch, DraftsHoldNoStock
<1>3. batch'[b] = NewLine(p, n, "received", t, FALSE)
  BY <1>1 DEF TypeOK
<1>4. n \in Int /\ \A q \in Products : product[q].qty \in Nat
  BY StockConstants DEF TypeOK, ProductRow
<1>5. LineStep(b)
  BY <1>2, <1>3 DEF LineStep, NewLine
<1>6. \A q \in Products :
        product'[q].qty = product[q].qty + (IF q = p THEN n ELSE 0)
  BY <1>1, <1>4 DEF TypeOK, ProductRow
<1>7. BatchGrows(b, p, n)
  BY <1>1, <1>2, <1>3, <1>4, <1>6 DEF BatchGrows, NewLine, TypeOK
<1> QED
  BY <1>4, <1>5, <1>7 DEF BatchGrows

\* Receiving a draft enters its quantity once, for the product it was drafted for.
LEMMA ReceiveDraftRows ==
    ASSUME DraftInv, NEW b \in Batches, ReceiveDraft(b)
    PROVE  LineStep(b) /\ \E n \in Int : BatchGrows(b, batch'[b].product, n)
<1> USE DEF DraftInv
<1> DEFINE row == batch[b]
           p == row.product
           n == row.received
<1>1. PICK t \in Times :
        /\ row.status = "draft"
        /\ batch' = [batch EXCEPT ![b] =
              [row EXCEPT !.status = "received", !.remaining = n, !.at = t]]
        /\ product' = [product EXCEPT ![p].qty = @ + n]
        /\ batchMoves' = [batchMoves EXCEPT ![b] = @ + n]
  BY DEF ReceiveDraft
<1>2. row \in BatchRow /\ row.remaining = 0 /\ batchMoves[b] = 0
  BY <1>1 DEF DraftsHoldNoStock, TypeOK
<1>3. batch'[b] = [row EXCEPT !.status = "received", !.remaining = n, !.at = t]
  BY <1>1 DEF TypeOK
<1>4. /\ batch'[b].status = "received" /\ batch'[b].product = p
      /\ batch'[b].remaining = n /\ batch'[b].received = n
  <2> HIDE DEF row
  <2> QED
    BY <1>2, <1>3 DEF BatchRow
<1>5. n \in Int /\ \A q \in Products : product[q].qty \in Nat
  BY <1>2 DEF TypeOK, ProductRow, BatchRow
<1>6. batchMoves'[b] = n
  BY <1>1, <1>2, <1>5 DEF TypeOK
<1> HIDE DEF n
<1>7. \A q \in Products :
        product'[q].qty = product[q].qty + (IF q = p THEN n ELSE 0)
  BY <1>1, <1>5 DEF TypeOK, ProductRow
<1>8. BatchGrows(b, p, n)
  BY <1>1, <1>2, <1>4, <1>5, <1>6, <1>7 DEF BatchGrows
<1>9. LineStep(b)
  BY <1>1, <1>4 DEF LineStep
<1> QED
  BY <1>4, <1>5, <1>8, <1>9

\* Archiving a draft and the end of a correction window move no stock.
LEMMA QuietRows ==
    ASSUME DraftInv, NEW b \in Batches, ArchiveDraft(b) \/ CloseWindow(b)
    PROVE  LineStep(b) /\ \E n \in Int : BatchGrows(b, batch'[b].product, n)
<1> USE DEF DraftInv
<1> DEFINE row == batch[b]
<1>1. row \in BatchRow /\ product' = product /\ batchMoves' = batchMoves
  BY DEF ArchiveDraft, CloseWindow, moves, TypeOK
<1>2. \/ row.status = "draft" /\ batch'[b] = [row EXCEPT !.status = "archived"]
      \/ batch'[b] = [row EXCEPT !.window = FALSE]
  BY DEF ArchiveDraft, CloseWindow, TypeOK
<1>3. /\ batch'[b].product = row.product /\ batch'[b].remaining = row.remaining
      /\ batch'[b].received = row.received /\ batch'[b].at = row.at
      /\ \/ row.status = "draft" /\ batch'[b].status = "archived"
         \/ batch'[b].status = row.status
  <2> HIDE DEF row
  <2> QED
    BY <1>1, <1>2 DEF BatchRow
<1>4. row.remaining \in Int /\ row.received \in Int /\ batchMoves[b] \in Int
  BY <1>1 DEF BatchRow, TypeOK
<1>5. \A q \in Products : product[q].qty \in Int
  BY DEF TypeOK, ProductRow
<1>6. BatchGrows(b, row.product, 0)
  BY <1>1, <1>3, <1>4, <1>5 DEF BatchGrows
<1>7. LineStep(b)
  BY <1>3 DEF LineStep
<1> QED
  BY <1>3, <1>6, <1>7

\* A correction changes the batch, the product and the movements by one amount.
LEMMA CorrectStockRows ==
    ASSUME DraftInv, NEW b \in Batches, CorrectStock(b)
    PROVE  LineStep(b) /\ \E n \in Int : BatchGrows(b, batch'[b].product, n)
<1> USE DEF DraftInv
<1> DEFINE row == batch[b]
           p == row.product
<1>1. PICK n \in 1 .. MaxQuantity :
        /\ Editable(b)
        /\ IF row.status = "received"
           THEN /\ batch' = [batch EXCEPT ![b] =
                      [row EXCEPT !.received = n,
                                  !.remaining = row.remaining + (n - row.received)]]
                /\ product' = [product EXCEPT ![p].qty = @ + (n - row.received)]
                /\ batchMoves' = [batchMoves EXCEPT ![b] = @ + (n - row.received)]
           ELSE /\ batch' = [batch EXCEPT ![b] =
                      [row EXCEPT !.received = n, !.remaining = 0]]
                /\ UNCHANGED <<product, batchMoves>>
  BY DEF CorrectStock
<1>2. /\ row \in BatchRow /\ n \in Int /\ row.remaining \in Int
      /\ row.received \in Int /\ batchMoves[b] \in Int
      /\ \A q \in Products : product[q].qty \in Int
  BY StockConstants DEF TypeOK, BatchRow, ProductRow
<1> DEFINE delta == n - row.received
<1>3. CASE row.status = "received"
  <2>1. /\ batch'[b] = [row EXCEPT !.received = n, !.remaining = row.remaining + delta]
        /\ product' = [product EXCEPT ![p].qty = @ + delta]
        /\ batchMoves' = [batchMoves EXCEPT ![b] = @ + delta]
    BY <1>1, <1>3 DEF TypeOK
  <2>2. delta \in Int /\ n = delta + row.received
    BY <1>2
  <2> HIDE DEF delta
  <2>3. \A q \in Products :
          product'[q].qty = product[q].qty + (IF q = p THEN delta ELSE 0)
    BY <1>2, <2>1, <2>2 DEF TypeOK, ProductRow
  <2>4. batchMoves'[b] = batchMoves[b] + delta
    BY <2>1 DEF TypeOK
  <2> HIDE DEF row, p
  <2>5. /\ batch'[b].product = row.product /\ batch'[b].status = row.status
        /\ batch'[b].remaining = row.remaining + delta
        /\ batch'[b].received = n /\ batch'[b].at = row.at
    BY <1>2, <2>1 DEF BatchRow
  <2>6. LineStep(b) /\ BatchGrows(b, p, delta)
    BY <1>3, <2>2, <2>3, <2>4, <2>5 DEF LineStep, BatchGrows, row, p
  <2> QED
    BY <2>2, <2>5, <2>6 DEF p
<1>4. CASE row.status # "received"
  <2>1. /\ batch'[b] = [row EXCEPT !.received = n, !.remaining = 0]
        /\ product' = product /\ batchMoves' = batchMoves
    BY <1>1, <1>4 DEF TypeOK
  <2>2. row.status = "draft" /\ row.remaining = 0
    BY <1>1, <1>4 DEF Editable, DraftsHoldNoStock
  <2> HIDE DEF row
  <2>3. /\ batch'[b].product = row.product /\ batch'[b].status = row.status
        /\ batch'[b].remaining = 0 /\ batch'[b].at = row.at
    BY <1>2, <2>1 DEF BatchRow
  <2>4. LineStep(b) /\ BatchGrows(b, row.product, 0)
    BY <1>2, <2>1, <2>2, <2>3 DEF LineStep, BatchGrows, row
  <2> QED
    BY <2>3, <2>4
<1> QED
  BY <1>3, <1>4

Receiving(b) ==
    \/ CreateReceipt(b) \/ ReceiveStock(b) \/ ReceiveDraft(b)
    \/ ArchiveDraft(b) \/ CloseWindow(b) \/ CorrectStock(b)

\* Whatever happens to a line on the receiving side, one batch moves and no sale does.
LEMMA ReceivingRows ==
    ASSUME DraftInv, NEW b \in Batches, Receiving(b)
    PROVE  /\ UNCHANGED <<sale, financing, replacement, looseMoves, saleMoves,
                          returnMoves>>
           /\ \A c \in Batches \ {b} : /\ batch'[c] = batch[c]
                                       /\ batchMoves'[c] = batchMoves[c]
           /\ LineStep(b)
           /\ \E n \in Int : BatchGrows(b, batch'[b].product, n)
<1>1. UNCHANGED <<sale, financing, replacement, looseMoves, saleMoves, returnMoves>>
  BY DEF Receiving, CreateReceipt, ReceiveStock, ReceiveDraft, ArchiveDraft,
         CloseWindow, CorrectStock, moves
<1>2. \A c \in Batches \ {b} : /\ batch'[c] = batch[c]
                               /\ batchMoves'[c] = batchMoves[c]
  BY ZenonT(40) DEF Receiving, CreateReceipt, ReceiveStock, ReceiveDraft, ArchiveDraft,
         CloseWindow, CorrectStock, moves, DraftInv, TypeOK
<1>3. LineStep(b) /\ \E n \in Int : BatchGrows(b, batch'[b].product, n)
  BY CreateReceiptRows, ReceiveStockRows, ReceiveDraftRows, QuietRows,
     CorrectStockRows DEF Receiving
<1> QED
  BY <1>1, <1>2, <1>3

LineKept(b) ==
    /\ batch'[b].status = batch[b].status /\ batch'[b].product = batch[b].product
    /\ batch'[b].received = batch[b].received /\ batch'[b].at = batch[b].at

\* Every other sale keeps its rows.
OthersKept(s) == \A o \in Sales \ {s} :
    sale'[o] = sale[o] /\ saleMoves'[o] = saleMoves[o]

\* Setting the remainders of the batches leaves their other columns alone.
LEMMA RemainingOnly ==
    ASSUME TypeOK, NEW b \in Batches, NEW n,
           batch'[b] = [batch[b] EXCEPT !.remaining = n]
    PROVE  LineKept(b) /\ batch'[b].remaining = n
<1>1. batch[b] \in BatchRow
  BY DEF TypeOK
<1> QED
  BY <1>1 DEF BatchRow, LineKept

\* The line a trade-in adds.
TradeInLine(trade) ==
    /\ trade.batch \in Batches => /\ batch[trade.batch].status = "absent"
                                  /\ batch'[trade.batch].status = "received"
                                  /\ batch'[trade.batch].product = trade.product
                                  /\ batch'[trade.batch].received = 1
                                  /\ batch'[trade.batch].remaining = 1
                                  /\ batchMoves'[trade.batch] = 1
                                  /\ trade.product \in Products
    /\ trade.batch \notin Batches => trade = NoTradeIn /\ trade.product \notin Products

\* The row of a sale that was recorded or edited.
WrittenRow(order, take, trade) ==
    [status |-> "active", quantity |-> order.quantity,
     returned |-> [i \in Lines |-> 0], unit |-> order.unit,
     alloc |-> take, tradedIn |-> trade # NoTradeIn, returns |-> FALSE]

\* Recording or editing a sale puts back what it had, takes what it needs, and
\* rewrites no other sale.
LEMMA WriteSaleRows ==
    ASSUME DraftInv, NEW s \in Sales, NEW order \in Orders,
           NEW take \in [Batches -> Quantities], NEW trade \in TradeIns,
           WriteSale(s, order, take, trade)
    PROVE  /\ Fills(order, RestoredBatch(s), RestoredUnit(s), take, {"individual"})
           /\ sale'[s] = WrittenRow(order, take, trade)
           /\ OthersKept(s) /\ saleMoves'[s] = take
           /\ \A b \in Batches \ {trade.batch} :
                 /\ LineKept(b) /\ batchMoves'[b] = batchMoves[b]
                 /\ batch'[b].remaining = batch[b].remaining + sale[s].alloc[b] - take[b]
           /\ TradeInLine(trade)
           /\ \A p \in Products : product'[p].qty =
                 product[p].qty + sale[s].quantity[p] - order.quantity[p]
                 + (IF p = trade.product THEN 1 ELSE 0)
           /\ UNCHANGED <<financing, replacement, looseMoves, returnMoves>>
<1> USE DEF DraftInv
<1> DEFINE have == RestoredBatch(s)
           stock == RestoredProduct(s)
<1>1. /\ Fills(order, have, RestoredUnit(s), take, {"individual"})
      /\ sale' = [sale EXCEPT ![s] = WrittenRow(order, take, trade)]
      /\ batch' = [b \in Batches |->
           IF b = trade.batch
           THEN NewLine(trade.product, 1, "received", trade.at, TRUE)
           ELSE [batch[b] EXCEPT !.remaining = have[b] - take[b]]]
      /\ product' = [p \in Products |->
           [product[p] EXCEPT !.qty = stock[p] - order.quantity[p]
                                      + (IF p = trade.product THEN 1 ELSE 0)]]
      /\ batchMoves' = [b \in Batches |->
           IF b = trade.batch THEN 1 ELSE batchMoves[b]]
      /\ saleMoves' = [saleMoves EXCEPT ![s] = take]
      /\ UNCHANGED <<financing, replacement, looseMoves, returnMoves>>
  BY DEF WriteSale, WrittenRow
<1>2. OthersKept(s) /\ saleMoves'[s] = take
      /\ sale'[s] = WrittenRow(order, take, trade)
  BY <1>1 DEF TypeOK, OthersKept
<1>3. ASSUME NEW b \in Batches \ {trade.batch}
      PROVE  /\ LineKept(b) /\ batchMoves'[b] = batchMoves[b]
             /\ batch'[b].remaining = batch[b].remaining + sale[s].alloc[b] - take[b]
  <2>1. batch'[b] = [batch[b] EXCEPT !.remaining = have[b] - take[b]]
    BY <1>1
  <2>2. LineKept(b) /\ batch'[b].remaining = have[b] - take[b]
    <3> HIDE DEF have
    <3> QED
      BY <2>1, RemainingOnly
  <2>3. have[b] = batch[b].remaining + sale[s].alloc[b]
    BY DEF RestoredBatch
  <2>4. batchMoves'[b] = batchMoves[b]
    BY <1>1
  <2>5. /\ batch[b].remaining \in Int /\ sale[s].alloc[b] \in Int
        /\ take[b] \in Int
    BY StockConstants DEF TypeOK, BatchRow, SaleRow, Quantities
  <2> HIDE DEF have
  <2> QED
    BY <2>2, <2>3, <2>4, <2>5
<1>4. TradeInLine(trade)
  <2>1. CASE trade = NoTradeIn
    BY <2>1, StockConstants DEF NoTradeIn, TradeInLine
  <2>2. CASE trade # NoTradeIn
    <3>1. /\ trade.batch \in Batches /\ batch[trade.batch].status = "absent"
          /\ trade.product \in Products
      BY <2>2, StockConstants DEF TradeIns, FreshBatch
    <3> QED
      BY <1>1, <3>1 DEF TradeInLine, NewLine
  <2> QED
    BY <2>1, <2>2
<1>5. ASSUME NEW p \in Products
      PROVE  product'[p].qty = product[p].qty + sale[s].quantity[p] - order.quantity[p]
                               + (IF p = trade.product THEN 1 ELSE 0)
  <2>1. product[p] \in ProductRow
    BY DEF TypeOK
  <2>2. product'[p].qty = stock[p] - order.quantity[p]
                          + (IF p = trade.product THEN 1 ELSE 0)
    <3> HIDE DEF stock
    <3> QED
      BY <1>1, <2>1 DEF ProductRow
  <2>3. stock[p] = product[p].qty + sale[s].quantity[p]
    BY DEF RestoredProduct
  <2>4. /\ product[p].qty \in Int /\ sale[s].quantity[p] \in Int
        /\ order.quantity[p] \in Int
    BY <2>1, StockConstants
       DEF TypeOK, ProductRow, SaleRow, Quantities, Lines, Orders
  <2> HIDE DEF stock
  <2> QED
    BY <2>2, <2>3, <2>4
<1> QED
  BY <1>1, <1>2, <1>3, <1>4, <1>5

\* A void, of a sale without returns, puts back everything the sale took.
LEMMA VoidSaleRows ==
    ASSUME DraftInv, NEW s \in Sales, VoidSale(s)
    PROVE  /\ Amendable(s) /\ OthersKept(s)
           /\ sale'[s] = [sale[s] EXCEPT !.status = "voided"]
           /\ saleMoves'[s] = Nothing
           /\ \A b \in Batches :
                 /\ LineKept(b)
                 /\ batch'[b].remaining = batch[b].remaining + sale[s].alloc[b]
           /\ \A p \in Products : product'[p].qty =
                                    product[p].qty + sale[s].quantity[p]
           /\ UNCHANGED <<financing, replacement, batchMoves, looseMoves, returnMoves>>
<1> USE DEF DraftInv
<1>1. /\ Amendable(s)
      /\ sale' = [sale EXCEPT ![s] = [sale[s] EXCEPT !.status = "voided"]]
      /\ batch' = [b \in Batches |->
                     [batch[b] EXCEPT !.remaining = RestoredBatch(s)[b]]]
      /\ product' = [p \in Products |->
                       [product[p] EXCEPT !.qty = RestoredProduct(s)[p]]]
      /\ saleMoves' = [saleMoves EXCEPT ![s] = Nothing]
      /\ UNCHANGED <<financing, replacement, batchMoves, looseMoves, returnMoves>>
  BY DEF VoidSale
<1>2. /\ OthersKept(s) /\ sale'[s] = [sale[s] EXCEPT !.status = "voided"]
      /\ saleMoves'[s] = Nothing
  BY <1>1 DEF TypeOK, OthersKept
<1>3. ASSUME NEW b \in Batches
      PROVE  /\ LineKept(b)
             /\ batch'[b].remaining = batch[b].remaining + sale[s].alloc[b]
  <2>1. batch'[b] = [batch[b] EXCEPT !.remaining = RestoredBatch(s)[b]]
    BY <1>1
  <2>2. LineKept(b) /\ batch'[b].remaining = RestoredBatch(s)[b]
    BY <2>1, RemainingOnly
  <2> QED
    BY <2>2 DEF RestoredBatch
<1>4. ASSUME NEW p \in Products
      PROVE  product'[p].qty = product[p].qty + sale[s].quantity[p]
  <2>1. product[p] \in ProductRow
    BY DEF TypeOK
  <2>2. product'[p].qty = RestoredProduct(s)[p]
    BY <1>1, <2>1 DEF ProductRow
  <2> QED
    BY <2>2 DEF RestoredProduct
<1> QED
  BY <1>1, <1>2, <1>3, <1>4

\* The row of s once back was returned, and what is left once put is back.
ReturnedRow(s, back) ==
    [sale[s] EXCEPT !.returned = [i \in Lines |-> sale[s].returned[i] + back[i]],
                    !.returns = TRUE]
PutBackBatch(put) == [b \in Batches |-> batch[b].remaining + put[b]]

\* A return puts pieces back on the lines they came from and takes the replacement
\* from what is then there.
LEMMA RecordReturnRows ==
    ASSUME DraftInv, NEW s \in Sales, NEW back \in [Lines -> Quantities],
           NEW cond \in [Lines -> Conditions], NEW put \in [Batches -> Quantities],
           NEW order \in Replacements, NEW give \in [Batches -> Quantities],
           Exchanges(s, back, cond, put, order, give)
    PROVE  /\ Fills(order, PutBackBatch(put), ReturnedShelf(s, back, cond), give,
                    {"individual"})
           /\ OthersKept(s) /\ saleMoves' = saleMoves
           /\ sale'[s] = ReturnedRow(s, back)
           /\ \A b \in Batches :
                 /\ LineKept(b)
                 /\ batch'[b].remaining = batch[b].remaining + put[b] - give[b]
                 /\ replacement'[s].alloc[b] = replacement[s].alloc[b] + give[b]
                 /\ returnMoves'[s][b] = returnMoves[s][b] + put[b]
           /\ \A o \in Sales \ {s} : /\ replacement'[o] = replacement[o]
                                     /\ returnMoves'[o] = returnMoves[o]
           /\ \A p \in Products : product'[p].qty =
                 product[p].qty + Sellable(back, cond, p) - order.quantity[p]
           /\ UNCHANGED <<financing, batchMoves, looseMoves>>
<1> USE DEF DraftInv
<1> DEFINE have == [b \in Batches |-> batch[b].remaining + put[b]]
           stock == [p \in Products |-> product[p].qty + Sellable(back, cond, p)]
           row == [sale[s] EXCEPT
                     !.returned = [i \in Lines |-> sale[s].returned[i] + back[i]],
                     !.returns = TRUE]
           given == [alloc |-> [b \in Batches |-> replacement[s].alloc[b] + give[b]],
                     units |-> replacement[s].units \cup Picked(order)]
           moved == [b \in Batches |-> returnMoves[s][b] + put[b]]
<1>1. /\ Fills(order, have, ReturnedShelf(s, back, cond), give, {"individual"})
      /\ sale' = [sale EXCEPT ![s] = row]
      /\ batch' = [b \in Batches |->
            [batch[b] EXCEPT !.remaining = have[b] - give[b]]]
      /\ product' = [p \in Products |->
            [product[p] EXCEPT !.qty = stock[p] - order.quantity[p]]]
      /\ replacement' = [replacement EXCEPT ![s] = given]
      /\ returnMoves' = [returnMoves EXCEPT ![s] = moved]
      /\ UNCHANGED <<financing, batchMoves, looseMoves, saleMoves>>
  BY DEF Exchanges
<1>2. OthersKept(s) /\ sale'[s] = row
  <2> HIDE DEF row
  <2> QED
    BY <1>1 DEF TypeOK, OthersKept
<1>3. /\ replacement'[s] = given /\ returnMoves'[s] = moved
      /\ \A o \in Sales \ {s} : /\ replacement'[o] = replacement[o]
                                /\ returnMoves'[o] = returnMoves[o]
  <2> HIDE DEF given, moved
  <2> QED
    BY <1>1 DEF TypeOK
<1>4. ASSUME NEW b \in Batches
      PROVE  /\ LineKept(b)
             /\ batch'[b].remaining = batch[b].remaining + put[b] - give[b]
             /\ replacement'[s].alloc[b] = replacement[s].alloc[b] + give[b]
             /\ returnMoves'[s][b] = returnMoves[s][b] + put[b]
  <2>1. batch'[b] = [batch[b] EXCEPT !.remaining = have[b] - give[b]]
    BY <1>1
  <2>2. LineKept(b) /\ batch'[b].remaining = have[b] - give[b]
    <3> HIDE DEF have
    <3> QED
      BY <2>1, RemainingOnly
  <2>3. have[b] = batch[b].remaining + put[b]
    OBVIOUS
  <2>4. batch[b].remaining \in Int /\ put[b] \in Int /\ give[b] \in Int
    BY StockConstants DEF TypeOK, BatchRow, Quantities
  <2>5. /\ replacement'[s].alloc[b] = replacement[s].alloc[b] + give[b]
        /\ returnMoves'[s][b] = returnMoves[s][b] + put[b]
    BY <1>3
  <2> HIDE DEF have, given, moved
  <2> QED
    BY <2>2, <2>3, <2>4, <2>5
<1>5. ASSUME NEW p \in Products
      PROVE  product'[p].qty =
               product[p].qty + Sellable(back, cond, p) - order.quantity[p]
  <2>1. product[p] \in ProductRow
    BY DEF TypeOK
  <2>2. product'[p].qty = stock[p] - order.quantity[p]
    <3> HIDE DEF stock
    <3> QED
      BY <1>1, <2>1 DEF ProductRow
  <2>3. stock[p] = product[p].qty + Sellable(back, cond, p)
    OBVIOUS
  <2>4. /\ product[p].qty \in Int /\ Sellable(back, cond, p) \in Int
        /\ order.quantity[p] \in Int
    BY <2>1, StockConstants
       DEF ProductRow, Sellable, Quantities, Lines, Replacements, Orders
  <2> HIDE DEF stock
  <2> QED
    BY <2>2, <2>3, <2>4
<1> QED
  BY <1>1, <1>2, <1>3, <1>4, <1>5 DEF ReturnedRow, PutBackBatch

\* What an agreement is given from, and what it does to the units it names.
OnShelves == [b \in Batches |-> batch[b].remaining]
UnitStatuses == [u \in Units |-> unit[u].status]
UnitsTaken(order) ==
    unit' = [u \in Units |-> [unit[u] EXCEPT
               !.status = IF u \in Picked(order) THEN "sold" ELSE @]]

\* A financing agreement takes its items from the shelves and touches no sale.
LEMMA FinancingRows ==
    ASSUME DraftInv, NEW a \in Agreements, CreateFinancing(a)
    PROVE  \E order \in Orders, take \in [Batches -> Quantities] :
             /\ Fills(order, OnShelves, UnitStatuses, take,
                      {"quantity", "individual"})
             /\ financing[a] = [alloc |-> Nothing, units |-> {}]
             /\ financing' = [financing EXCEPT ![a] =
                   [alloc |-> take, units |-> Picked(order)]]
             /\ \A b \in Batches :
                   /\ LineKept(b)
                   /\ batch'[b].remaining = batch[b].remaining - take[b]
             /\ \A p \in Products : product'[p].qty =
                                      product[p].qty - order.quantity[p]
             /\ UnitsTaken(order)
             /\ UNCHANGED <<sale, replacement, batchMoves, looseMoves, saleMoves,
                            returnMoves>>
<1> USE DEF DraftInv
<1>1. PICK order \in Orders, take \in [Batches -> Quantities] :
        /\ financing[a] = [alloc |-> Nothing, units |-> {}]
        /\ \A m \in Manuals : order.quantity[m] = 0
        /\ Asks(order)
        /\ Fills(order, [b \in Batches |-> batch[b].remaining],
                 [u \in Units |-> unit[u].status], take,
                 {"quantity", "individual"})
        /\ \A p \in Products : product[p].qty >= order.quantity[p]
        /\ financing' = [financing EXCEPT ![a] =
              [alloc |-> take, units |-> Picked(order)]]
        /\ batch' = [b \in Batches |->
              [batch[b] EXCEPT !.remaining = @ - take[b]]]
        /\ product' = [p \in Products |->
              [product[p] EXCEPT !.qty = @ - order.quantity[p]]]
        /\ unit' = [u \in Units |->
              [unit[u] EXCEPT !.status = IF u \in Picked(order) THEN "sold" ELSE @]]
        /\ UNCHANGED <<sale, replacement, moves>>
  BY DEF CreateFinancing
<1>2. ASSUME NEW b \in Batches
      PROVE  LineKept(b) /\ batch'[b].remaining = batch[b].remaining - take[b]
  <2>1. batch'[b] = [batch[b] EXCEPT !.remaining = batch[b].remaining - take[b]]
    BY <1>1
  <2> QED
    BY <2>1, RemainingOnly
<1>3. ASSUME NEW p \in Products
      PROVE  product'[p].qty = product[p].qty - order.quantity[p]
  <2>1. product[p] \in ProductRow
    BY DEF TypeOK
  <2> QED
    BY <1>1, <2>1 DEF ProductRow
<1>4. UNCHANGED <<sale, replacement, batchMoves, looseMoves, saleMoves, returnMoves>>
  BY <1>1 DEF moves
<1> QED
  BY <1>1, <1>2, <1>3, <1>4 DEF OnShelves, UnitStatuses, UnitsTaken

-----------------------------------------------------------------------------
(* Sums over the batches of a product *)

\* At most batch c joins a lot.
LotsGrow(c) ==
    /\ \A b \in Batches \ {c} : batch'[b].product = batch[b].product
    /\ c \in Batches => \/ batch'[c].product = batch[c].product
                        \/ batch[c].product = None /\ batch'[c].product \in Products

\* The batches of a product are finitely many.
LEMMA LotIsFinite ==
    ASSUME NEW p
    PROVE  Lot(p) \subseteq Batches /\ IsFiniteSet(Lot(p))
<1>1. Lot(p) \subseteq Batches
  BY DEF Lot
<1> QED
  BY <1>1, FS_Subset, StockConstants

\* Batches that keep their product, and one that gets it, give the sum of a lot.
LEMMA LotSum ==
    ASSUME NEW p \in Products, NEW c, LotsGrow(c),
           NEW f, \A b \in Batches : f[b] \in Int
    PROVE  Sum(f, Lot(p)') = Sum(f, Lot(p)) +
             (IF c \in Batches /\ batch[c].product = None /\ batch'[c].product = p
              THEN f[c] ELSE 0)
<1> DEFINE joins == c \in Batches /\ batch[c].product = None /\ batch'[c].product = p
<1>0. None \notin Products
  BY StockConstants
<1>1. /\ IsFiniteSet(Lot(p)) /\ \A b \in Lot(p) : f[b] \in Int
      /\ SumFunctionOnSet(f, Lot(p)) \in Int
  <2>1. IsFiniteSet(Lot(p)) /\ \A b \in Lot(p) : f[b] \in Int
    BY LotIsFinite
  <2> QED
    BY <2>1, SumIsInt
<1>2. CASE joins
  <2>1. Lot(p)' = Lot(p) \cup {c} /\ c \notin Lot(p)
    BY <1>0, <1>2 DEF Lot, LotsGrow
  <2>2. \A b \in Lot(p) \cup {c} : f[b] \in Int
    BY <1>1, <1>2
  <2>3. SumFunctionOnSet(f, Lot(p) \cup {c}) = f[c] + SumFunctionOnSet(f, Lot(p))
    BY <1>1, <2>1, <2>2, SumWithOneMore
  <2> QED
    BY <1>1, <1>2, <2>1, <2>2, <2>3 DEF Sum
<1>3. CASE ~joins
  <2>1. Lot(p)' = Lot(p)
    BY <1>0, <1>3 DEF Lot, LotsGrow
  <2> QED
    BY <1>1, <1>3, <2>1 DEF Sum
<1> QED
  BY <1>2, <1>3

\* What the loops take for a product is what its line asks for.
LEMMA FillsInFull ==
    ASSUME TypeOK, NEW order \in Orders, NEW have \in [Batches -> Nat], NEW shelf,
           NEW take \in [Batches -> Quantities], NEW modes,
           Fills(order, have, shelf, take, modes), NEW p \in Products
    PROVE  Sum(take, Lot(p)) = order.quantity[p]
<1>1. IsFiniteSet(Lot(p))
  BY LotIsFinite
<1>2. CASE order.quantity[p] = 0 /\ \A b \in Lot(p) : take[b] = 0
  BY <1>1, <1>2, SumOfZeros DEF Sum
<1>3. CASE TakesInOrder(Lot(p), have, order.quantity[p], take, OldestFirst)
  BY <1>3 DEF TakesInOrder
<1>4. CASE order.quantity[p] = 1 /\ AllocatesUnit(p, order.unit[p], have, shelf, take)
  <2> DEFINE line == unit[order.unit[p]].line
  <2>1. line \in Lot(p) /\ \A b \in Lot(p) : take[b] = IF b = line THEN 1 ELSE 0
    BY <1>4 DEF AllocatesUnit
  <2>2. take[line] = 1 /\ \A b \in Lot(p) \ {line} : take[b] = 0
    BY <2>1
  <2>3. SumFunctionOnSet(take, Lot(p)) = take[line]
    <3> HIDE DEF line
    <3> QED
      BY <1>1, <2>1, <2>2, SumOfOne
  <2> QED
    BY <1>4, <2>2, <2>3 DEF Sum
<1> QED
  BY <1>2, <1>3, <1>4 DEF Fills

-----------------------------------------------------------------------------
(* The rows that must agree *)

\* A line that exists has a product.
LinesNamed == \A b \in Batches : batch[b].status = "absent" <=> batch[b].product = None

\* The movements of a received line are the pieces received.
ReceiptsCounted ==
    \A b \in Batches : batch[b].status = "received" => batchMoves[b] = batch[b].received

\* A sale that was not recorded has no lines, a sale without returns has nothing
\* returned, and its movements are the allocations it has while it is active.
SaleAgrees(s) ==
    /\ sale[s].status = "none" => /\ ~sale[s].returns
                                  /\ \A b \in Batches : sale[s].alloc[b] = 0
                                  /\ \A p \in Products : sale[s].unit[p] = None
    /\ ~sale[s].returns => /\ \A i \in Lines : sale[s].returned[i] = 0
                           /\ \A b \in Batches : returnMoves[s][b] = 0
    /\ \A b \in Batches : saleMoves[s][b] = Live(s) * sale[s].alloc[b]
    /\ \A p \in Products : sale[s].unit[p] # None => sale[s].quantity[p] = 1
SaleRowsAgree == \A s \in Sales : SaleAgrees(s)

\* Nothing was put back into a line that was never received.
ReturnsFromReceived ==
    \A s \in Sales, b \in Batches : NotReceived(b) => returnMoves[s][b] = 0

RowsInv ==
    /\ DraftInv /\ LinesNamed /\ ReceiptsCounted /\ SaleRowsAgree
    /\ ReturnsFromReceived /\ AllocationsMatchLines

RowsKept ==
    /\ LinesNamed' /\ ReceiptsCounted' /\ SaleRowsAgree'
    /\ ReturnsFromReceived' /\ AllocationsMatchLines'

\* A lot grows by a line nothing was allocated from.
LEMMA AllocationsKept ==
    ASSUME RowsInv, NEW c, LotsGrow(c), NEW s \in Sales,
           sale'[s].alloc = sale[s].alloc, sale'[s].quantity = sale[s].quantity
    PROVE  \A p \in Products : Sum(sale'[s].alloc, Lot(p)') = sale'[s].quantity[p]
<1> SUFFICES ASSUME NEW p \in Products
             PROVE  Sum(sale'[s].alloc, Lot(p)') = sale'[s].quantity[p]
  OBVIOUS
<1>1. \A b \in Batches : sale[s].alloc[b] \in Int
  BY StockConstants DEF RowsInv, DraftInv, TypeOK, SaleRow, Quantities
<1>2. Sum(sale[s].alloc, Lot(p)) = sale[s].quantity[p] /\ sale[s].quantity[p] \in Int
  BY StockConstants DEF RowsInv, AllocationsMatchLines, DraftInv, TypeOK, SaleRow,
                        Quantities, Lines
<1>3. c \in Batches /\ batch[c].product = None => sale[s].alloc[c] = 0
  BY DEF RowsInv, LinesNamed, DraftInv, DraftsHoldNoStock
<1>4. Sum(sale[s].alloc, Lot(p)') = Sum(sale[s].alloc, Lot(p)) +
        (IF c \in Batches /\ batch[c].product = None /\ batch'[c].product = p
         THEN sale[s].alloc[c] ELSE 0)
  BY <1>1, LotSum
<1> QED
  BY <1>2, <1>3, <1>4

\* Receiving and correcting stock keep the rows in agreement.
LEMMA ReceivingKeepsRows ==
    ASSUME RowsInv, NEW b \in Batches, Receiving(b)
    PROVE  RowsKept
<1> USE DEF RowsInv
<1>1. /\ UNCHANGED <<sale, financing, replacement, looseMoves, saleMoves, returnMoves>>
      /\ \A c \in Batches \ {b} : batch'[c] = batch[c] /\ batchMoves'[c] = batchMoves[c]
      /\ LineStep(b)
  BY ReceivingRows
<1>2. PICK n \in Int : BatchGrows(b, batch'[b].product, n)
  BY ReceivingRows
<1>3. None \notin Products
  BY StockConstants
<1>4. LinesNamed'
  BY <1>1, <1>3 DEF LinesNamed, LineStep
<1>5. ReceiptsCounted'
  <2>1. batch'[b].status = "received" => batchMoves'[b] = batch'[b].received
    <3>1. CASE batch[b].status = "received"
      <4>1. batchMoves[b] = batch[b].received /\ batchMoves[b] \in Int
        BY <3>1 DEF ReceiptsCounted, DraftInv, TypeOK
      <4> QED
        BY <1>2, <3>1, <4>1 DEF BatchGrows
    <3>2. CASE batch[b].status # "received"
      <4>1. batchMoves[b] = 0
        BY <3>2 DEF DraftInv, DraftsHoldNoStock, TypeOK, BatchRow
      <4> QED
        BY <1>2, <3>2, <4>1 DEF BatchGrows
    <3> QED
      BY <3>1, <3>2
  <2> QED
    BY <1>1, <2>1 DEF ReceiptsCounted
<1>6. SaleRowsAgree'
  BY <1>1 DEF SaleRowsAgree, SaleAgrees, Live
<1>7. ReturnsFromReceived'
  BY <1>1 DEF ReturnsFromReceived, NotReceived, LineStep
<1>8. LotsGrow(b)
  BY <1>1 DEF LotsGrow, LineStep, LinesNamed
<1>9. AllocationsMatchLines'
  BY <1>1, <1>8, AllocationsKept DEF AllocationsMatchLines
<1> QED
  BY <1>4, <1>5, <1>6, <1>7, <1>9 DEF RowsKept

\* Recording and editing a sale keep the rows in agreement.
LEMMA WriteSaleKeepsRows ==
    ASSUME RowsInv, NEW s \in Sales, NEW order \in Orders,
           NEW take \in [Batches -> Quantities], NEW trade \in TradeIns,
           sale[s].status = "none" \/ Amendable(s),
           WriteSale(s, order, take, trade)
    PROVE  RowsKept
<1> USE DEF RowsInv
<1> DEFINE c == trade.batch
<1>1. /\ Fills(order, RestoredBatch(s), RestoredUnit(s), take, {"individual"})
      /\ sale'[s] = WrittenRow(order, take, trade)
      /\ OthersKept(s) /\ saleMoves'[s] = take
      /\ \A b \in Batches \ {c} : LineKept(b) /\ batchMoves'[b] = batchMoves[b]
      /\ TradeInLine(trade)
      /\ UNCHANGED <<financing, replacement, looseMoves, returnMoves>>
  BY WriteSaleRows
<1>2. None \notin Products /\ None \notin Batches
  BY StockConstants
<1> HIDE DEF c
<1>3. c \in Batches => /\ batch[c].status = "absent" /\ batch[c].product = None
                       /\ batch'[c].status = "received" /\ batch'[c].product \in Products
                       /\ batch'[c].received = 1 /\ batchMoves'[c] = 1
  BY <1>1 DEF TradeInLine, LinesNamed, c
<1>4. LinesNamed'
  BY <1>1, <1>2, <1>3 DEF LinesNamed, LineKept
<1>5. ReceiptsCounted'
  BY <1>1, <1>3 DEF ReceiptsCounted, LineKept
<1>6. ReturnsFromReceived'
  BY <1>1, <1>3 DEF ReturnsFromReceived, NotReceived, LineKept
<1>7. \A b \in Batches : returnMoves[s][b] = 0
  BY DEF Amendable, SaleRowsAgree, SaleAgrees
<1>8. SaleRowsAgree'
  <2>1. ASSUME NEW o \in Sales \ {s} PROVE SaleAgrees(o)'
    <3>1. SaleAgrees(o) /\ sale'[o] = sale[o] /\ saleMoves'[o] = saleMoves[o]
          /\ returnMoves' = returnMoves
      BY <1>1 DEF SaleRowsAgree, OthersKept
    <3> QED
      BY <3>1 DEF SaleAgrees, Live
  <2>2. SaleAgrees(s)'
    <3>1. \A p \in Products : order.unit[p] # None => order.quantity[p] = 1
      BY <1>1 DEF Fills
    <3>2. \A b \in Batches : take[b] = 1 * take[b]
      BY QuantitiesAreNat
    <3>3. Live(s)' = 1
      BY <1>1 DEF Live, WrittenRow
    <3> QED
      BY <1>1, <1>7, <3>1, <3>2, <3>3 DEF SaleAgrees, WrittenRow
  <2> QED
    BY <2>1, <2>2 DEF SaleRowsAgree
<1>9. LotsGrow(c)
  BY <1>1, <1>3 DEF LotsGrow, LineKept
<1>10. AllocationsMatchLines'
  <2>1. ASSUME NEW o \in Sales \ {s}, NEW p \in Products
        PROVE  Sum(sale'[o].alloc, Lot(p)') = sale'[o].quantity[p]
    BY <1>1, <1>9, AllocationsKept DEF OthersKept
  <2>2. ASSUME NEW p \in Products
        PROVE  Sum(take, Lot(p)') = order.quantity[p]
    <3>1. RestoredBatch(s) \in [Batches -> Nat]
      BY StockConstants DEF RestoredBatch, DraftInv, TypeOK, BatchRow, SaleRow,
                            Quantities
    <3>2. Sum(take, Lot(p)) = order.quantity[p]
      BY <1>1, <3>1, FillsInFull DEF DraftInv
    <3>3. \A b \in Batches : take[b] \in Int
      BY QuantitiesAreNat
    <3>4. c \in Batches => take[c] = 0
      BY <1>1, <1>3 DEF Fills
    <3>5. Sum(take, Lot(p)') = Sum(take, Lot(p)) +
            (IF c \in Batches /\ batch[c].product = None /\ batch'[c].product = p
             THEN take[c] ELSE 0)
      BY <1>9, <3>3, LotSum
    <3>6. order.quantity[p] \in Int
      BY StockConstants DEF Orders, Quantities, Lines
    <3> QED
      BY <3>2, <3>4, <3>5, <3>6
  <2>3. sale'[s].alloc = take /\ sale'[s].quantity = order.quantity
    BY <1>1 DEF WrittenRow
  <2> QED
    BY <2>1, <2>2, <2>3 DEF AllocationsMatchLines
<1> QED
  BY <1>4, <1>5, <1>6, <1>8, <1>10 DEF RowsKept

\* Steps that keep every line where it is.
LEMMA LinesKeptRows ==
    ASSUME RowsInv, \A b \in Batches : LineKept(b), UNCHANGED batchMoves
    PROVE  LinesNamed' /\ ReceiptsCounted' /\ LotsGrow(None)
BY StockConstants DEF RowsInv, LinesNamed, ReceiptsCounted, LineKept, LotsGrow

\* Voiding a sale keeps the rows in agreement.
LEMMA VoidSaleKeepsRows ==
    ASSUME RowsInv, NEW s \in Sales, VoidSale(s)
    PROVE  RowsKept
<1> USE DEF RowsInv
<1>1. /\ Amendable(s) /\ OthersKept(s)
      /\ sale'[s] = [sale[s] EXCEPT !.status = "voided"]
      /\ saleMoves'[s] = Nothing
      /\ \A b \in Batches : LineKept(b)
      /\ UNCHANGED <<financing, replacement, batchMoves, looseMoves, returnMoves>>
  BY VoidSaleRows
<1>2. LinesNamed' /\ ReceiptsCounted' /\ LotsGrow(None)
  BY <1>1, LinesKeptRows
<1>3. ReturnsFromReceived'
  BY <1>1 DEF ReturnsFromReceived, NotReceived, LineKept
<1>4. /\ sale'[s].status = "voided" /\ sale'[s].alloc = sale[s].alloc
      /\ sale'[s].quantity = sale[s].quantity /\ sale'[s].unit = sale[s].unit
      /\ sale'[s].returned = sale[s].returned /\ sale'[s].returns = sale[s].returns
  <2>1. sale[s] \in SaleRow
    BY DEF DraftInv, TypeOK
  <2> QED
    BY <1>1, <2>1 DEF SaleRow
<1>5. SaleRowsAgree'
  <2>1. ASSUME NEW o \in Sales \ {s} PROVE SaleAgrees(o)'
    <3>1. SaleAgrees(o) /\ sale'[o] = sale[o] /\ saleMoves'[o] = saleMoves[o]
          /\ returnMoves' = returnMoves
      BY <1>1 DEF SaleRowsAgree, OthersKept
    <3> QED
      BY <3>1 DEF SaleAgrees, Live
  <2>2. SaleAgrees(s)'
    <3>1. SaleAgrees(s)
      BY DEF SaleRowsAgree
    <3>2. \A b \in Batches : sale[s].alloc[b] \in Int /\ 0 * sale[s].alloc[b] = 0
      BY StockConstants DEF DraftInv, TypeOK, SaleRow, Quantities
    <3>3. Live(s)' = 0
      BY <1>4 DEF Live
    <3>4. \A b \in Batches : saleMoves'[s][b] = 0
      BY <1>1 DEF Nothing
    <3> QED
      BY <1>1, <1>4, <3>1, <3>2, <3>3, <3>4 DEF SaleAgrees
  <2> QED
    BY <2>1, <2>2 DEF SaleRowsAgree
<1>6. AllocationsMatchLines'
  <2>1. \A o \in Sales : sale'[o].alloc = sale[o].alloc /\ sale'[o].quantity = sale[o].quantity
    BY <1>1, <1>4 DEF OthersKept
  <2> QED
    BY <1>2, <2>1, AllocationsKept DEF AllocationsMatchLines
<1> QED
  BY <1>2, <1>3, <1>5, <1>6 DEF RowsKept

\* A return keeps the rows in agreement.
LEMMA RecordReturnKeepsRows ==
    ASSUME RowsInv, NEW s \in Sales, RecordReturn(s)
    PROVE  RowsKept
<1> USE DEF RowsInv
<1>1. PICK back \in [Lines -> Quantities], cond \in [Lines -> Conditions],
           put \in [Batches -> Quantities], order \in Replacements,
           give \in [Batches -> Quantities] :
        ReturnsLines(s, back, cond, put) /\ Exchanges(s, back, cond, put, order, give)
  BY DEF RecordReturn
<1>2. /\ OthersKept(s) /\ saleMoves' = saleMoves
      /\ sale'[s] = ReturnedRow(s, back)
      /\ \A b \in Batches : /\ LineKept(b)
                            /\ returnMoves'[s][b] = returnMoves[s][b] + put[b]
      /\ \A o \in Sales \ {s} : returnMoves'[o] = returnMoves[o]
      /\ UNCHANGED <<financing, batchMoves, looseMoves>>
  BY <1>1, RecordReturnRows
<1>3. LinesNamed' /\ ReceiptsCounted' /\ LotsGrow(None)
  BY <1>2, LinesKeptRows
<1>4. ReturnsFromReceived'
  <2>1. ASSUME NEW b \in Batches, NotReceived(b) PROVE returnMoves'[s][b] = 0
    <3>1. sale[s].alloc[b] = 0
      BY <2>1 DEF DraftInv, DraftsHoldNoStock, NotReceived
    <3>2. put[b] = 0
      BY <1>1, <3>1, PutsBackWhereTaken DEF DraftInv
    <3> QED
      BY <1>2, <2>1, <3>2 DEF ReturnsFromReceived
  <2>2. \A b \in Batches : NotReceived(b)' => NotReceived(b)
    BY <1>2 DEF NotReceived, LineKept
  <2> QED
    BY <1>2, <2>1, <2>2 DEF ReturnsFromReceived
<1>5. /\ sale'[s].status = sale[s].status /\ sale'[s].alloc = sale[s].alloc
      /\ sale'[s].quantity = sale[s].quantity /\ sale'[s].unit = sale[s].unit
      /\ sale'[s].returns
  <2>1. sale[s] \in SaleRow
    BY DEF DraftInv, TypeOK
  <2> QED
    BY <1>2, <2>1 DEF SaleRow, ReturnedRow
<1>6. SaleRowsAgree'
  <2>1. ASSUME NEW o \in Sales \ {s} PROVE SaleAgrees(o)'
    <3>1. SaleAgrees(o) /\ sale'[o] = sale[o] /\ saleMoves'[o] = saleMoves[o]
          /\ returnMoves'[o] = returnMoves[o]
      BY <1>2 DEF SaleRowsAgree, OthersKept
    <3> QED
      BY <3>1 DEF SaleAgrees, Live
  <2>2. SaleAgrees(s)'
    <3>1. SaleAgrees(s)
      BY DEF SaleRowsAgree
    <3>2. sale[s].status # "none"
      BY <1>1 DEF ReturnsLines, Returnable
    <3>3. Live(s)' = Live(s)
      BY <1>5 DEF Live
    <3> QED
      BY <1>2, <1>5, <3>1, <3>2, <3>3 DEF SaleAgrees
  <2> QED
    BY <2>1, <2>2 DEF SaleRowsAgree
<1>7. AllocationsMatchLines'
  <2>1. \A o \in Sales : sale'[o].alloc = sale[o].alloc /\ sale'[o].quantity = sale[o].quantity
    BY <1>2, <1>5 DEF OthersKept
  <2> QED
    BY <1>3, <2>1, AllocationsKept DEF AllocationsMatchLines
<1> QED
  BY <1>3, <1>4, <1>6, <1>7 DEF RowsKept

\* Steps that leave the sales alone and keep every line.
LEMMA SalesKeptRows ==
    ASSUME RowsInv, \A b \in Batches : LineKept(b),
           UNCHANGED <<sale, batchMoves, saleMoves, returnMoves>>
    PROVE  RowsKept
<1>1. LinesNamed' /\ ReceiptsCounted' /\ LotsGrow(None)
  BY LinesKeptRows
<1>2. ReturnsFromReceived' /\ SaleRowsAgree'
  BY DEF RowsInv, ReturnsFromReceived, SaleRowsAgree, SaleAgrees, Live, NotReceived,
         LineKept
<1>3. AllocationsMatchLines'
  BY <1>1, AllocationsKept DEF AllocationsMatchLines
<1> QED
  BY <1>1, <1>2, <1>3 DEF RowsKept

\* The rows agree after every step if they agreed before it.
LEMMA StepKeepsRows ==
    ASSUME RowsInv, [Next]_vars
    PROVE  RowsInv'
<1>0. DraftInv'
  BY StepKeepsDrafts DEF RowsInv
<1> SUFFICES RowsKept
  BY <1>0 DEF RowsInv, RowsKept
<1>1. ASSUME NEW b \in Batches, Receiving(b)
      PROVE  RowsKept
  BY <1>1, ReceivingKeepsRows
<1>2. ASSUME UNCHANGED <<batch, sale, batchMoves, saleMoves, returnMoves>>
      PROVE  RowsKept
  BY <1>2, SalesKeptRows DEF LineKept
<1>3. ASSUME NEW p \in Products,
             AdjustStock(p) \/ \E active \in BOOLEAN : SetProductActive(p, active)
      PROVE  RowsKept
  BY <1>2, <1>3 DEF AdjustStock, SetProductActive, moves
<1>4. ASSUME NEW s \in Sales, RecordSale(s) \/ EditSale(s)
      PROVE  RowsKept
  <2>1. PICK order \in Orders, take \in [Batches -> Quantities],
             trade \in TradeIns : WriteSale(s, order, take, trade)
    BY <1>4 DEF RecordSale, EditSale
  <2>2. sale[s].status = "none" \/ Amendable(s)
    BY <1>4 DEF RecordSale, EditSale
  <2> QED
    BY <2>1, <2>2, WriteSaleKeepsRows
<1>5. ASSUME NEW s \in Sales, VoidSale(s)
      PROVE  RowsKept
  BY <1>5, VoidSaleKeepsRows
<1>6. ASSUME NEW s \in Sales, RecordReturn(s)
      PROVE  RowsKept
  BY <1>6, RecordReturnKeepsRows
<1>7. ASSUME NEW a \in Agreements, CreateFinancing(a)
      PROVE  RowsKept
  <2>1. /\ \A b \in Batches : LineKept(b)
        /\ UNCHANGED <<sale, batchMoves, saleMoves, returnMoves>>
    <3>1. DraftInv
      BY DEF RowsInv
    <3> QED
      BY <1>7, <3>1, FinancingRows
  <2> QED
    BY <2>1, SalesKeptRows
<1>8. CASE UNCHANGED vars
  BY <1>2, <1>8 DEF vars, moves
<1> QED
  BY <1>1, <1>3, <1>4, <1>5, <1>6, <1>7, <1>8 DEF Next, Receiving

\* The rows agree at first: there are none.
LEMMA InitRows == Init => RowsInv
<1> SUFFICES ASSUME Init PROVE RowsInv
  OBVIOUS
<1>1. /\ \A b \in Batches : /\ batch[b].status = "absent" /\ batch[b].product = None
                            /\ batch[b].remaining = 0 /\ batchMoves[b] = 0
      /\ \A u \in Units : unit[u] = [line |-> None, status |-> "absent"]
      /\ \A s \in Sales : /\ sale[s].status = "none" /\ ~sale[s].returns
                          /\ \A i \in Lines : /\ sale[s].quantity[i] = 0
                                              /\ sale[s].returned[i] = 0
                          /\ \A p \in Products : sale[s].unit[p] = None
                          /\ \A b \in Batches : /\ sale[s].alloc[b] = 0
                                                /\ replacement[s].alloc[b] = 0
                                                /\ saleMoves[s][b] = 0
                                                /\ returnMoves[s][b] = 0
      /\ \A a \in Agreements, b \in Batches : financing[a].alloc[b] = 0
  BY DEF Init, Nothing
<1>2. DraftInv
  <2>1. DraftsHoldNoStock
    BY <1>1, StockConstants DEF DraftsHoldNoStock, UnitsOf
  <2>2. UnitsOnLines /\ SaleUnitsAllocated
    BY <1>1 DEF UnitsOnLines, SaleUnitsAllocated
  <2> QED
    BY <2>1, <2>2, InitTypes DEF DraftInv
<1>3. LinesNamed /\ ReceiptsCounted /\ ReturnsFromReceived
  BY <1>1 DEF LinesNamed, ReceiptsCounted, ReturnsFromReceived
<1>4. SaleRowsAgree
  BY <1>1 DEF SaleRowsAgree, SaleAgrees, Live
<1>5. AllocationsMatchLines
  <2>1. ASSUME NEW s \in Sales, NEW p \in Products
        PROVE  Sum(sale[s].alloc, Lot(p)) = sale[s].quantity[p]
    <3>1. IsFiniteSet(Lot(p)) /\ \A b \in Lot(p) : sale[s].alloc[b] = 0
      BY <1>1, LotIsFinite
    <3>2. SumFunctionOnSet(sale[s].alloc, Lot(p)) = 0
      BY <3>1, SumOfZeros
    <3> QED
      BY <1>1, <3>2 DEF Sum, Lines
  <2> QED
    BY <2>1 DEF AllocationsMatchLines
<1> QED
  BY <1>2, <1>3, <1>4, <1>5 DEF RowsInv

(***************************************************************************)
(* Every recorded line is allocated in full: no sale, however it is edited *)
(* while stock comes and goes, stands on a part of what it sold.           *)
(***************************************************************************)
THEOREM LinesAllocatedInFull == Spec => []AllocationsMatchLines
<1>1. RowsInv /\ [Next]_vars => RowsInv'
  BY StepKeepsRows
<1>2. RowsInv => AllocationsMatchLines
  BY DEF RowsInv
<1> QED
  BY InitRows, <1>1, <1>2, PTL DEF Spec

-----------------------------------------------------------------------------
(* The two ledgers *)

\* The pieces that stand in the batches of p.
OnHand(p) == Sum([b \in Batches |-> batch[b].remaining], Lot(p))

\* The quantity of a product is what stands in its batches, plus the manual
\* adjustments, which are made to no batch.
ShelvesCounted == \A p \in Products : product[p].qty = looseMoves[p] + OnHand(p)

\* put goes into the batches and take out of them, and line c may be new.
BatchesMove(c, put, take) ==
    /\ LotsGrow(c) /\ (c \in Batches => batch[c].product = None)
    /\ \A b \in Batches : put[b] \in Int /\ take[b] \in Int
    /\ \A b \in Batches \ {c} :
          batch'[b].remaining = batch[b].remaining + put[b] - take[b]

\* The quantity of each product moves by as much.
QuantitiesMove(c, put, take) ==
    \A p \in Products : product'[p].qty = product[p].qty
        + (Sum(put, Lot(p)) - Sum(take, Lot(p)))
        + (IF c \in Batches /\ batch'[c].product = p THEN batch'[c].remaining ELSE 0)

\* What a product has on hand is a number.
LEMMA OnHandIsInt ==
    ASSUME TypeOK, NEW p
    PROVE  OnHand(p) \in Int
<1> DEFINE f == [b \in Batches |-> batch[b].remaining]
<1>1. IsFiniteSet(Lot(p)) /\ Lot(p) \subseteq Batches
  BY LotIsFinite
<1>2. \A b \in Lot(p) : f[b] \in Int
  BY <1>1 DEF TypeOK, BatchRow
<1>3. SumFunctionOnSet(f, Lot(p)) \in Int
  <2> HIDE DEF f
  <2> QED
    BY <1>1, <1>2, SumIsInt
<1> QED
  BY <1>3 DEF OnHand, Sum

\* What a product has on hand changes by what its batches give and get.
LEMMA OnHandChanges ==
    ASSUME TypeOK, TypeOK', NEW p \in Products, NEW c, NEW a, NEW t,
           BatchesMove(c, a, t)
    PROVE  OnHand(p)' = OnHand(p) + (Sum(a, Lot(p)) - Sum(t, Lot(p))) +
             (IF c \in Batches /\ batch'[c].product = p THEN batch'[c].remaining ELSE 0)
<1> DEFINE f == [b \in Batches |-> batch[b].remaining]
           g == [b \in Batches |-> batch'[b].remaining]
           L == Lot(p)
<1>0. /\ LotsGrow(c) /\ (c \in Batches => batch[c].product = None)
      /\ \A b \in Batches : a[b] \in Int /\ t[b] \in Int
      /\ \A b \in Batches \ {c} :
            batch'[b].remaining = batch[b].remaining + a[b] - t[b]
  BY DEF BatchesMove
<1>1. \A b \in Batches : f[b] \in Int /\ g[b] \in Int
  BY DEF TypeOK, BatchRow
<1>2. c \in Batches => c \notin L
  BY <1>0, StockConstants DEF Lot
<1>3. IsFiniteSet(L) /\ L \subseteq Batches
  BY LotIsFinite
<1>4. \A b \in L : /\ f[b] \in Int /\ a[b] \in Int /\ t[b] \in Int
                   /\ g[b] = f[b] + a[b] - t[b]
  BY <1>0, <1>1, <1>2, <1>3
<1>5. /\ OnHand(p) = SumFunctionOnSet(f, L) /\ OnHand(p)' = Sum(g, Lot(p)')
      /\ Sum(g, L) = SumFunctionOnSet(g, L)
      /\ Sum(a, L) = SumFunctionOnSet(a, L) /\ Sum(t, L) = SumFunctionOnSet(t, L)
  BY DEF OnHand, Sum
<1>6. Sum(g, Lot(p)') = Sum(g, L) +
        (IF c \in Batches /\ batch[c].product = None /\ batch'[c].product = p
         THEN g[c] ELSE 0)
  <2> HIDE DEF g
  <2> QED
    BY <1>0, <1>1, LotSum
<1>7. c \in Batches => g[c] = batch'[c].remaining
  OBVIOUS
<1>8. /\ SumFunctionOnSet(f, L) \in Int /\ SumFunctionOnSet(a, L) \in Int
      /\ SumFunctionOnSet(t, L) \in Int
  <2> HIDE DEF f, g, L
  <2> QED
    BY <1>3, <1>4, SumIsInt
<1>9. SumFunctionOnSet(g, L) =
        SumFunctionOnSet(f, L) + SumFunctionOnSet(a, L) - SumFunctionOnSet(t, L)
  <2> HIDE DEF f, g, L
  <2> QED
    BY <1>3, <1>4, SumTransfers
<1>10. c \in Batches => g[c] \in Int
  BY <1>1
<1> HIDE DEF f, g, L
<1> QED
  BY <1>0, <1>5, <1>6, <1>7, <1>8, <1>9, <1>10 DEF L

\* What sale s has taken from batch b and not brought back.
Taken(s, b) ==
    Live(s) * sale[s].alloc[b] - returnMoves[s][b] + replacement[s].alloc[b]

\* What a sale has taken from a batch for good is a number.
LEMMA TakenIsInt ==
    ASSUME TypeOK
    PROVE  \A s \in Sales, b \in Batches :
             /\ Taken(s, b) \in Int /\ sale[s].alloc[b] \in Nat
             /\ returnMoves[s][b] \in Nat /\ replacement[s].alloc[b] \in Nat
             /\ Live(s) \in {0, 1} /\ 1 * sale[s].alloc[b] = sale[s].alloc[b]
             /\ 0 * sale[s].alloc[b] = 0
<1> SUFFICES ASSUME NEW s \in Sales, NEW b \in Batches
             PROVE  /\ Taken(s, b) \in Int /\ sale[s].alloc[b] \in Nat
                    /\ returnMoves[s][b] \in Nat /\ replacement[s].alloc[b] \in Nat
                    /\ Live(s) \in {0, 1} /\ 1 * sale[s].alloc[b] = sale[s].alloc[b]
                    /\ 0 * sale[s].alloc[b] = 0
  OBVIOUS
<1>1. /\ sale[s].alloc[b] \in Nat
      /\ returnMoves[s][b] \in Nat /\ replacement[s].alloc[b] \in Nat
  BY StockConstants DEF TypeOK, SaleRow, IssueRow, Quantities
<1>2. Live(s) \in {0, 1}
  BY DEF Live
<1>3. 1 * sale[s].alloc[b] = sale[s].alloc[b] /\ 0 * sale[s].alloc[b] = 0
  BY <1>1
<1>4. Taken(s, b) \in Int
  <2>1. CASE Live(s) = 0
    BY <1>1, <1>3, <2>1 DEF Taken
  <2>2. CASE Live(s) = 1
    BY <1>1, <1>3, <2>2 DEF Taken
  <2> QED
    BY <1>2, <2>1, <2>2
<1> QED
  BY <1>1, <1>2, <1>3, <1>4

TakenFrom(b) == [s \in Sales |-> Taken(s, b)]
FinancedFrom(b) == [a \in Agreements |-> financing[a].alloc[b]]

\* What has left a batch, as a sum over the sales and one over the agreements.
LEMMA IssuedSums ==
    ASSUME TypeOK, NEW b \in Batches
    PROVE  /\ Issued(b) = SumFunctionOnSet(TakenFrom(b), Sales)
                          + SumFunctionOnSet(FinancedFrom(b), Agreements)
           /\ \A s \in Sales : TakenFrom(b)[s] = Taken(s, b) /\ TakenFrom(b)[s] \in Int
           /\ \A a \in Agreements : /\ FinancedFrom(b)[a] = financing[a].alloc[b]
                                    /\ FinancedFrom(b)[a] \in Nat
           /\ SumFunctionOnSet(TakenFrom(b), Sales) \in Int
           /\ SumFunctionOnSet(FinancedFrom(b), Agreements) \in Nat
<1>1. Issued(b) = SumFunctionOnSet(TakenFrom(b), Sales)
                  + SumFunctionOnSet(FinancedFrom(b), Agreements)
  BY DEF Issued, TakenFrom, FinancedFrom, Taken, Sum
<1>2. \A s \in Sales : TakenFrom(b)[s] = Taken(s, b) /\ TakenFrom(b)[s] \in Int
  BY TakenIsInt DEF TakenFrom
<1>3. \A a \in Agreements : /\ FinancedFrom(b)[a] = financing[a].alloc[b]
                            /\ FinancedFrom(b)[a] \in Nat
  BY DEF FinancedFrom, TypeOK, IssueRow
<1>4. IsFiniteSet(Sales) /\ IsFiniteSet(Agreements)
  BY StockConstants
<1>5. /\ SumFunctionOnSet(TakenFrom(b), Sales) \in Int
      /\ SumFunctionOnSet(FinancedFrom(b), Agreements) \in Nat
  BY <1>2, <1>3, <1>4, SumIsInt, SumIsNat
<1> QED
  BY <1>1, <1>2, <1>3, <1>5

\* What has left a batch is a number.
LEMMA IssuedIsInt ==
    ASSUME TypeOK, NEW b \in Batches
    PROVE  Issued(b) \in Int
BY IssuedSums

\* A step of one sale changes what was issued by what that sale has taken.
LEMMA IssuedAtSale ==
    ASSUME TypeOK, TypeOK', NEW s \in Sales, NEW b \in Batches, OthersKept(s),
           \A o \in Sales \ {s} : /\ replacement'[o] = replacement[o]
                                  /\ returnMoves'[o] = returnMoves[o],
           UNCHANGED financing
    PROVE  Issued(b)' = Issued(b) + (Taken(s, b)' - Taken(s, b))
<1>1. Issued(b)' = SumFunctionOnSet(TakenFrom(b)', Sales)
                   + SumFunctionOnSet(FinancedFrom(b)', Agreements)
  BY DEF Issued, TakenFrom, FinancedFrom, Taken, Sum
<1>2. /\ Issued(b) = SumFunctionOnSet(TakenFrom(b), Sales)
                     + SumFunctionOnSet(FinancedFrom(b), Agreements)
      /\ \A o \in Sales : TakenFrom(b)[o] = Taken(o, b) /\ TakenFrom(b)[o] \in Int
      /\ SumFunctionOnSet(TakenFrom(b), Sales) \in Int
      /\ SumFunctionOnSet(FinancedFrom(b), Agreements) \in Int
  BY IssuedSums
<1>3. FinancedFrom(b)' = FinancedFrom(b)
  BY DEF FinancedFrom
<1>4. \A o \in Sales \ {s} : Taken(o, b)' = Taken(o, b)
  BY DEF Taken, Live, OthersKept
<1>5. \A o \in Sales : TakenFrom(b)'[o] = Taken(o, b)'
  BY DEF TakenFrom
<1>6. Taken(s, b)' \in Int
  <2>1. /\ sale'[s].alloc[b] \in Nat
        /\ returnMoves'[s][b] \in Nat /\ replacement'[s].alloc[b] \in Nat
    BY StockConstants DEF TypeOK, SaleRow, IssueRow, Quantities
  <2>2. 1 * sale'[s].alloc[b] \in Int /\ 0 * sale'[s].alloc[b] \in Int
    BY <2>1
  <2>3. Live(s)' = 0 \/ Live(s)' = 1
    BY DEF Live
  <2> QED
    BY <2>1, <2>2, <2>3 DEF Taken
<1>7. SumFunctionOnSet(TakenFrom(b)', Sales) =
        SumFunctionOnSet(TakenFrom(b), Sales) + (Taken(s, b)' - Taken(s, b))
  <2> DEFINE f == TakenFrom(b)
             g == TakenFrom(b)'
  <2>1. IsFiniteSet(Sales)
    BY StockConstants
  <2>2. \A o \in Sales : f[o] \in Int
    BY <1>2
  <2>3. g[s] \in Int
    BY <1>5, <1>6
  <2>4. \A o \in Sales \ {s} : g[o] = f[o]
    BY <1>2, <1>4, <1>5
  <2>5. g[s] = Taken(s, b)' /\ f[s] = Taken(s, b)
    BY <1>2, <1>5
  <2>6. SumFunctionOnSet(g, Sales) = SumFunctionOnSet(f, Sales) + (g[s] - f[s])
    <3> HIDE DEF f, g
    <3> QED
      BY <2>1, <2>2, <2>3, <2>4, SumChangesAt
  <2> QED
    BY <2>5, <2>6
<1>8. Taken(s, b) \in Int
  BY <1>2
<1> HIDE DEF Taken
<1> QED
  BY <1>1, <1>2, <1>3, <1>6, <1>7, <1>8

\* A new agreement adds what it takes to what was issued.
LEMMA IssuedAtAgreement ==
    ASSUME TypeOK, NEW a \in Agreements, NEW b \in Batches,
           NEW take \in [Batches -> Quantities], NEW us,
           financing[a] = [alloc |-> Nothing, units |-> {}],
           financing' = [financing EXCEPT ![a] = [alloc |-> take, units |-> us]],
           UNCHANGED <<sale, replacement, returnMoves>>
    PROVE  Issued(b)' = Issued(b) + take[b]
<1>1. Issued(b)' = SumFunctionOnSet(TakenFrom(b)', Sales)
                   + SumFunctionOnSet(FinancedFrom(b)', Agreements)
  BY DEF Issued, TakenFrom, FinancedFrom, Taken, Sum
<1>2. /\ Issued(b) = SumFunctionOnSet(TakenFrom(b), Sales)
                     + SumFunctionOnSet(FinancedFrom(b), Agreements)
      /\ SumFunctionOnSet(TakenFrom(b), Sales) \in Int
      /\ SumFunctionOnSet(FinancedFrom(b), Agreements) \in Int
      /\ \A x \in Agreements : FinancedFrom(b)[x] \in Int
  BY IssuedSums
<1>3. TakenFrom(b)' = TakenFrom(b)
  BY DEF TakenFrom, Taken, Live
<1>4. take[b] \in Int
  BY QuantitiesAreNat
<1> DEFINE f == FinancedFrom(b)
           g == FinancedFrom(b)'
<1>5. f[a] = 0 /\ g[a] = take[b] /\ g[a] \in Int
  BY <1>4 DEF FinancedFrom, Nothing, TypeOK
<1>6. \A x \in Agreements \ {a} : g[x] = f[x]
  BY DEF FinancedFrom, TypeOK
<1>7. IsFiniteSet(Agreements)
  BY StockConstants
<1>8. \A x \in Agreements : f[x] \in Int
  BY <1>2
<1>9. SumFunctionOnSet(g, Agreements) = SumFunctionOnSet(f, Agreements) + (g[a] - f[a])
  <2> HIDE DEF f, g
  <2> QED
    BY <1>5, <1>6, <1>7, <1>8, SumChangesAt
<1> QED
  BY <1>1, <1>2, <1>3, <1>4, <1>5, <1>9

\* Nothing was issued from a line that was not received.
LEMMA NothingIssuedFromDrafts ==
    ASSUME RowsInv, NEW b \in Batches, NotReceived(b)
    PROVE  Issued(b) = 0
<1> USE DEF RowsInv, DraftInv
<1>1. \A s \in Sales : sale[s].alloc[b] = 0 /\ replacement[s].alloc[b] = 0
                       /\ returnMoves[s][b] = 0
  BY DEF DraftsHoldNoStock, NotReceived, ReturnsFromReceived
<1>2. \A s \in Sales : TakenFrom(b)[s] = 0
  <2>1. SUFFICES ASSUME NEW s \in Sales PROVE TakenFrom(b)[s] = 0
    OBVIOUS
  <2>2. Live(s) * sale[s].alloc[b] = 0
    BY <1>1 DEF Live
  <2> QED
    BY <1>1, <2>2 DEF TakenFrom, Taken
<1>3. \A a \in Agreements : FinancedFrom(b)[a] = 0
  BY DEF FinancedFrom, DraftsHoldNoStock, NotReceived
<1>4. IsFiniteSet(Sales) /\ IsFiniteSet(Agreements)
  BY StockConstants
<1>5. /\ SumFunctionOnSet(TakenFrom(b), Sales) = 0
      /\ SumFunctionOnSet(FinancedFrom(b), Agreements) = 0
  BY <1>2, <1>3, <1>4, SumOfZeros
<1> QED
  BY <1>5, IssuedSums

LedgerInv == RowsInv /\ BatchLedger /\ ShelvesCounted

IssuedMoves(put, take) ==
    \A b \in Batches : Issued(b)' = Issued(b) + (take[b] - put[b])

\* A step that takes take out of the batches, puts back put, and adds at most one
\* line nobody has taken from keeps the ledger of the batches.
LEMMA BatchLedgerKept ==
    ASSUME RowsInv, RowsInv', BatchLedger, NEW c, NEW put, NEW take,
           BatchesMove(c, put, take), IssuedMoves(put, take),
           \A b \in Batches \ {c} : LineKept(b),
           c \in Batches => /\ NotReceived(c) /\ take[c] = 0 /\ put[c] = 0
                            /\ batch'[c].remaining = batch'[c].received
    PROVE  BatchLedger'
<1> SUFFICES ASSUME NEW b \in Batches, batch'[b].status = "received"
             PROVE  batch'[b].remaining = batch'[b].received - Issued(b)'
  BY DEF BatchLedger
<1>0. /\ \A d \in Batches : put[d] \in Int /\ take[d] \in Int
      /\ \A d \in Batches \ {c} :
            batch'[d].remaining = batch[d].remaining + put[d] - take[d]
      /\ Issued(b)' = Issued(b) + (take[b] - put[b])
  BY DEF BatchesMove, IssuedMoves
<1>1. Issued(b) \in Int /\ batch[b].remaining \in Int /\ batch[b].received \in Int
  BY IssuedIsInt DEF RowsInv, DraftInv, TypeOK, BatchRow
<1>2. CASE b = c
  <2>1. Issued(b)' = 0
    BY <1>0, <1>2, NothingIssuedFromDrafts
  <2>2. batch'[b].received \in Int
    BY DEF RowsInv, DraftInv, TypeOK, BatchRow
  <2> QED
    BY <1>2, <2>1, <2>2
<1>3. CASE b # c
  <2>1. /\ batch'[b].remaining = batch[b].remaining + put[b] - take[b]
        /\ batch'[b].received = batch[b].received /\ batch[b].status = "received"
        /\ Issued(b)' = Issued(b) + (take[b] - put[b])
    BY <1>0, <1>3 DEF LineKept
  <2>2. batch[b].remaining = batch[b].received - Issued(b)
    BY <2>1 DEF BatchLedger
  <2> QED
    BY <1>0, <1>1, <2>1, <2>2
<1> QED
  BY <1>2, <1>3

\* The same step keeps the count of the shelves, when each quantity moves by what
\* its line says.
LEMMA ShelvesKept ==
    ASSUME RowsInv, RowsInv', ShelvesCounted, NEW c, NEW put, NEW take,
           BatchesMove(c, put, take), QuantitiesMove(c, put, take),
           UNCHANGED looseMoves
    PROVE  ShelvesCounted'
<1> SUFFICES ASSUME NEW p \in Products
             PROVE  product'[p].qty = looseMoves'[p] + OnHand(p)'
  BY DEF ShelvesCounted
<1> DEFINE more == IF c \in Batches /\ batch'[c].product = p THEN batch'[c].remaining ELSE 0
           gain == Sum(put, Lot(p)) - Sum(take, Lot(p))
<1>1. OnHand(p)' = OnHand(p) + gain + more
  BY OnHandChanges DEF RowsInv, DraftInv
<1>2. product'[p].qty = product[p].qty + gain + more
  BY DEF QuantitiesMove
<1>3. product[p].qty = looseMoves[p] + OnHand(p)
  BY DEF ShelvesCounted
<1>4. IsFiniteSet(Lot(p)) /\ Lot(p) \subseteq Batches
  BY LotIsFinite
<1>5. gain \in Int
  <2>1. SumFunctionOnSet(put, Lot(p)) \in Int /\ SumFunctionOnSet(take, Lot(p)) \in Int
    BY <1>4, SumIsInt DEF BatchesMove
  <2> QED
    BY <2>1 DEF Sum
<1>6. more \in Int
  BY DEF RowsInv, DraftInv, TypeOK, BatchRow
<1>7. looseMoves[p] \in Int /\ product[p].qty \in Int
  BY DEF RowsInv, DraftInv, TypeOK, ProductRow
<1>8. OnHand(p) \in Int
  BY OnHandIsInt DEF RowsInv, DraftInv
<1> HIDE DEF more, gain
<1> QED
  BY <1>1, <1>2, <1>3, <1>5, <1>6, <1>7, <1>8

\* Nothing adds up to nothing.
LEMMA NothingSums ==
    ASSUME NEW p
    PROVE  Sum(Nothing, Lot(p)) = 0 /\ \A b \in Batches : Nothing[b] = 0
<1>1. \A b \in Batches : Nothing[b] = 0
  BY DEF Nothing
<1>2. IsFiniteSet(Lot(p)) /\ \A b \in Lot(p) : Nothing[b] = 0
  BY <1>1, LotIsFinite
<1> QED
  BY <1>1, <1>2, SumOfZeros DEF Sum

\* Receiving and correcting stock keep both ledgers balanced.
LEMMA ReceivingKeepsLedgers ==
    ASSUME LedgerInv, RowsInv', NEW b \in Batches, Receiving(b)
    PROVE  BatchLedger' /\ ShelvesCounted'
<1> USE DEF LedgerInv, RowsInv
<1>1. /\ UNCHANGED <<sale, financing, replacement, looseMoves, saleMoves, returnMoves>>
      /\ \A c \in Batches \ {b} : batch'[c] = batch[c] /\ batchMoves'[c] = batchMoves[c]
      /\ LineStep(b)
  BY ReceivingRows
<1>2. PICK n \in Int : BatchGrows(b, batch'[b].product, n)
  BY ReceivingRows
<1>3. \A c \in Batches : batch[c].remaining \in Int /\ batch[c].received \in Int
                         /\ Issued(c) \in Int
  BY IssuedIsInt DEF DraftInv, TypeOK, BatchRow
<1>4. BatchLedger'
  <2>1. \A c \in Batches : Issued(c)' = Issued(c)
    BY <1>1 DEF Issued, Live
  <2>2. batch'[b].status = "received" =>
          batch'[b].remaining = batch'[b].received - Issued(b)
    <3>1. CASE batch[b].status = "received"
      <4>1. batch[b].remaining = batch[b].received - Issued(b)
        BY <3>1 DEF BatchLedger
      <4> QED
        BY <1>2, <1>3, <3>1, <4>1 DEF BatchGrows
    <3>2. CASE batch[b].status # "received"
      <4>1. NotReceived(b)
        BY <3>2 DEF NotReceived, DraftInv, TypeOK, BatchRow
      <4>2. Issued(b) = 0 /\ batch[b].remaining = 0
        BY <4>1, NothingIssuedFromDrafts DEF DraftInv, DraftsHoldNoStock, NotReceived
      <4> QED
        BY <1>2, <3>2, <4>2 DEF BatchGrows
    <3> QED
      BY <3>1, <3>2
  <2> QED
    BY <1>1, <2>1, <2>2 DEF BatchLedger
<1>5. ShelvesCounted'
  <2> DEFINE gain == [c \in Batches |-> IF c = b THEN n ELSE 0]
  <2>1. \A c \in Batches : gain[c] \in Int /\ Nothing[c] \in Int
    BY NothingSums
  <2>2. CASE batch[b].product = None
    <3>1. LotsGrow(b) /\ batch[b].remaining = 0
      BY <1>1, <2>2 DEF LotsGrow, LineStep, LinesNamed, DraftInv, DraftsHoldNoStock
    <3>2. \A c \in Batches \ {b} :
            batch'[c].remaining = batch[c].remaining + Nothing[c] - Nothing[c]
      BY <1>1, <1>3, NothingSums
    <3>3. \A p \in Products : product'[p].qty = product[p].qty
            + (Sum(Nothing, Lot(p)) - Sum(Nothing, Lot(p)))
            + (IF b \in Batches /\ batch'[b].product = p THEN batch'[b].remaining ELSE 0)
      <4>1. SUFFICES ASSUME NEW p \in Products
                     PROVE  product'[p].qty = product[p].qty
                              + (Sum(Nothing, Lot(p)) - Sum(Nothing, Lot(p)))
                              + (IF b \in Batches /\ batch'[b].product = p
                                 THEN batch'[b].remaining ELSE 0)
        OBVIOUS
      <4>2. batch'[b].remaining = n
        BY <1>2, <3>1 DEF BatchGrows
      <4>3. product'[p].qty = product[p].qty + (IF p = batch'[b].product THEN n ELSE 0)
        BY <1>2 DEF BatchGrows
      <4>4. product[p].qty \in Int
        BY DEF DraftInv, TypeOK, ProductRow
      <4> QED
        BY <4>2, <4>3, <4>4, NothingSums
    <3>4. BatchesMove(b, Nothing, Nothing) /\ QuantitiesMove(b, Nothing, Nothing)
      BY <2>1, <2>2, <3>1, <3>2, <3>3 DEF BatchesMove, QuantitiesMove
    <3> QED
      BY <1>1, <3>4, ShelvesKept
  <2>3. CASE batch[b].product # None
    <3>1. LotsGrow(None) /\ batch'[b].product = batch[b].product /\ None \notin Batches
      BY <1>1, <2>3, StockConstants DEF LotsGrow, LineStep, LinesNamed
    <3>2. \A c \in Batches \ {None} :
            batch'[c].remaining = batch[c].remaining + gain[c] - Nothing[c]
      <4>1. SUFFICES ASSUME NEW c \in Batches
                     PROVE  batch'[c].remaining = batch[c].remaining + gain[c] - Nothing[c]
        OBVIOUS
      <4> QED
        BY <1>1, <1>2, <1>3, NothingSums DEF BatchGrows
    <3>3. \A p \in Products : product'[p].qty = product[p].qty
            + (Sum(gain, Lot(p)) - Sum(Nothing, Lot(p)))
            + (IF None \in Batches /\ batch'[None].product = p
               THEN batch'[None].remaining ELSE 0)
      <4>1. SUFFICES ASSUME NEW p \in Products
                     PROVE  product'[p].qty = product[p].qty
                              + (Sum(gain, Lot(p)) - Sum(Nothing, Lot(p))) + 0
        BY <3>1
      <4>2. Sum(gain, Lot(p)) = IF p = batch[b].product THEN n ELSE 0
        <5>1. IsFiniteSet(Lot(p)) /\ Lot(p) \subseteq Batches
          BY LotIsFinite
        <5>2. CASE p = batch[b].product
          <6>1. b \in Lot(p) /\ gain[b] = n /\ \A c \in Lot(p) \ {b} : gain[c] = 0
            BY <5>1, <5>2 DEF Lot
          <6> HIDE DEF gain
          <6> QED
            BY <5>1, <5>2, <6>1, SumOfOne DEF Sum
        <5>3. CASE p # batch[b].product
          <6>1. \A c \in Lot(p) : gain[c] = 0
            BY <5>1, <5>3 DEF Lot
          <6> HIDE DEF gain
          <6> QED
            BY <5>1, <5>3, <6>1, SumOfZeros DEF Sum
        <5> QED
          BY <5>2, <5>3
      <4>3. product'[p].qty = product[p].qty + (IF p = batch[b].product THEN n ELSE 0)
        BY <1>2, <3>1 DEF BatchGrows
      <4>4. product[p].qty \in Int
        BY DEF DraftInv, TypeOK, ProductRow
      <4> HIDE DEF gain
      <4> QED
        BY <4>2, <4>3, <4>4, NothingSums
    <3> HIDE DEF gain
    <3>4. BatchesMove(None, gain, Nothing) /\ QuantitiesMove(None, gain, Nothing)
      BY <2>1, <3>1, <3>2, <3>3 DEF BatchesMove, QuantitiesMove
    <3> QED
      BY <1>1, <3>4, ShelvesKept
  <2> QED
    BY <2>2, <2>3
<1> QED
  BY <1>4, <1>5

\* Recording and editing a sale keep both ledgers balanced.
LEMMA WriteSaleKeepsLedgers ==
    ASSUME LedgerInv, RowsInv', NEW s \in Sales, NEW order \in Orders,
           NEW take \in [Batches -> Quantities], NEW trade \in TradeIns,
           sale[s].status = "none" \/ Amendable(s),
           WriteSale(s, order, take, trade)
    PROVE  BatchLedger' /\ ShelvesCounted'
<1>0. /\ RowsInv /\ BatchLedger /\ ShelvesCounted
      /\ DraftInv /\ LinesNamed /\ SaleRowsAgree /\ AllocationsMatchLines
      /\ TypeOK /\ TypeOK' /\ DraftsHoldNoStock
  BY DEF LedgerInv, RowsInv, DraftInv
<1> DEFINE c == trade.batch
           alloc == sale[s].alloc
<1>1. /\ Fills(order, RestoredBatch(s), RestoredUnit(s), take, {"individual"})
      /\ OthersKept(s)
      /\ \A b \in Batches \ {c} :
            /\ LineKept(b)
            /\ batch'[b].remaining = batch[b].remaining + alloc[b] - take[b]
      /\ TradeInLine(trade)
      /\ \A p \in Products : product'[p].qty =
            product[p].qty + sale[s].quantity[p] - order.quantity[p]
            + (IF p = trade.product THEN 1 ELSE 0)
      /\ UNCHANGED <<financing, replacement, looseMoves, returnMoves>>
  BY <1>0, WriteSaleRows
<1>2. sale'[s].status = "active" /\ sale'[s].alloc = take
  <2>1. sale'[s] = WrittenRow(order, take, trade)
    BY <1>0, WriteSaleRows
  <2> QED
    BY <2>1 DEF WrittenRow
<1>3. \A b \in Batches : alloc[b] \in Int /\ take[b] \in Int
  BY <1>0, StockConstants DEF TypeOK, SaleRow, Quantities
<1>4. /\ c \in Batches => /\ batch[c].status = "absent" /\ batch[c].product = None
                          /\ batch'[c].remaining = 1 /\ batch'[c].received = 1
                          /\ batch'[c].product = trade.product /\ trade.product \in Products
      /\ c \notin Batches => trade.product \notin Products
  BY <1>0, <1>1 DEF TradeInLine, LinesNamed
<1> HIDE DEF c
<1>5. c \in Batches => NotReceived(c) /\ take[c] = 0 /\ alloc[c] = 0
  BY <1>0, <1>1, <1>4 DEF NotReceived, Fills, DraftsHoldNoStock
<1>6. LotsGrow(c)
  BY <1>1, <1>4 DEF LotsGrow, LineKept
<1>7. \A b \in Batches : Issued(b)' = Issued(b) + (take[b] - alloc[b])
  <2>1. SUFFICES ASSUME NEW b \in Batches
                 PROVE  Issued(b)' = Issued(b) + (take[b] - alloc[b])
    OBVIOUS
  <2>2. Issued(b)' = Issued(b) + (Taken(s, b)' - Taken(s, b))
    BY <1>0, <1>1, IssuedAtSale
  <2>3. Live(s) * alloc[b] = alloc[b]
    <3>1. Live(s) = 1 \/ (Live(s) = 0 /\ alloc[b] = 0)
      BY <1>0 DEF Amendable, Live, SaleRowsAgree, SaleAgrees
    <3> QED
      BY <1>3, <3>1
  <2>4. Live(s)' * sale'[s].alloc[b] = take[b]
    <3>1. Live(s)' = 1
      BY <1>2 DEF Live
    <3> QED
      BY <1>2, <1>3, <3>1
  <2>5. returnMoves[s][b] \in Int /\ replacement[s].alloc[b] \in Int
    BY <1>0, TakenIsInt
  <2>6. /\ Taken(s, b) = alloc[b] - returnMoves[s][b] + replacement[s].alloc[b]
        /\ Taken(s, b)' = take[b] - returnMoves[s][b] + replacement[s].alloc[b]
    BY <1>1, <2>3, <2>4 DEF Taken
  <2>7. Taken(s, b)' - Taken(s, b) = take[b] - alloc[b]
    BY <1>3, <2>5, <2>6
  <2> QED
    BY <2>2, <2>7
<1>8. BatchesMove(c, alloc, take) /\ IssuedMoves(alloc, take)
  BY <1>1, <1>3, <1>4, <1>6, <1>7 DEF BatchesMove, IssuedMoves
<1>9. \A p \in Products : product'[p].qty = product[p].qty
        + (Sum(alloc, Lot(p)) - Sum(take, Lot(p)))
        + (IF c \in Batches /\ batch'[c].product = p THEN batch'[c].remaining ELSE 0)
  <2>1. SUFFICES ASSUME NEW p \in Products
                 PROVE  product'[p].qty = product[p].qty
                          + (Sum(alloc, Lot(p)) - Sum(take, Lot(p)))
                          + (IF c \in Batches /\ batch'[c].product = p
                             THEN batch'[c].remaining ELSE 0)
    OBVIOUS
  <2>2. RestoredBatch(s) \in [Batches -> Nat]
    BY <1>0, StockConstants DEF RestoredBatch, TypeOK, BatchRow, SaleRow,
                          Quantities
  <2>3. Sum(take, Lot(p)) = order.quantity[p]
    BY <1>0, <1>1, <2>2, FillsInFull
  <2>4. Sum(alloc, Lot(p)) = sale[s].quantity[p]
    BY <1>0 DEF AllocationsMatchLines
  <2>5. /\ product[p].qty \in Int /\ sale[s].quantity[p] \in Int
        /\ order.quantity[p] \in Int
    BY <1>0, StockConstants
       DEF TypeOK, ProductRow, SaleRow, Quantities, Lines, Orders
  <2>6. (IF c \in Batches /\ batch'[c].product = p THEN batch'[c].remaining ELSE 0)
          = IF p = trade.product THEN 1 ELSE 0
    BY <1>4
  <2>7. product'[p].qty = product[p].qty + sale[s].quantity[p] - order.quantity[p]
                          + (IF p = trade.product THEN 1 ELSE 0)
    BY <1>1
  <2> QED
    BY <2>3, <2>4, <2>5, <2>6, <2>7
<1>10. QuantitiesMove(c, alloc, take)
  BY <1>9 DEF QuantitiesMove
<1> HIDE DEF alloc
<1>11. BatchLedger'
  BY <1>0, <1>1, <1>4, <1>5, <1>8, BatchLedgerKept
<1>12. ShelvesCounted'
  BY <1>0, <1>1, <1>8, <1>10, ShelvesKept
<1> QED
  BY <1>11, <1>12

\* Voiding a sale keeps both ledgers balanced.
LEMMA VoidSaleKeepsLedgers ==
    ASSUME LedgerInv, RowsInv', NEW s \in Sales, VoidSale(s)
    PROVE  BatchLedger' /\ ShelvesCounted'
<1>0. /\ RowsInv /\ BatchLedger /\ ShelvesCounted
      /\ DraftInv /\ LinesNamed /\ SaleRowsAgree /\ AllocationsMatchLines
      /\ TypeOK /\ TypeOK' /\ DraftsHoldNoStock
  BY DEF LedgerInv, RowsInv, DraftInv
<1> DEFINE alloc == sale[s].alloc
<1>1. /\ Amendable(s) /\ OthersKept(s)
      /\ sale'[s] = [sale[s] EXCEPT !.status = "voided"]
      /\ \A b \in Batches :
            LineKept(b) /\ batch'[b].remaining = batch[b].remaining + alloc[b]
      /\ \A p \in Products : product'[p].qty = product[p].qty + sale[s].quantity[p]
      /\ UNCHANGED <<financing, replacement, batchMoves, looseMoves, returnMoves>>
  BY <1>0, VoidSaleRows
<1>2. sale'[s].status = "voided" /\ sale'[s].alloc = alloc
  <2>1. sale[s] \in SaleRow
    BY <1>0 DEF TypeOK
  <2> QED
    BY <1>1, <2>1 DEF SaleRow
<1>3. \A b \in Batches : alloc[b] \in Int /\ batch[b].remaining \in Int
  BY <1>0, StockConstants DEF TypeOK, SaleRow, Quantities, BatchRow
<1>11. \A b \in Batches : Nothing[b] = 0
  BY NothingSums
<1>4. None \notin Batches /\ LotsGrow(None)
  BY <1>1, StockConstants DEF LotsGrow, LineKept
<1>5. \A b \in Batches : Issued(b)' = Issued(b) + (Nothing[b] - alloc[b])
  <2>1. SUFFICES ASSUME NEW b \in Batches
                 PROVE  Issued(b)' = Issued(b) + (Nothing[b] - alloc[b])
    OBVIOUS
  <2>2. Issued(b)' = Issued(b) + (Taken(s, b)' - Taken(s, b))
    BY <1>0, <1>1, IssuedAtSale
  <2>3. Live(s) = 1 /\ Live(s)' = 0
    BY <1>1, <1>2 DEF Live, Amendable
  <2>4. /\ Live(s) * alloc[b] = alloc[b] /\ Live(s)' * sale'[s].alloc[b] = 0
    BY <1>2, <1>3, <2>3
  <2>5. returnMoves[s][b] \in Int /\ replacement[s].alloc[b] \in Int
    BY <1>0, TakenIsInt
  <2>6. /\ Taken(s, b) = alloc[b] - returnMoves[s][b] + replacement[s].alloc[b]
        /\ Taken(s, b)' = 0 - returnMoves[s][b] + replacement[s].alloc[b]
    BY <1>1, <2>4 DEF Taken
  <2>7. Taken(s, b)' - Taken(s, b) = Nothing[b] - alloc[b]
    BY <1>3, <1>11, <2>5, <2>6
  <2> QED
    BY <2>2, <2>7
<1>6. \A b \in Batches \ {None} :
        LineKept(b) /\ batch'[b].remaining = batch[b].remaining + alloc[b] - Nothing[b]
  BY <1>1, <1>3, <1>11
<1>7. \A b \in Batches : alloc[b] \in Int /\ Nothing[b] \in Int
  BY <1>3, <1>11
<1>8. BatchesMove(None, alloc, Nothing) /\ IssuedMoves(alloc, Nothing)
  BY <1>4, <1>5, <1>6, <1>7 DEF BatchesMove, IssuedMoves
<1>9. \A p \in Products : product'[p].qty = product[p].qty
        + (Sum(alloc, Lot(p)) - Sum(Nothing, Lot(p)))
        + (IF None \in Batches /\ batch'[None].product = p
           THEN batch'[None].remaining ELSE 0)
  <2>1. SUFFICES ASSUME NEW p \in Products
                 PROVE  product'[p].qty = product[p].qty
                          + (Sum(alloc, Lot(p)) - Sum(Nothing, Lot(p))) + 0
    BY <1>4
  <2>2. Sum(alloc, Lot(p)) = sale[s].quantity[p] /\ Sum(Nothing, Lot(p)) = 0
    BY <1>0, NothingSums DEF AllocationsMatchLines
  <2>3. product[p].qty \in Int /\ sale[s].quantity[p] \in Int
    BY <1>0, StockConstants DEF TypeOK, ProductRow, SaleRow, Quantities, Lines
  <2> QED
    BY <1>1, <2>2, <2>3
<1>10. QuantitiesMove(None, alloc, Nothing)
  BY <1>9 DEF QuantitiesMove
<1> HIDE DEF alloc
<1>12. BatchLedger'
  BY <1>0, <1>4, <1>6, <1>8, BatchLedgerKept
<1>13. ShelvesCounted'
  BY <1>0, <1>1, <1>8, <1>10, ShelvesKept
<1> QED
  BY <1>12, <1>13

\* What a return puts back is what its sellable lines say.
LEMMA PutsBackInFull ==
    ASSUME TypeOK, NEW s \in Sales, NEW back \in [Lines -> Quantities], NEW cond,
           NEW put \in [Batches -> Quantities], ReturnsLines(s, back, cond, put),
           NEW p \in Products
    PROVE  Sum(put, Lot(p)) = Sellable(back, cond, p)
<1>1. IsFiniteSet(Lot(p)) /\ Lot(p) \subseteq Batches
  BY LotIsFinite
<1>2. back[p] \in Nat /\ sale[s].returned[p] \in Nat
  BY StockConstants DEF TypeOK, SaleRow, Quantities, Lines
<1>3. CASE Sellable(back, cond, p) > 0
  <2>1. PutsBack(s, p, back[p], put)
    BY <1>3 DEF ReturnsLines
  <2>2. PICK part \in [Batches -> Quantities] :
          /\ GivenBack(s, p, sale[s].returned[p], part)
          /\ GivenBack(s, p, sale[s].returned[p] + back[p],
                       [b \in Batches |-> part[b] + put[b]])
    BY <2>1 DEF PutsBack
  <2> DEFINE both == [b \in Batches |-> part[b] + put[b]]
  <2>3. SumFunctionOnSet(part, Lot(p)) = sale[s].returned[p]
    BY <2>2 DEF GivenBack, TakesInOrder, Sum
  <2>4. SumFunctionOnSet(both, Lot(p)) = sale[s].returned[p] + back[p]
    BY <2>2 DEF GivenBack, TakesInOrder, Sum
  <2>5. \A b \in Lot(p) : /\ part[b] \in Int /\ put[b] \in Int
                          /\ both[b] = part[b] + put[b]
    <3>1. \A b \in Batches : part[b] \in Int /\ put[b] \in Int
      BY QuantitiesAreNat
    <3>2. \A b \in Batches : both[b] = part[b] + put[b]
      OBVIOUS
    <3> QED
      BY <1>1, <3>1, <3>2
  <2>6. SumFunctionOnSet(both, Lot(p)) =
          SumFunctionOnSet(part, Lot(p)) + SumFunctionOnSet(put, Lot(p))
    <3> HIDE DEF both
    <3> QED
      BY <1>1, <2>5, SumAdds
  <2>7. SumFunctionOnSet(put, Lot(p)) \in Int
    BY <1>1, <2>5, SumIsInt
  <2>8. Sellable(back, cond, p) = back[p]
    BY <1>3 DEF Sellable
  <2> HIDE DEF both
  <2> QED
    BY <1>2, <2>3, <2>4, <2>6, <2>7, <2>8 DEF Sum
<1>4. CASE ~(Sellable(back, cond, p) > 0)
  <2>1. \A b \in Lot(p) : put[b] = 0
    BY <1>4 DEF ReturnsLines
  <2>2. Sellable(back, cond, p) = 0
    BY <1>2, <1>4 DEF Sellable
  <2> QED
    BY <1>1, <2>1, <2>2, SumOfZeros DEF Sum
<1> QED
  BY <1>3, <1>4

\* A return with its replacement keeps both ledgers balanced.
LEMMA RecordReturnKeepsLedgers ==
    ASSUME LedgerInv, RowsInv', NEW s \in Sales, RecordReturn(s)
    PROVE  BatchLedger' /\ ShelvesCounted'
<1>0. /\ RowsInv /\ BatchLedger /\ ShelvesCounted /\ DraftInv /\ TypeOK /\ TypeOK'
  BY DEF LedgerInv, RowsInv, DraftInv
<1>1. PICK back \in [Lines -> Quantities], cond \in [Lines -> Conditions],
           put \in [Batches -> Quantities], order \in Replacements,
           give \in [Batches -> Quantities] :
        ReturnsLines(s, back, cond, put) /\ Exchanges(s, back, cond, put, order, give)
  BY DEF RecordReturn
<1>2. /\ Fills(order, PutBackBatch(put), ReturnedShelf(s, back, cond), give,
               {"individual"})
      /\ OthersKept(s) /\ sale'[s] = ReturnedRow(s, back)
      /\ \A b \in Batches :
            /\ LineKept(b)
            /\ batch'[b].remaining = batch[b].remaining + put[b] - give[b]
            /\ replacement'[s].alloc[b] = replacement[s].alloc[b] + give[b]
            /\ returnMoves'[s][b] = returnMoves[s][b] + put[b]
      /\ \A o \in Sales \ {s} : /\ replacement'[o] = replacement[o]
                                /\ returnMoves'[o] = returnMoves[o]
      /\ \A p \in Products : product'[p].qty =
            product[p].qty + Sellable(back, cond, p) - order.quantity[p]
      /\ UNCHANGED <<financing, batchMoves, looseMoves>>
  BY <1>0, <1>1, RecordReturnRows
<1>3. \A b \in Batches : put[b] \in Nat /\ give[b] \in Nat
  BY QuantitiesAreNat
<1>4. None \notin Batches /\ LotsGrow(None)
  BY <1>2, StockConstants DEF LotsGrow, LineKept
<1>5. sale'[s].status = sale[s].status /\ sale'[s].alloc = sale[s].alloc
  <2>1. sale[s] \in SaleRow
    BY <1>0 DEF TypeOK
  <2> QED
    BY <1>2, <2>1 DEF SaleRow, ReturnedRow
<1>6. IssuedMoves(put, give)
  <2>1. SUFFICES ASSUME NEW b \in Batches
                 PROVE  Issued(b)' = Issued(b) + (give[b] - put[b])
    BY DEF IssuedMoves
  <2>2. Issued(b)' = Issued(b) + (Taken(s, b)' - Taken(s, b))
    BY <1>0, <1>2, IssuedAtSale
  <2>3. /\ returnMoves[s][b] \in Int /\ replacement[s].alloc[b] \in Int
        /\ sale[s].alloc[b] \in Int /\ 1 * sale[s].alloc[b] \in Int
        /\ 0 * sale[s].alloc[b] \in Int /\ Live(s) \in {0, 1}
    BY <1>0, TakenIsInt
  <2>4. Live(s) * sale[s].alloc[b] \in Int
    BY <2>3
  <2>5. Live(s)' * sale'[s].alloc[b] = Live(s) * sale[s].alloc[b]
    BY <1>5 DEF Live
  <2>6. Taken(s, b)' = Live(s) * sale[s].alloc[b] - (returnMoves[s][b] + put[b])
                       + (replacement[s].alloc[b] + give[b])
    BY <1>2, <2>5 DEF Taken
  <2>7. Taken(s, b)' - Taken(s, b) = give[b] - put[b]
    BY <1>3, <2>3, <2>4, <2>6 DEF Taken
  <2> QED
    BY <2>2, <2>7
<1>7. BatchesMove(None, put, give)
  BY <1>2, <1>3, <1>4 DEF BatchesMove
<1>8. QuantitiesMove(None, put, give)
  <2>1. SUFFICES ASSUME NEW p \in Products
                 PROVE  product'[p].qty = product[p].qty
                          + (Sum(put, Lot(p)) - Sum(give, Lot(p))) + 0
    BY <1>4 DEF QuantitiesMove
  <2>2. PutBackBatch(put) \in [Batches -> Nat]
    BY <1>0, <1>3 DEF PutBackBatch, TypeOK, BatchRow
  <2>3. order \in Orders
    BY DEF Replacements
  <2>4. Sum(give, Lot(p)) = order.quantity[p]
    BY <1>0, <1>2, <2>2, <2>3, FillsInFull
  <2>5. Sum(put, Lot(p)) = Sellable(back, cond, p)
    BY <1>0, <1>1, PutsBackInFull
  <2>6. /\ product[p].qty \in Int /\ Sellable(back, cond, p) \in Int
        /\ order.quantity[p] \in Int
    BY <1>0, <2>3, StockConstants
       DEF TypeOK, ProductRow, Sellable, Quantities, Lines, Orders
  <2> QED
    BY <1>2, <2>4, <2>5, <2>6
<1>9. BatchLedger'
  BY <1>0, <1>2, <1>4, <1>6, <1>7, BatchLedgerKept
<1>10. ShelvesCounted'
  BY <1>0, <1>2, <1>7, <1>8, ShelvesKept
<1> QED
  BY <1>9, <1>10

\* A financing agreement keeps both ledgers balanced.
LEMMA FinancingKeepsLedgers ==
    ASSUME LedgerInv, RowsInv', NEW a \in Agreements, CreateFinancing(a)
    PROVE  BatchLedger' /\ ShelvesCounted'
<1>0. /\ RowsInv /\ BatchLedger /\ ShelvesCounted /\ DraftInv /\ TypeOK /\ TypeOK'
  BY DEF LedgerInv, RowsInv, DraftInv
<1>1. PICK order \in Orders, take \in [Batches -> Quantities] :
        /\ Fills(order, OnShelves, UnitStatuses, take, {"quantity", "individual"})
        /\ financing[a] = [alloc |-> Nothing, units |-> {}]
        /\ financing' = [financing EXCEPT ![a] =
              [alloc |-> take, units |-> Picked(order)]]
        /\ \A b \in Batches :
              /\ LineKept(b)
              /\ batch'[b].remaining = batch[b].remaining - take[b]
        /\ \A p \in Products : product'[p].qty =
                                 product[p].qty - order.quantity[p]
        /\ UnitsTaken(order)
        /\ UNCHANGED <<sale, replacement, batchMoves, looseMoves, saleMoves,
                       returnMoves>>
  BY <1>0, FinancingRows
<1>2. \A b \in Batches : take[b] \in Nat /\ batch[b].remaining \in Int
  BY <1>0, StockConstants DEF Quantities, TypeOK, BatchRow
<1>3. None \notin Batches /\ LotsGrow(None)
  BY <1>1, StockConstants DEF LotsGrow, LineKept
<1>4. \A b \in Batches : Nothing[b] = 0
  BY NothingSums
<1>5. IssuedMoves(Nothing, take)
  <2>1. SUFFICES ASSUME NEW b \in Batches
                 PROVE  Issued(b)' = Issued(b) + (take[b] - Nothing[b])
    BY DEF IssuedMoves
  <2>2. Issued(b)' = Issued(b) + take[b]
    BY <1>0, <1>1, IssuedAtAgreement
  <2> QED
    BY <1>2, <1>4, <2>2
<1>6. BatchesMove(None, Nothing, take)
  BY <1>1, <1>2, <1>3, <1>4 DEF BatchesMove
<1>7. QuantitiesMove(None, Nothing, take)
  <2>1. SUFFICES ASSUME NEW p \in Products
                 PROVE  product'[p].qty = product[p].qty
                          + (Sum(Nothing, Lot(p)) - Sum(take, Lot(p))) + 0
    BY <1>3 DEF QuantitiesMove
  <2>2. OnShelves \in [Batches -> Nat]
    BY <1>0 DEF OnShelves, TypeOK, BatchRow
  <2>3. Sum(take, Lot(p)) = order.quantity[p]
    BY <1>0, <1>1, <2>2, FillsInFull
  <2>4. product[p].qty \in Int /\ order.quantity[p] \in Int
    BY <1>0, StockConstants DEF TypeOK, ProductRow, Quantities, Lines, Orders
  <2>5. Sum(Nothing, Lot(p)) = 0
    BY NothingSums
  <2> QED
    BY <1>1, <2>3, <2>4, <2>5
<1>8. BatchLedger'
  BY <1>0, <1>1, <1>3, <1>5, <1>6, BatchLedgerKept
<1>9. ShelvesCounted'
  BY <1>0, <1>1, <1>6, <1>7, ShelvesKept
<1> QED
  BY <1>8, <1>9

\* The ledgers balance after every step if they balanced before it.
LEMMA StepKeepsLedgers ==
    ASSUME LedgerInv, [Next]_vars
    PROVE  LedgerInv'
<1>0. RowsInv'
  BY StepKeepsRows DEF LedgerInv
<1> SUFFICES BatchLedger' /\ ShelvesCounted'
  BY <1>0 DEF LedgerInv
<1> DEFINE Goal == BatchLedger' /\ ShelvesCounted'
<1>1. ASSUME NEW b \in Batches, Receiving(b)
      PROVE  Goal
  BY <1>0, <1>1, ReceivingKeepsLedgers
<1>2. ASSUME UNCHANGED <<batch, sale, financing, replacement, returnMoves>>
      PROVE  BatchLedger' /\ \A p \in Products : OnHand(p)' = OnHand(p)
  BY <1>2 DEF LedgerInv, BatchLedger, Issued, Live, OnHand, Lot
<1>3. ASSUME NEW p \in Products,
             AdjustStock(p) \/ \E active \in BOOLEAN : SetProductActive(p, active)
      PROVE  Goal
  <2>1. UNCHANGED <<batch, sale, financing, replacement, returnMoves>>
    BY <1>3 DEF AdjustStock, SetProductActive, moves
  <2>2. BatchLedger' /\ \A q \in Products : OnHand(q)' = OnHand(q)
    BY <1>2, <2>1
  <2>3. PICK delta \in Int : \A q \in Products :
          /\ product'[q].qty = product[q].qty + (IF q = p THEN delta ELSE 0)
          /\ looseMoves'[q] = looseMoves[q] + (IF q = p THEN delta ELSE 0)
    <3>0. \A q \in Products : /\ product[q] \in ProductRow /\ product[q].qty \in Int
                              /\ looseMoves[q] \in Int
      BY DEF LedgerInv, RowsInv, DraftInv, TypeOK, ProductRow
    <3>1. CASE AdjustStock(p)
      <4>1. PICK delta \in (-MaxQuantity .. MaxQuantity) \ {0} :
              /\ product[p].qty + delta >= 0
              /\ looseMoves[p] + delta \in -MaxLoose .. MaxLoose
              /\ product' = [product EXCEPT ![p].qty = @ + delta]
              /\ looseMoves' = [looseMoves EXCEPT ![p] = @ + delta]
              /\ UNCHANGED <<batch, unit, sale, financing, replacement, batchMoves,
                             saleMoves, returnMoves>>
        BY <3>1 DEF AdjustStock
      <4>2. delta \in Int
        BY StockConstants
      <4>3. product \in [Products -> ProductRow] /\ looseMoves \in [Products -> Int]
        BY DEF LedgerInv, RowsInv, DraftInv, TypeOK
      <4>4. \A q \in Products :
              product'[q].qty = product[q].qty + (IF q = p THEN delta ELSE 0)
        BY <3>0, <4>1, <4>2, <4>3 DEF ProductRow
      <4>5. \A q \in Products :
              looseMoves'[q] = looseMoves[q] + (IF q = p THEN delta ELSE 0)
        BY <3>0, <4>1, <4>2, <4>3
      <4> QED
        BY <4>2, <4>4, <4>5
    <3>2. CASE \E active \in BOOLEAN : SetProductActive(p, active)
      <4>1. PICK active \in BOOLEAN : product' = [product EXCEPT ![p].active = active]
        BY <3>2 DEF SetProductActive
      <4>2. looseMoves' = looseMoves
        BY <3>2 DEF SetProductActive, moves
      <4>3. \A q \in Products : product'[q].qty = product[q].qty
        BY <3>0, <4>1 DEF LedgerInv, RowsInv, DraftInv, TypeOK, ProductRow
      <4> WITNESS 0 \in Int
      <4> QED
        BY <3>0, <4>2, <4>3
    <3> QED
      BY <1>3, <3>1, <3>2
  <2>4. \A q \in Products : product[q].qty = looseMoves[q] + OnHand(q)
    BY DEF LedgerInv, ShelvesCounted
  <2>5. \A q \in Products : /\ product[q].qty \in Int /\ looseMoves[q] \in Int
    BY DEF LedgerInv, RowsInv, DraftInv, TypeOK, ProductRow
  <2>6. ShelvesCounted'
    <3>1. SUFFICES ASSUME NEW q \in Products
                   PROVE  product'[q].qty = looseMoves'[q] + OnHand(q)'
      BY DEF ShelvesCounted
    <3>2. OnHand(q) \in Int
      BY OnHandIsInt DEF LedgerInv, RowsInv, DraftInv
    <3> QED
      BY <2>2, <2>3, <2>4, <2>5, <3>2
  <2> QED
    BY <2>2, <2>6
<1>4. ASSUME NEW s \in Sales, RecordSale(s) \/ EditSale(s)
      PROVE  Goal
  <2>1. PICK order \in Orders, take \in [Batches -> Quantities],
             trade \in TradeIns : WriteSale(s, order, take, trade)
    BY <1>4 DEF RecordSale, EditSale
  <2>2. sale[s].status = "none" \/ Amendable(s)
    BY <1>4 DEF RecordSale, EditSale
  <2> QED
    BY <1>0, <2>1, <2>2, WriteSaleKeepsLedgers
<1>5. ASSUME NEW s \in Sales, VoidSale(s)
      PROVE  Goal
  BY <1>0, <1>5, VoidSaleKeepsLedgers
<1>6. ASSUME NEW s \in Sales, RecordReturn(s)
      PROVE  Goal
  BY <1>0, <1>6, RecordReturnKeepsLedgers
<1>7. ASSUME NEW a \in Agreements, CreateFinancing(a)
      PROVE  Goal
  BY <1>0, <1>7, FinancingKeepsLedgers
<1>8. CASE UNCHANGED vars
  BY <1>2, <1>8 DEF vars, moves, ShelvesCounted, LedgerInv
<1> QED
  BY <1>1, <1>3, <1>4, <1>5, <1>6, <1>7, <1>8 DEF Next, Receiving

\* The ledgers balance at first: everything is zero.
LEMMA InitLedgers == Init => LedgerInv
<1> SUFFICES ASSUME Init PROVE LedgerInv
  OBVIOUS
<1>1. /\ \A b \in Batches : batch[b].status = "absent" /\ batch[b].remaining = 0
      /\ \A p \in Products : product[p].qty = 0 /\ looseMoves[p] = 0
  BY DEF Init
<1>2. BatchLedger
  BY <1>1 DEF BatchLedger
<1>3. \A p \in Products : OnHand(p) = 0
  <2>1. SUFFICES ASSUME NEW p \in Products PROVE OnHand(p) = 0
    OBVIOUS
  <2> DEFINE f == [b \in Batches |-> batch[b].remaining]
  <2>2. IsFiniteSet(Lot(p)) /\ \A b \in Lot(p) : f[b] = 0
    BY <1>1, LotIsFinite
  <2>3. SumFunctionOnSet(f, Lot(p)) = 0
    <3> HIDE DEF f
    <3> QED
      BY <2>2, SumOfZeros
  <2> QED
    BY <2>3 DEF OnHand, Sum
<1> QED
  BY <1>1, <1>2, <1>3, InitRows DEF LedgerInv, ShelvesCounted

(***************************************************************************)
(* The stored remainder of a batch never drifts from what was received     *)
(* into it less what left it.                                              *)
(***************************************************************************)
THEOREM BatchesBalance == Spec => []BatchLedger
<1>1. LedgerInv /\ [Next]_vars => LedgerInv'
  BY StepKeepsLedgers
<1>2. LedgerInv => BatchLedger
  BY DEF LedgerInv
<1> QED
  BY InitLedgers, <1>1, <1>2, PTL DEF Spec

(***************************************************************************)
(* The quantity of a product is the sum of its inventory movements, less   *)
(* what financing and replacements took: the batches and the movements     *)
(* tell the same story.                                                    *)
(***************************************************************************)
MovedFrom(b) ==
    [s \in Sales |-> saleMoves[s][b] - returnMoves[s][b] + replacement[s].alloc[b]]
Balance(b) ==
    batchMoves[b] - Sum(MovedFrom(b), Sales) - Sum(FinancedFrom(b), Agreements)

\* The movements of a product, less what recorded none, are what it has on hand.
LEMMA MovementsTellTheRest ==
    ASSUME LedgerInv, NEW b \in Batches
    PROVE  Balance(b) = batch[b].remaining
<1>0. /\ RowsInv /\ TypeOK /\ SaleRowsAgree /\ ReceiptsCounted /\ BatchLedger
      /\ DraftsHoldNoStock
  BY DEF LedgerInv, RowsInv, DraftInv
<1>1. /\ Issued(b) = SumFunctionOnSet(TakenFrom(b), Sales)
                     + SumFunctionOnSet(FinancedFrom(b), Agreements)
      /\ \A s \in Sales : TakenFrom(b)[s] = Taken(s, b) /\ TakenFrom(b)[s] \in Int
      /\ SumFunctionOnSet(TakenFrom(b), Sales) \in Int
      /\ SumFunctionOnSet(FinancedFrom(b), Agreements) \in Int
  BY <1>0, IssuedSums
<1>2. \A s \in Sales : MovedFrom(b)[s] = TakenFrom(b)[s]
  BY <1>0, <1>1 DEF MovedFrom, Taken, SaleRowsAgree, SaleAgrees
<1>3. SumFunctionOnSet(MovedFrom(b), Sales) = SumFunctionOnSet(TakenFrom(b), Sales)
  <2>1. IsFiniteSet(Sales)
    BY StockConstants
  <2>2. \A s \in Sales : TakenFrom(b)[s] \in Int
    BY <1>1
  <2> QED
    BY <1>2, <2>1, <2>2, SumSame
<1>4. batchMoves[b] \in Int /\ batch[b].remaining \in Int /\ batch[b].received \in Int
  BY <1>0 DEF TypeOK, BatchRow
<1>5. Balance(b) = batchMoves[b] - Issued(b)
  BY <1>1, <1>3, <1>4 DEF Balance, Sum
<1>6. CASE batch[b].status = "received"
  BY <1>0, <1>4, <1>5, <1>6 DEF ReceiptsCounted, BatchLedger
<1>7. CASE batch[b].status # "received"
  <2>1. NotReceived(b)
    BY <1>0, <1>7 DEF NotReceived, TypeOK, BatchRow
  <2>2. Issued(b) = 0 /\ batchMoves[b] = 0 /\ batch[b].remaining = 0
    BY <1>0, <2>1, NothingIssuedFromDrafts DEF NotReceived, DraftsHoldNoStock
  <2> QED
    BY <1>5, <2>2
<1> QED
  BY <1>6, <1>7

\* The quantity of a product and its inventory movements never drift apart.
THEOREM ProductsBalance == Spec => []ProductLedger
<1>1. LedgerInv => ProductLedger
  <2>1. SUFFICES ASSUME LedgerInv, NEW p \in Products
                 PROVE  product[p].qty =
                          looseMoves[p] + Sum([b \in Batches |-> Balance(b)], Lot(p))
    BY DEF ProductLedger, Balance, MovedFrom, FinancedFrom
  <2> DEFINE f == [b \in Batches |-> batch[b].remaining]
             g == [b \in Batches |-> Balance(b)]
  <2>2. IsFiniteSet(Lot(p)) /\ Lot(p) \subseteq Batches
    BY LotIsFinite
  <2>3. \A b \in Lot(p) : f[b] \in Int
    BY <2>1, <2>2 DEF LedgerInv, RowsInv, DraftInv, TypeOK, BatchRow
  <2>4. \A b \in Lot(p) : g[b] = f[b]
    BY <2>1, <2>2, MovementsTellTheRest
  <2>5. SumFunctionOnSet(g, Lot(p)) = SumFunctionOnSet(f, Lot(p))
    <3> HIDE DEF f, g
    <3> QED
      BY <2>2, <2>3, <2>4, SumSame
  <2>6. product[p].qty = looseMoves[p] + OnHand(p)
    BY <2>1 DEF LedgerInv, ShelvesCounted
  <2> QED
    BY <2>5, <2>6 DEF OnHand, Sum
<1>2. LedgerInv /\ [Next]_vars => LedgerInv'
  BY StepKeepsLedgers
<1> QED
  BY InitLedgers, <1>1, <1>2, PTL DEF Spec

-----------------------------------------------------------------------------
(* Returns *)

\* What the loop takes in order grows with what is wanted.
LEMMA TakesMore ==
    ASSUME NEW lot, IsFiniteSet(lot), NEW have, NEW before,
           NEW n \in Int, NEW m \in Int, n <= m, NEW few, NEW many,
           \A b \in lot : have[b] \in Int /\ few[b] \in Nat /\ many[b] \in Nat,
           \A b, o \in lot : b = o \/ b \in before[o] \/ o \in before[b],
           TakesInOrder(lot, have, n, few, before),
           TakesInOrder(lot, have, m, many, before)
    PROVE  \A b \in lot : few[b] <= many[b]
<1>1. SUFFICES ASSUME NEW b \in lot, many[b] < few[b]
               PROVE  FALSE
  OBVIOUS
<1>2. /\ SumFunctionOnSet(few, lot) = n /\ SumFunctionOnSet(many, lot) = m
      /\ \A c \in lot : /\ few[c] <= have[c] /\ many[c] <= have[c]
                        /\ few[c] > 0 => \A o \in lot : o \in before[c] => few[o] = have[o]
                        /\ many[c] > 0 => \A o \in lot : o \in before[c] => many[o] = have[o]
  BY DEF TakesInOrder, Sum
<1>3. ASSUME NEW o \in lot PROVE many[o] <= few[o]
  <2>1. CASE o = b
    BY <1>1, <2>1
  <2>2. CASE o \in before[b]
    <3>1. few[b] > 0
      BY <1>1
    <3>2. few[o] = have[o]
      BY <1>2, <2>2, <3>1
    <3> QED
      BY <1>2, <3>2
  <2>3. CASE b \in before[o]
    <3>1. CASE many[o] > 0
      <4>1. many[b] = have[b]
        BY <1>2, <2>3, <3>1
      <4>2. few[b] <= have[b]
        BY <1>2
      <4> QED
        BY <1>1, <4>1, <4>2
    <3>2. CASE ~(many[o] > 0)
      BY <3>2
    <3> QED
      BY <3>1, <3>2
  <2> QED
    BY <2>1, <2>2, <2>3
<1>4. SumFunctionOnSet(many, lot) < SumFunctionOnSet(few, lot)
  <2>1. \A y \in lot : many[y] \in Int /\ few[y] \in Int /\ many[y] <= few[y]
    BY <1>3
  <2> QED
    BY <1>1, <2>1, SumGrowsStrictly
<1> QED
  BY <1>2, <1>4

\* No line gives back more than it sold.
ReturnedLines == \A s \in Sales, i \in Lines : sale[s].returned[i] <= sale[s].quantity[i]

\* The strengthening: what came back to each batch never exceeds what the loop
\* would give back for the pieces returned so far, or for more.
ReturnsFollow(s) ==
    \A p \in Products, k \in Nat, part \in [Batches -> Nat] :
        k >= sale[s].returned[p] /\ GivenBack(s, p, k, part)
        => \A b \in Lot(p) : returnMoves[s][b] <= part[b]

ReturnsInv ==
    /\ RowsInv /\ ReturnedLines
    /\ \A s \in Sales : ReturnsFollow(s)

\* The order of received batches does not change.
OrderKept ==
    \A b \in Batches : batch[b].status = "received" => batch'[b].at = batch[b].at

\* Two batches are always in some order, the newer one first.
LEMMA NewestFirstIsTotal ==
    ASSUME TypeOK
    PROVE  \A b, o \in Batches : b = o \/ b \in NewestFirst[o] \/ o \in NewestFirst[b]
<1> SUFFICES ASSUME NEW b \in Batches, NEW o \in Batches, b # o
             PROVE  b \in NewestFirst[o] \/ o \in NewestFirst[b]
  OBVIOUS
<1>1. b \in Nat /\ o \in Nat /\ batch[b].at \in Nat /\ batch[o].at \in Nat
  BY StockConstants DEF TypeOK, BatchRow
<1>2. b \in OldestFirst[o] \/ o \in OldestFirst[b]
  BY <1>1 DEF OldestFirst
<1> QED
  BY <1>2 DEF NewestFirst

\* Batches a sale took from keep their order, and the others do not count.
LEMMA GivenBackKept ==
    ASSUME RowsInv, NEW c, LotsGrow(c), OrderKept, NEW s \in Sales,
           sale'[s].alloc = sale[s].alloc,
           NEW p \in Products, NEW k, NEW part \in [Batches -> Nat],
           GivenBack(s, p, k, part)'
    PROVE  GivenBack(s, p, k, part)
<1> DEFINE alloc == sale[s].alloc
<1>1. /\ Sum(part, Lot(p)') = k
      /\ \A b \in Lot(p)' :
            /\ part[b] <= alloc[b]
            /\ part[b] > 0 => \A o \in Lot(p)' : o \in NewestFirst'[b] => part[o] = alloc[o]
  BY DEF GivenBack, TakesInOrder
<1>2. Lot(p) \subseteq Batches /\ Lot(p) \subseteq Lot(p)'
  BY StockConstants DEF Lot, LotsGrow
<1>3. \A b \in Batches : part[b] \in Nat /\ alloc[b] \in Nat
  BY StockConstants DEF RowsInv, DraftInv, TypeOK, SaleRow, Quantities
<1>4. ASSUME NEW b \in Batches, batch[b].status # "received" PROVE alloc[b] = 0
  <2>1. batch[b].status \in {"absent", "draft", "archived"}
    BY <1>4 DEF RowsInv, DraftInv, TypeOK, BatchRow
  <2> QED
    BY <2>1 DEF RowsInv, DraftInv, DraftsHoldNoStock
<1>5. Sum(part, Lot(p)) = k
  <2>1. c \in Batches /\ batch[c].product = None /\ batch'[c].product = p => part[c] = 0
    <3>1. SUFFICES ASSUME c \in Batches, batch[c].product = None, batch'[c].product = p
                   PROVE  part[c] = 0
      OBVIOUS
    <3>2. alloc[c] = 0
      BY <3>1 DEF RowsInv, LinesNamed, DraftInv, DraftsHoldNoStock
    <3>3. c \in Lot(p)'
      BY <3>1 DEF Lot
    <3> QED
      BY <1>1, <1>3, <3>1, <3>2, <3>3
  <2>2. Sum(part, Lot(p)') = Sum(part, Lot(p)) +
          (IF c \in Batches /\ batch[c].product = None /\ batch'[c].product = p
           THEN part[c] ELSE 0)
    BY <1>3, LotSum
  <2>3. Sum(part, Lot(p)) \in Int
    <3>1. IsFiniteSet(Lot(p)) /\ \A b \in Lot(p) : part[b] \in Int
      BY <1>3, LotIsFinite
    <3> QED
      BY <3>1, SumIsInt DEF Sum
  <2> QED
    BY <1>1, <2>1, <2>2, <2>3
<1>6. ASSUME NEW b \in Lot(p), part[b] > 0, NEW o \in Lot(p), o \in NewestFirst[b]
      PROVE  part[o] = alloc[o]
  <2>1. part[b] <= alloc[b] /\ part[o] <= alloc[o] /\ b \in Batches /\ o \in Batches
    BY <1>1, <1>2
  <2>2. CASE alloc[o] = 0
    BY <1>3, <2>1, <2>2
  <2>3. CASE alloc[o] # 0
    <3>1. batch'[b].at = batch[b].at /\ batch'[o].at = batch[o].at
      BY <1>3, <1>4, <1>6, <2>1, <2>3 DEF OrderKept
    <3>2. o \in NewestFirst'[b]
      BY <1>6, <2>1, <3>1 DEF NewestFirst, OldestFirst
    <3> QED
      BY <1>1, <1>2, <1>6, <3>2
  <2> QED
    BY <2>2, <2>3
<1> QED
  BY <1>1, <1>2, <1>5, <1>6 DEF GivenBack, TakesInOrder

\* A sale whose rows a step leaves alone.
LEMMA ReturnsFollowKept ==
    ASSUME RowsInv, NEW c, LotsGrow(c), OrderKept, NEW s \in Sales,
           sale'[s].alloc = sale[s].alloc, sale'[s].returned = sale[s].returned,
           returnMoves'[s] = returnMoves[s], ReturnsFollow(s)
    PROVE  ReturnsFollow(s)'
<1> SUFFICES ASSUME NEW p \in Products, NEW k \in Nat, NEW part \in [Batches -> Nat],
                    k >= sale[s].returned[p], GivenBack(s, p, k, part)',
                    NEW b \in Lot(p)'
             PROVE  returnMoves[s][b] <= part[b]
  BY DEF ReturnsFollow
<1>1. GivenBack(s, p, k, part)
  BY GivenBackKept
<1>2. CASE b \in Lot(p)
  BY <1>1, <1>2 DEF ReturnsFollow
<1>3. CASE b \notin Lot(p)
  <2>1. b \in Batches /\ batch[b].product = None
    BY <1>3 DEF Lot, LotsGrow
  <2>2. returnMoves[s][b] = 0
    BY <2>1 DEF RowsInv, LinesNamed, ReturnsFromReceived, NotReceived
  <2>3. part[b] \in Nat
    BY <2>1
  <2> QED
    BY <2>2, <2>3
<1> QED
  BY <1>2, <1>3

\* A step that leaves every sale and its returns alone.
LEMMA ReturnsUntouched ==
    ASSUME ReturnsInv, NEW c, LotsGrow(c), OrderKept, UNCHANGED <<sale, returnMoves>>
    PROVE  ReturnedLines' /\ \A s \in Sales : ReturnsFollow(s)'
<1>1. ReturnedLines'
  BY DEF ReturnsInv, ReturnedLines
<1>2. \A s \in Sales : ReturnsFollow(s)'
  BY ReturnsFollowKept DEF ReturnsInv
<1> QED
  BY <1>1, <1>2

\* Receiving and correcting stock give nothing back.
LEMMA ReceivingKeepsReturns ==
    ASSUME ReturnsInv, NEW b \in Batches, Receiving(b)
    PROVE  ReturnedLines' /\ \A s \in Sales : ReturnsFollow(s)'
<1>0. RowsInv /\ DraftInv /\ LinesNamed
  BY DEF ReturnsInv, RowsInv
<1>1. /\ UNCHANGED <<sale, financing, replacement, looseMoves, saleMoves, returnMoves>>
      /\ \A c \in Batches \ {b} : batch'[c] = batch[c]
      /\ LineStep(b)
  BY <1>0, ReceivingRows
<1>2. LotsGrow(b)
  BY <1>0, <1>1 DEF LotsGrow, LineStep, LinesNamed
<1>3. OrderKept
  BY <1>1 DEF OrderKept, LineStep
<1> QED
  BY <1>1, <1>2, <1>3, ReturnsUntouched

\* A sale that is written over has no returns, and starts again with none.
LEMMA WriteSaleKeepsReturns ==
    ASSUME ReturnsInv, RowsInv', NEW s \in Sales, NEW order \in Orders,
           NEW take \in [Batches -> Quantities], NEW trade \in TradeIns,
           sale[s].status = "none" \/ Amendable(s),
           WriteSale(s, order, take, trade)
    PROVE  ReturnedLines' /\ \A o \in Sales : ReturnsFollow(o)'
<1>0. /\ RowsInv /\ DraftInv /\ LinesNamed /\ SaleRowsAgree /\ ReturnedLines
      /\ \A o \in Sales : ReturnsFollow(o)
  BY DEF ReturnsInv, RowsInv
<1> DEFINE c == trade.batch
<1>1. /\ sale'[s] = WrittenRow(order, take, trade) /\ OthersKept(s)
      /\ \A b \in Batches \ {c} : LineKept(b)
      /\ TradeInLine(trade) /\ UNCHANGED returnMoves
  BY <1>0, WriteSaleRows
<1> HIDE DEF c
<1>2. c \in Batches => /\ batch[c].status = "absent" /\ batch[c].product = None
                       /\ batch'[c].product \in Products
  BY <1>0, <1>1 DEF TradeInLine, LinesNamed, c
<1>3. LotsGrow(c)
  BY <1>1, <1>2 DEF LotsGrow, LineKept
<1>4. OrderKept
  BY <1>1, <1>2 DEF OrderKept, LineKept
<1>5. ReturnedLines'
  <2>1. \A i \in Lines : order.quantity[i] >= 0
    BY StockConstants DEF Orders, Quantities
  <2>2. /\ sale'[s].quantity = order.quantity
        /\ \A i \in Lines : sale'[s].returned[i] = 0
    BY <1>1 DEF WrittenRow
  <2> QED
    BY <1>0, <1>1, <2>1, <2>2 DEF ReturnedLines, OthersKept
<1>6. ASSUME NEW o \in Sales \ {s} PROVE ReturnsFollow(o)'
  <2>1. /\ sale'[o].alloc = sale[o].alloc /\ sale'[o].returned = sale[o].returned
        /\ returnMoves'[o] = returnMoves[o] /\ ReturnsFollow(o)
    BY <1>0, <1>1 DEF OthersKept
  <2> QED
    BY <1>0, <1>3, <1>4, <2>1, ReturnsFollowKept
<1>7. ReturnsFollow(s)'
  <2>1. \A b \in Batches : returnMoves'[s][b] = 0
    BY <1>0, <1>1 DEF SaleRowsAgree, SaleAgrees, Amendable
  <2>2. \A p : Lot(p)' \subseteq Batches
    BY DEF Lot
  <2> QED
    BY <2>1, <2>2 DEF ReturnsFollow
<1> QED
  BY <1>5, <1>6, <1>7

\* A void, of a sale without returns, leaves nothing given back.
LEMMA VoidSaleKeepsReturns ==
    ASSUME ReturnsInv, NEW s \in Sales, VoidSale(s)
    PROVE  ReturnedLines' /\ \A o \in Sales : ReturnsFollow(o)'
<1>0. /\ RowsInv /\ DraftInv /\ TypeOK /\ ReturnedLines
      /\ \A o \in Sales : ReturnsFollow(o)
  BY DEF ReturnsInv, RowsInv, DraftInv
<1>1. /\ OthersKept(s) /\ sale'[s] = [sale[s] EXCEPT !.status = "voided"]
      /\ \A b \in Batches : LineKept(b)
      /\ UNCHANGED <<batchMoves, returnMoves>>
  BY <1>0, VoidSaleRows
<1>2. LotsGrow(None) /\ OrderKept
  BY <1>1, StockConstants DEF LotsGrow, OrderKept, LineKept
<1>3. /\ sale'[s].quantity = sale[s].quantity /\ sale'[s].alloc = sale[s].alloc
      /\ sale'[s].returned = sale[s].returned
  <2>1. sale[s] \in SaleRow
    BY <1>0 DEF TypeOK
  <2> QED
    BY <1>1, <2>1 DEF SaleRow
<1>4. ReturnedLines'
  BY <1>0, <1>1, <1>3 DEF ReturnedLines, OthersKept
<1>5. ASSUME NEW o \in Sales PROVE ReturnsFollow(o)'
  <2>1. /\ sale'[o].alloc = sale[o].alloc /\ sale'[o].returned = sale[o].returned
        /\ returnMoves'[o] = returnMoves[o] /\ ReturnsFollow(o)
    BY <1>0, <1>1, <1>3 DEF OthersKept
  <2> QED
    BY <1>0, <1>2, <2>1, ReturnsFollowKept
<1> QED
  BY <1>4, <1>5

\* What this return puts back and what earlier ones did stay within what the loop
\* gives back for all the pieces returned by now.
LEMMA ReturnFollows ==
    ASSUME ReturnsInv, NEW s \in Sales, NEW back \in [Lines -> Quantities], NEW cond,
           NEW put \in [Batches -> Quantities], ReturnsLines(s, back, cond, put),
           NEW p \in Products, NEW k \in Nat, k >= sale[s].returned[p] + back[p],
           NEW part \in [Batches -> Nat], GivenBack(s, p, k, part),
           NEW b \in Lot(p)
    PROVE  returnMoves[s][b] + put[b] <= part[b]
<1>0. /\ TypeOK /\ ReturnsFollow(s)
      /\ back[p] \in Nat /\ sale[s].returned[p] \in Nat
  BY StockConstants DEF ReturnsInv, RowsInv, DraftInv, TypeOK, SaleRow, Quantities, Lines
<1>1. IsFiniteSet(Lot(p)) /\ Lot(p) \subseteq Batches
  BY LotIsFinite
<1>2. /\ returnMoves[s][b] \in Nat /\ put[b] \in Nat /\ part[b] \in Nat
  <2>1. b \in Batches
    BY <1>1
  <2>2. returnMoves[s] \in [Batches -> Nat]
    BY <1>0 DEF TypeOK
  <2> QED
    BY <2>1, <2>2, QuantitiesAreNat
<1>3. CASE Sellable(back, cond, p) > 0
  <2>1. PutsBack(s, p, back[p], put)
    BY <1>3 DEF ReturnsLines
  <2>2. PICK before \in [Batches -> Quantities] :
          /\ GivenBack(s, p, sale[s].returned[p], before)
          /\ GivenBack(s, p, sale[s].returned[p] + back[p],
                       [d \in Batches |-> before[d] + put[d]])
    BY <2>1 DEF PutsBack
  <2> DEFINE both == [d \in Batches |-> before[d] + put[d]]
             alloc == sale[s].alloc
  <2>3. before \in [Batches -> Nat]
    BY QuantitiesAreNat
  <2>4. returnMoves[s][b] <= before[b]
    BY <1>0, <2>2, <2>3 DEF ReturnsFollow
  <2>5. \A d \in Lot(p) : /\ alloc[d] \in Int /\ both[d] \in Nat /\ part[d] \in Nat
    <3>1. \A d \in Batches : before[d] \in Nat /\ put[d] \in Nat /\ part[d] \in Nat
      BY <2>3, QuantitiesAreNat
    <3>2. \A d \in Batches : alloc[d] \in Int
      BY <1>0, StockConstants DEF TypeOK, SaleRow, Quantities
    <3> QED
      BY <1>1, <3>1, <3>2
  <2>6. \A d, o \in Lot(p) : d = o \/ d \in NewestFirst[o] \/ o \in NewestFirst[d]
    BY <1>0, <1>1, NewestFirstIsTotal
  <2>7. /\ TakesInOrder(Lot(p), alloc, sale[s].returned[p] + back[p], both, NewestFirst)
        /\ TakesInOrder(Lot(p), alloc, k, part, NewestFirst)
    BY <2>2 DEF GivenBack
  <2>8. both[b] = before[b] + put[b] /\ before[b] \in Nat
    BY <1>1, <2>3
  <2> HIDE DEF both, alloc
  <2>9. sale[s].returned[p] + back[p] \in Int /\ k \in Int
    BY <1>0
  <2>10. both[b] <= part[b]
    BY <1>0, <1>1, <2>5, <2>6, <2>7, <2>9, TakesMore
  <2> QED
    BY <1>2, <2>4, <2>8, <2>10
<1>4. CASE ~(Sellable(back, cond, p) > 0)
  <2>1. put[b] = 0
    BY <1>4 DEF ReturnsLines
  <2>2. returnMoves[s][b] <= part[b]
    BY <1>0 DEF ReturnsFollow
  <2> QED
    BY <1>2, <2>1, <2>2
<1> QED
  BY <1>3, <1>4

\* A return gives back what was not given back yet, and no more.
LEMMA RecordReturnKeepsReturns ==
    ASSUME ReturnsInv, NEW s \in Sales, RecordReturn(s)
    PROVE  ReturnedLines' /\ \A o \in Sales : ReturnsFollow(o)'
<1>0. /\ RowsInv /\ DraftInv /\ TypeOK /\ ReturnedLines
      /\ \A o \in Sales : ReturnsFollow(o)
  BY DEF ReturnsInv, RowsInv, DraftInv
<1>1. PICK back \in [Lines -> Quantities], cond \in [Lines -> Conditions],
           put \in [Batches -> Quantities], order \in Replacements,
           give \in [Batches -> Quantities] :
        ReturnsLines(s, back, cond, put) /\ Exchanges(s, back, cond, put, order, give)
  BY DEF RecordReturn
<1>2. /\ OthersKept(s) /\ sale'[s] = ReturnedRow(s, back)
      /\ \A b \in Batches : /\ LineKept(b)
                            /\ returnMoves'[s][b] = returnMoves[s][b] + put[b]
      /\ \A o \in Sales \ {s} : returnMoves'[o] = returnMoves[o]
  BY <1>0, <1>1, RecordReturnRows
<1>3. LotsGrow(None) /\ OrderKept
  BY <1>2, StockConstants DEF LotsGrow, OrderKept, LineKept
<1>4. /\ sale'[s].quantity = sale[s].quantity /\ sale'[s].alloc = sale[s].alloc
      /\ \A i \in Lines : sale'[s].returned[i] = sale[s].returned[i] + back[i]
  <2>1. sale[s] \in SaleRow
    BY <1>0 DEF TypeOK
  <2> QED
    BY <1>2, <2>1 DEF SaleRow, ReturnedRow
<1>5. ReturnedLines'
  <2>1. ASSUME NEW i \in Lines PROVE sale'[s].returned[i] <= sale'[s].quantity[i]
    <3>1. back[i] <= sale[s].quantity[i] - sale[s].returned[i]
      BY <1>1 DEF ReturnsLines, Unreturned
    <3>2. /\ back[i] \in Int /\ sale[s].quantity[i] \in Int
          /\ sale[s].returned[i] \in Int
      BY <1>0, StockConstants DEF TypeOK, SaleRow, Quantities
    <3> QED
      BY <1>4, <3>1, <3>2
  <2> QED
    BY <1>0, <1>2, <2>1 DEF ReturnedLines, OthersKept
<1>6. ASSUME NEW o \in Sales \ {s} PROVE ReturnsFollow(o)'
  <2>1. /\ sale'[o].alloc = sale[o].alloc /\ sale'[o].returned = sale[o].returned
        /\ returnMoves'[o] = returnMoves[o] /\ ReturnsFollow(o)
    BY <1>0, <1>2 DEF OthersKept
  <2> QED
    BY <1>0, <1>3, <2>1, ReturnsFollowKept
<1>7. ReturnsFollow(s)'
  <2>1. SUFFICES ASSUME NEW p \in Products, NEW k \in Nat, NEW part \in [Batches -> Nat],
                        k >= sale'[s].returned[p], GivenBack(s, p, k, part)',
                        NEW b \in Lot(p)'
                 PROVE  returnMoves'[s][b] <= part[b]
    BY DEF ReturnsFollow
  <2>2. GivenBack(s, p, k, part)
    BY <1>0, <1>3, <1>4, <2>1, GivenBackKept
  <2>3. b \in Lot(p) /\ b \in Batches
    BY <1>2 DEF Lot, LineKept
  <2>4. k >= sale[s].returned[p] + back[p]
    BY <1>4, <2>1 DEF Lines
  <2>5. returnMoves[s][b] + put[b] <= part[b]
    BY <1>1, <2>2, <2>3, <2>4, ReturnFollows
  <2> QED
    BY <1>2, <2>3, <2>5
<1> QED
  BY <1>5, <1>6, <1>7

\* Every step keeps returns within the sale and in the order of its batches.
LEMMA StepKeepsReturns ==
    ASSUME ReturnsInv, [Next]_vars
    PROVE  ReturnsInv'
<1>0. RowsInv' /\ RowsInv /\ DraftInv
  BY StepKeepsRows DEF ReturnsInv, RowsInv
<1> SUFFICES ReturnedLines' /\ \A s \in Sales : ReturnsFollow(s)'
  BY <1>0 DEF ReturnsInv
<1> DEFINE Kept == ReturnedLines' /\ \A s \in Sales : ReturnsFollow(s)'
<1>1. ASSUME NEW b \in Batches, Receiving(b) PROVE Kept
  BY <1>1, ReceivingKeepsReturns
<1>2. ASSUME UNCHANGED <<batch, sale, returnMoves>> PROVE Kept
  <2>1. LotsGrow(None) /\ OrderKept
    BY <1>2, StockConstants DEF LotsGrow, OrderKept
  <2> QED
    BY <1>2, <2>1, ReturnsUntouched
<1>3. ASSUME NEW p \in Products,
             AdjustStock(p) \/ \E active \in BOOLEAN : SetProductActive(p, active)
      PROVE  Kept
  BY <1>2, <1>3 DEF AdjustStock, SetProductActive, moves
<1>4. ASSUME NEW s \in Sales, RecordSale(s) \/ EditSale(s) PROVE Kept
  <2>1. PICK order \in Orders, take \in [Batches -> Quantities],
             trade \in TradeIns : WriteSale(s, order, take, trade)
    BY <1>4 DEF RecordSale, EditSale
  <2>2. sale[s].status = "none" \/ Amendable(s)
    BY <1>4 DEF RecordSale, EditSale
  <2> QED
    BY <1>0, <2>1, <2>2, WriteSaleKeepsReturns
<1>5. ASSUME NEW s \in Sales, VoidSale(s) PROVE Kept
  BY <1>5, VoidSaleKeepsReturns
<1>6. ASSUME NEW s \in Sales, RecordReturn(s) PROVE Kept
  BY <1>6, RecordReturnKeepsReturns
<1>7. ASSUME NEW a \in Agreements, CreateFinancing(a) PROVE Kept
  <2>1. /\ \A b \in Batches : LineKept(b)
        /\ UNCHANGED <<sale, returnMoves>>
    BY <1>0, <1>7, FinancingRows
  <2>2. LotsGrow(None) /\ OrderKept
    BY <2>1, StockConstants DEF LotsGrow, OrderKept, LineKept
  <2> QED
    BY <2>1, <2>2, ReturnsUntouched
<1>8. CASE UNCHANGED vars
  BY <1>2, <1>8 DEF vars, moves
<1> QED
  BY <1>1, <1>3, <1>4, <1>5, <1>6, <1>7, <1>8 DEF Next, Receiving

\* What a sale has given back stays within what it took and what it returned.
LEMMA ReturnsFollowTheSale ==
    ASSUME ReturnsInv
    PROVE  ReturnsStayWithinTheSale
<1>0. /\ RowsInv /\ ReturnedLines /\ AllocationsMatchLines /\ LinesNamed
      /\ ReturnsFromReceived /\ TypeOK /\ \A s \in Sales : ReturnsFollow(s)
  BY DEF ReturnsInv, RowsInv, DraftInv
<1>1. ASSUME NEW s \in Sales, NEW b \in Batches
      PROVE  returnMoves[s][b] <= sale[s].alloc[b]
  <2> DEFINE alloc == sale[s].alloc
             p == batch[b].product
  <2>1. /\ alloc \in [Batches -> Nat] /\ returnMoves[s][b] \in Nat /\ alloc[b] \in Nat
        /\ \A i \in Lines : sale[s].quantity[i] \in Nat
    BY <1>0, StockConstants DEF TypeOK, SaleRow, Quantities
  <2>2. CASE p = None
    <3>1. returnMoves[s][b] = 0
      BY <1>0, <2>2 DEF LinesNamed, ReturnsFromReceived, NotReceived
    <3> QED
      BY <2>1, <3>1
  <2>3. CASE p # None
    <3>1. p \in Products /\ b \in Lot(p)
      BY <1>0, <2>3 DEF TypeOK, BatchRow, Lot
    <3>2. sale[s].returned[p] <= sale[s].quantity[p] /\ sale[s].quantity[p] \in Nat
      BY <1>0, <2>1, <3>1 DEF ReturnedLines, Lines
    <3>3. GivenBack(s, p, sale[s].quantity[p], alloc)
      <4>1. Sum(alloc, Lot(p)) = sale[s].quantity[p]
        BY <1>0, <3>1 DEF AllocationsMatchLines
      <4>2. \A d \in Lot(p) : alloc[d] \in Nat
        BY <2>1 DEF Lot
      <4> QED
        BY <4>1, <4>2 DEF GivenBack, TakesInOrder
    <3>4. sale[s].quantity[p] >= sale[s].returned[p]
      BY <1>0, <3>1, <3>2, StockConstants DEF TypeOK, SaleRow, Quantities, Lines
    <3> HIDE DEF alloc, p
    <3>5. returnMoves[s][b] <= alloc[b]
      BY <1>0, <2>1, <3>1, <3>2, <3>3, <3>4 DEF ReturnsFollow
    <3> QED
      BY <3>5 DEF alloc
  <2> QED
    BY <2>2, <2>3
<1> QED
  BY <1>0, <1>1 DEF ReturnsStayWithinTheSale, ReturnedLines

\* Nothing is returned at first.
LEMMA InitReturns == Init => ReturnsInv
<1> SUFFICES ASSUME Init PROVE ReturnsInv
  OBVIOUS
<1>1. RowsInv
  BY InitRows
<1>2. ReturnedLines
  BY DEF ReturnedLines, Init
<1>3. ASSUME NEW s \in Sales PROVE ReturnsFollow(s)
  <2>1. \A b \in Batches : returnMoves[s][b] = 0
    BY DEF Init, Nothing
  <2>2. \A p : Lot(p) \subseteq Batches
    BY DEF Lot
  <2> QED
    BY <2>1, <2>2 DEF ReturnsFollow
<1> QED
  BY <1>1, <1>2, <1>3 DEF ReturnsInv

\* For every sequence of returns, edits and voids, a sale never gets back more
\* than it sold, neither on a line nor into the batch the pieces came from.
THEOREM ReturnsStay == Spec => []ReturnsStayWithinTheSale
<1>1. ReturnsInv /\ [Next]_vars => ReturnsInv'
  BY StepKeepsReturns
<1>2. ReturnsInv => ReturnsStayWithinTheSale
  BY ReturnsFollowTheSale
<1> QED
  BY InitReturns, <1>1, <1>2, PTL DEF Spec

-----------------------------------------------------------------------------
(* No batch is fuller than what was received into it *)

\* Unless a return stands on a voided sale, no batch gives back more than it gave.
LEMMA NothingIssuedTwice ==
    ASSUME LedgerInv, ReturnsInv, NoReturnOnVoided, NEW b \in Batches
    PROVE  Issued(b) >= 0
<1>0. /\ TypeOK /\ SaleRowsAgree /\ ReturnsStayWithinTheSale
  BY ReturnsFollowTheSale DEF LedgerInv, RowsInv, DraftInv
<1>1. ASSUME NEW s \in Sales PROVE Taken(s, b) \in Nat
  <2>1. /\ sale[s].alloc[b] \in Nat /\ returnMoves[s][b] \in Nat
        /\ replacement[s].alloc[b] \in Nat
        /\ 1 * sale[s].alloc[b] = sale[s].alloc[b] /\ 0 * sale[s].alloc[b] = 0
    BY <1>0, TakenIsInt
  <2>2. CASE sale[s].status = "active"
    <3>1. Live(s) = 1 /\ returnMoves[s][b] <= sale[s].alloc[b]
      BY <1>0, <2>2 DEF Live, ReturnsStayWithinTheSale
    <3> QED
      BY <2>1, <3>1 DEF Taken
  <2>3. CASE sale[s].status # "active"
    <3>1. sale[s].status \in {"none", "active", "voided"}
      BY <1>0 DEF TypeOK, SaleRow
    <3>2. ~sale[s].returns
      BY <1>0, <2>3, <3>1 DEF NoReturnOnVoided, SaleRowsAgree, SaleAgrees
    <3>3. Live(s) = 0 /\ returnMoves[s][b] = 0
      BY <1>0, <2>3, <3>2 DEF Live, SaleRowsAgree, SaleAgrees
    <3> QED
      BY <2>1, <3>3 DEF Taken
  <2> QED
    BY <2>2, <2>3
<1>2. /\ Issued(b) = SumFunctionOnSet(TakenFrom(b), Sales)
                     + SumFunctionOnSet(FinancedFrom(b), Agreements)
      /\ \A s \in Sales : TakenFrom(b)[s] = Taken(s, b)
      /\ SumFunctionOnSet(FinancedFrom(b), Agreements) \in Nat
  BY <1>0, IssuedSums
<1>3. SumFunctionOnSet(TakenFrom(b), Sales) \in Nat
  <2>1. IsFiniteSet(Sales) /\ \A s \in Sales : TakenFrom(b)[s] \in Nat
    BY <1>1, <1>2, StockConstants
  <2> QED
    BY <2>1, SumIsNat
<1> QED
  BY <1>2, <1>3

\* As long as no return is recorded against a voided sale, no sequence of
\* operations fills a batch beyond what was received into it.
THEOREM BatchesHoldWhatTheyReceived == Spec => []BatchNeverOverfull
<1>1. LedgerInv /\ ReturnsInv => BatchNeverOverfull
  <2>1. SUFFICES ASSUME LedgerInv, ReturnsInv, NoReturnOnVoided, NEW b \in Batches
                 PROVE  batch[b].remaining <= batch[b].received
    BY DEF BatchNeverOverfull
  <2>2. batch[b] \in BatchRow /\ BatchLedger /\ DraftsHoldNoStock /\ TypeOK
    BY <2>1 DEF LedgerInv, RowsInv, DraftInv, TypeOK
  <2>3. CASE batch[b].status = "received"
    <3>1. batch[b].remaining = batch[b].received - Issued(b)
      BY <2>2, <2>3 DEF BatchLedger
    <3>2. Issued(b) \in Int /\ Issued(b) >= 0
      BY <2>1, <2>2, IssuedIsInt, NothingIssuedTwice
    <3>3. batch[b].received \in Nat
      BY <2>2 DEF BatchRow
    <3> QED
      BY <3>1, <3>2, <3>3
  <2>4. CASE batch[b].status # "received"
    <3>1. batch[b].remaining = 0
      BY <2>2, <2>4 DEF BatchRow, DraftsHoldNoStock
    <3> QED
      BY <2>2, <3>1 DEF BatchRow
  <2> QED
    BY <2>3, <2>4
<1>2. LedgerInv /\ [Next]_vars => LedgerInv'
  BY StepKeepsLedgers
<1>3. ReturnsInv /\ [Next]_vars => ReturnsInv'
  BY StepKeepsReturns
<1> QED
  BY InitLedgers, InitReturns, <1>1, <1>2, <1>3, PTL DEF Spec

-----------------------------------------------------------------------------
(* Who holds a unit *)

\* Sale s gave unit u out and it has not come back.
HeldBySale(s, u) ==
    /\ sale[s].status = "active"
    /\ \E p \in Products : sale[s].unit[p] = u /\ sale[s].returned[p] = 0

OneHolder(u) ==
    /\ unit[u].status = "sold" <=> Holders(u) # {}
    /\ \A g, h \in Holders(u) : g = h

\* A holder of u is a sale, an agreement or a replacement that has it.
IsHolder(g, u) ==
    \/ \E s \in Sales : g = <<"sale", s>> /\ HeldBySale(s, u)
    \/ \E a \in Agreements : g = <<"financing", a>> /\ u \in financing[a].units
    \/ \E s \in Sales : g = <<"replacement", s>> /\ u \in replacement[s].units

\* The holders of a unit, one kind at a time.
LEMMA HoldersAre ==
    ASSUME NEW u
    PROVE  /\ \A g : g \in Holders(u) <=> IsHolder(g, u)
           /\ \A g : g \in Holders(u)' <=> IsHolder(g, u)'
BY DEF Holders, IsHolder, HeldBySale

\* A return that is recorded stays recorded, and so does the end of a sale.
LEMMA NoReturnBefore ==
    ASSUME TypeOK, [Next]_vars, NoReturnOnVoided'
    PROVE  NoReturnOnVoided
<1> SUFFICES ASSUME NEW s \in Sales, sale[s].status = "voided", sale[s].returns
             PROVE  FALSE
  BY DEF NoReturnOnVoided
<1>1. sale[s] \in SaleRow
  BY DEF TypeOK
<1>2. ASSUME NEW o \in Sales, Rewritten(o) PROVE sale'[s] = sale[s]
  BY <1>2 DEF Rewritten, Amendable
<1>3. ASSUME NEW o \in Sales, Voided(o) PROVE sale'[s] = sale[s]
  BY <1>3 DEF Voided, Amendable, TypeOK
<1>4. ASSUME NEW o \in Sales, Returned(o)
      PROVE  sale'[s].status = "voided" /\ sale'[s].returns
  BY <1>1, <1>4 DEF Returned, SaleRow
<1>5. sale'[s].status = "voided" /\ sale'[s].returns
  BY <1>2, <1>3, <1>4, SaleSteps
<1> QED
  BY <1>5 DEF NoReturnOnVoided

\* A unit that enters stock was not there before.
LEMMA ReceivingUnits ==
    ASSUME DraftInv, NEW b \in Batches, Receiving(b)
    PROVE  \A u \in Units :
             \/ unit'[u] = unit[u]
             \/ /\ unit[u].status = "absent" /\ unit[u].line = None
                /\ unit'[u].line = b /\ unit'[u].status = "available"
<1>1. PICK us \in SUBSET FreshUnits : unit' = Shelve(us, b)
  <2>1. CASE CreateReceipt(b)
    BY <2>1 DEF CreateReceipt
  <2>2. CASE ~CreateReceipt(b)
    <3>1. unit' = unit
      BY <2>2 DEF Receiving, ReceiveStock, ReceiveDraft, ArchiveDraft, CloseWindow,
                  CorrectStock
    <3>2. unit = Shelve({}, b)
      BY DEF Shelve, DraftInv, TypeOK
    <3> QED
      BY <3>1, <3>2
  <2> QED
    BY <2>1, <2>2
<1> QED
  BY <1>1 DEF Shelve, FreshUnits, DraftInv, UnitsOnLines

\* What a recorded or edited sale writes into the units.
LEMMA WriteSaleUnits ==
    ASSUME DraftInv, NEW s \in Sales, NEW order \in Orders,
           NEW take \in [Batches -> Quantities], NEW trade \in TradeIns,
           WriteSale(s, order, take, trade)
    PROVE  /\ \A u \in Units \ {trade.unit} :
                /\ unit'[u].line = unit[u].line
                /\ unit'[u].status =
                     IF u \in Picked(order) THEN "sold" ELSE RestoredUnit(s)[u]
           /\ trade.unit \in Units => /\ unit[trade.unit].status = "absent"
                                      /\ unit[trade.unit].line = None
                                      /\ unit'[trade.unit].line = trade.batch
                                      /\ unit'[trade.unit].status = "available"
                                      /\ trade.batch \in Batches
           /\ trade.batch \in Batches =>
                (trade.unit \in Units <=> Mode[trade.product] = "individual")
           /\ trade.unit \notin Picked(order) /\ trade.unit \notin Picked(sale[s])
<1>1. unit' = [u \in Units |->
           IF u = trade.unit THEN [line |-> trade.batch, status |-> "available"]
           ELSE [line |-> unit[u].line,
                 status |-> IF u \in Picked(order) THEN "sold" ELSE RestoredUnit(s)[u]]]
      /\ Fills(order, RestoredBatch(s), RestoredUnit(s), take, {"individual"})
  BY DEF WriteSale
<1>2. /\ trade.unit \in Units => /\ unit[trade.unit].status = "absent"
                                 /\ unit[trade.unit].line = None
                                 /\ trade.batch \in Batches
      /\ trade.batch \in Batches =>
           (trade.unit \in Units <=> Mode[trade.product] = "individual")
  <2>1. CASE trade = NoTradeIn
    BY <2>1, StockConstants DEF NoTradeIn
  <2>2. CASE trade # NoTradeIn
    BY <2>2, StockConstants DEF TradeIns, FreshBatch, FreshUnits, DraftInv, UnitsOnLines
  <2> QED
    BY <2>1, <2>2
<1>3. ASSUME trade.unit \in Picked(order) \/ trade.unit \in Picked(sale[s])
      PROVE  FALSE
  <2>1. trade.unit \in Units
    BY <1>3 DEF Picked, DraftInv, TypeOK, SaleRow, Orders
  <2>2. unit[trade.unit].line \in Batches
    <3>1. CASE trade.unit \in Picked(order)
      <4>1. PICK p \in Products : order.unit[p] = trade.unit /\ order.unit[p] # None
        BY <3>1 DEF Picked
      <4> QED
        BY <1>1, <4>1, FillsPicks DEF DraftInv
    <3>2. CASE trade.unit \in Picked(sale[s])
      BY <3>2 DEF Picked, DraftInv, SaleUnitsAllocated
    <3> QED
      BY <1>3, <3>1, <3>2
  <2> QED
    BY <1>2, <2>1, <2>2, StockConstants
<1> QED
  BY <1>1, <1>2, <1>3

\* A void puts every unit of the sale back on the shelf.
LEMMA VoidSaleUnits ==
    ASSUME DraftInv, NEW s \in Sales, VoidSale(s)
    PROVE  \A u \in Units : /\ unit'[u].line = unit[u].line
                            /\ unit'[u].status = RestoredUnit(s)[u]
<1>1. \A u \in Units : unit[u] \in UnitRow
  BY DEF DraftInv, TypeOK
<1>2. \A u \in Units : unit'[u] = [unit[u] EXCEPT !.status = RestoredUnit(s)[u]]
  BY DEF VoidSale
<1> QED
  BY <1>1, <1>2 DEF UnitRow

\* A return changes the statuses of what comes back and of what replaces it.
LEMMA RecordReturnUnits ==
    ASSUME DraftInv, NEW s \in Sales, NEW back, NEW cond, NEW put, NEW order, NEW give,
           Exchanges(s, back, cond, put, order, give)
    PROVE  /\ \A u \in Units :
                /\ unit'[u].line = unit[u].line
                /\ unit'[u].status = IF u \in Picked(order) THEN "sold"
                                     ELSE ReturnedShelf(s, back, cond)[u]
           /\ replacement'[s].units = replacement[s].units \cup Picked(order)
<1>1. \A u \in Units : unit[u] \in UnitRow
  BY DEF DraftInv, TypeOK
<1>2. \A u \in Units : unit'[u] = [unit[u] EXCEPT
         !.status = IF u \in Picked(order) THEN "sold" ELSE ReturnedShelf(s, back, cond)[u]]
  BY DEF Exchanges
<1>3. replacement'[s].units = replacement[s].units \cup Picked(order)
  BY DEF Exchanges, DraftInv, TypeOK
<1>4. ASSUME NEW u \in Units
      PROVE  /\ unit'[u].line = unit[u].line
             /\ unit'[u].status = IF u \in Picked(order) THEN "sold"
                                  ELSE ReturnedShelf(s, back, cond)[u]
  BY <1>1, <1>2 DEF UnitRow
<1> QED
  BY <1>3, <1>4

\* The two ways the holders of a unit change.
LEMMA UnitComesBack ==
    ASSUME NEW u, OneHolder(u), NEW g, g \in Holders(u),
           \A h : h \in Holders(u)' <=> h \in Holders(u) /\ h # g,
           unit'[u].status # "sold"
    PROVE  OneHolder(u)'
BY DEF OneHolder

\* A unit that one holder gets and no one had is out, with one holder.
LEMMA UnitGoesOut ==
    ASSUME NEW u, NEW g, \A h : h \in Holders(u)' <=> h = g,
           unit'[u].status = "sold"
    PROVE  OneHolder(u)'
BY DEF OneHolder

\* A unit whose holders and status stay is still with one holder at most.
LEMMA UnitStays ==
    ASSUME NEW u, OneHolder(u), \A h : h \in Holders(u)' <=> h \in Holders(u),
           unit'[u].status = "sold" <=> unit[u].status = "sold"
    PROVE  OneHolder(u)'
BY DEF OneHolder

\* Which holder is which.
LEMMA HolderNames ==
    ASSUME NEW u
    PROVE  /\ \A s \in Sales :
                 /\ <<"sale", s>> \in Holders(u) <=> HeldBySale(s, u)
                 /\ <<"sale", s>> \in Holders(u)' <=> HeldBySale(s, u)'
                 /\ <<"replacement", s>> \in Holders(u) <=> u \in replacement[s].units
                 /\ <<"replacement", s>> \in Holders(u)' <=> u \in replacement'[s].units
           /\ \A a \in Agreements :
                 /\ <<"financing", a>> \in Holders(u) <=> u \in financing[a].units
                 /\ <<"financing", a>> \in Holders(u)' <=> u \in financing'[a].units
BY HoldersAre DEF IsHolder

\* Everybody but sale s keeps what they have.
LEMMA OthersHold ==
    ASSUME NEW s \in Sales, NEW u, OthersKept(s),
           \A a \in Agreements : financing'[a].units = financing[a].units,
           \A o \in Sales : <<"replacement", o>> \in Holders(u)'
                              <=> <<"replacement", o>> \in Holders(u)
    PROVE  \A h : h # <<"sale", s>> => (h \in Holders(u)' <=> h \in Holders(u))
<1>1. \A o \in Sales \ {s} : HeldBySale(o, u)' <=> HeldBySale(o, u)
  BY DEF HeldBySale, OthersKept
<1>2. \A o \in Sales : o # s => (<<"sale", o>> \in Holders(u)' <=> <<"sale", o>> \in Holders(u))
  BY <1>1, HolderNames
<1>3. \A a \in Agreements : <<"financing", a>> \in Holders(u)'
                              <=> <<"financing", a>> \in Holders(u)
  BY HolderNames
<1> SUFFICES ASSUME NEW h, h # <<"sale", s>>
             PROVE  h \in Holders(u)' <=> h \in Holders(u)
  OBVIOUS
<1>4. ASSUME h \in Holders(u) PROVE h \in Holders(u)'
  BY <1>2, <1>3, <1>4, HoldersAre DEF IsHolder
<1>5. ASSUME h \in Holders(u)' PROVE h \in Holders(u)
  BY <1>2, <1>3, <1>5, HoldersAre DEF IsHolder
<1> QED
  BY <1>4, <1>5

\* A sale that may be written or voided holds exactly the units it names.
LEMMA AmendableHolds ==
    ASSUME RowsInv, NEW s \in Sales, sale[s].status = "none" \/ Amendable(s), NEW u \in Units
    PROVE  HeldBySale(s, u) <=> u \in Picked(sale[s])
<1>0. None \notin Units
  BY StockConstants
<1>1. SaleAgrees(s)
  BY DEF RowsInv, SaleRowsAgree
<1>2. u \in Picked(sale[s]) <=> \E p \in Products : sale[s].unit[p] = u
  BY <1>0 DEF Picked
<1>3. CASE sale[s].status = "none"
  <2>1. \A p \in Products : sale[s].unit[p] # u
    BY <1>0, <1>1, <1>3 DEF SaleAgrees
  <2> QED
    BY <1>2, <2>1 DEF HeldBySale
<1>4. CASE Amendable(s)
  <2>1. sale[s].status = "active" /\ \A p \in Products : sale[s].returned[p] = 0
    BY <1>1, <1>4 DEF SaleAgrees, Amendable, Lines
  <2> QED
    BY <1>2, <2>1 DEF HeldBySale
<1> QED
  BY <1>3, <1>4

\* Receiving and correcting stock move no unit of a customer.
LEMMA ReceivingKeepsHolders ==
    ASSUME RowsInv, NEW b \in Batches, Receiving(b), NEW u \in Units, OneHolder(u)
    PROVE  OneHolder(u)'
<1>0. DraftInv
  BY DEF RowsInv
<1>1. UNCHANGED <<sale, financing, replacement>>
  BY <1>0, ReceivingRows
<1>2. \A h : h \in Holders(u)' <=> h \in Holders(u)
  BY <1>1, HoldersAre DEF IsHolder, HeldBySale
<1>3. unit'[u].status = "sold" <=> unit[u].status = "sold"
  BY <1>0, ReceivingUnits
<1> QED
  BY <1>2, <1>3, UnitStays

\* Recording and editing a sale leave every unit with one holder at most.
LEMMA WriteSaleKeepsHolders ==
    ASSUME RowsInv, NEW s \in Sales, NEW order \in Orders,
           NEW take \in [Batches -> Quantities], NEW trade \in TradeIns,
           sale[s].status = "none" \/ Amendable(s),
           WriteSale(s, order, take, trade), NEW u \in Units, OneHolder(u)
    PROVE  OneHolder(u)'
<1> DEFINE x == <<"sale", s>>
<1>0. DraftInv /\ TypeOK /\ None \notin Units
  BY StockConstants DEF RowsInv, DraftInv
<1>1. /\ Fills(order, RestoredBatch(s), RestoredUnit(s), take, {"individual"})
      /\ sale'[s] = WrittenRow(order, take, trade) /\ OthersKept(s)
      /\ UNCHANGED <<financing, replacement>>
  BY <1>0, WriteSaleRows
<1>2. \A h : h # x => (h \in Holders(u)' <=> h \in Holders(u))
  <2>1. \A o \in Sales : <<"replacement", o>> \in Holders(u)'
                           <=> <<"replacement", o>> \in Holders(u)
    BY <1>1, HolderNames
  <2> QED
    BY <1>1, <2>1, OthersHold
<1>3. x \in Holders(u) <=> u \in Picked(sale[s])
  BY AmendableHolds, HolderNames
<1>4. x \in Holders(u)' <=> u \in Picked(order)
  <2>1. /\ sale'[s].status = "active" /\ sale'[s].unit = order.unit
        /\ \A p \in Products : sale'[s].returned[p] = 0
    BY <1>1 DEF WrittenRow, Lines
  <2>2. HeldBySale(s, u)' <=> \E p \in Products : order.unit[p] = u
    BY <2>1 DEF HeldBySale
  <2>3. u \in Picked(order) <=> \E p \in Products : order.unit[p] = u
    BY <1>0 DEF Picked
  <2> QED
    BY <2>2, <2>3, HolderNames
<1>5. /\ u # trade.unit => unit'[u].status = IF u \in Picked(order) THEN "sold"
                                             ELSE RestoredUnit(s)[u]
      /\ u = trade.unit => /\ unit[u].status = "absent" /\ unit'[u].status = "available"
      /\ trade.unit \notin Picked(order) /\ trade.unit \notin Picked(sale[s])
  BY <1>0, WriteSaleUnits
<1>6. RestoredUnit(s)[u] = IF u \in Picked(sale[s]) THEN "available" ELSE unit[u].status
  BY DEF RestoredUnit
<1> HIDE DEF x
<1>7. CASE u \in Picked(order)
  <2>1. RestoredUnit(s)[u] = "available"
    <3>1. PICK p \in Products : order.unit[p] = u /\ order.unit[p] # None
      BY <1>7 DEF Picked
    <3> QED
      BY <1>0, <1>1, <3>1, FillsPicks
  <2>2. \A h \in Holders(u) : h = x
    BY <1>3, <1>6, <2>1 DEF OneHolder
  <2>3. \A h : h \in Holders(u)' <=> h = x
    BY <1>2, <1>4, <1>7, <2>2
  <2>4. unit'[u].status = "sold"
    BY <1>5, <1>7
  <2> QED
    BY <2>3, <2>4, UnitGoesOut
<1>8. CASE u \notin Picked(order) /\ u \in Picked(sale[s])
  <2>1. \A h : h \in Holders(u)' <=> h \in Holders(u) /\ h # x
    BY <1>2, <1>4, <1>8
  <2>2. unit'[u].status # "sold"
    BY <1>5, <1>6, <1>8
  <2> QED
    BY <1>3, <1>8, <2>1, <2>2, UnitComesBack
<1>9. CASE u \notin Picked(order) /\ u \notin Picked(sale[s])
  <2>1. \A h : h \in Holders(u)' <=> h \in Holders(u)
    BY <1>2, <1>3, <1>4, <1>9
  <2>2. unit'[u].status = "sold" <=> unit[u].status = "sold"
    BY <1>5, <1>6, <1>9
  <2> QED
    BY <2>1, <2>2, UnitStays
<1> QED
  BY <1>7, <1>8, <1>9

\* Voiding a sale leaves every unit with one holder at most.
LEMMA VoidSaleKeepsHolders ==
    ASSUME RowsInv, NEW s \in Sales, VoidSale(s), NEW u \in Units, OneHolder(u)
    PROVE  OneHolder(u)'
<1> DEFINE x == <<"sale", s>>
<1>0. DraftInv /\ TypeOK
  BY DEF RowsInv, DraftInv
<1>1. /\ Amendable(s) /\ OthersKept(s)
      /\ sale'[s] = [sale[s] EXCEPT !.status = "voided"]
      /\ UNCHANGED <<financing, replacement>>
  BY <1>0, VoidSaleRows DEF VoidSale
<1>2. \A h : h # x => (h \in Holders(u)' <=> h \in Holders(u))
  <2>1. \A o \in Sales : <<"replacement", o>> \in Holders(u)'
                           <=> <<"replacement", o>> \in Holders(u)
    BY <1>1, HolderNames
  <2> QED
    BY <1>1, <2>1, OthersHold
<1>3. x \in Holders(u) <=> u \in Picked(sale[s])
  BY <1>1, AmendableHolds, HolderNames
<1>4. x \notin Holders(u)'
  <2>1. sale[s] \in SaleRow
    BY <1>0 DEF TypeOK
  <2>2. sale'[s].status = "voided"
    BY <1>1, <2>1 DEF SaleRow
  <2> QED
    BY <2>2, HolderNames DEF HeldBySale
<1>5. unit'[u].status = IF u \in Picked(sale[s]) THEN "available" ELSE unit[u].status
  BY <1>0, VoidSaleUnits DEF RestoredUnit
<1> HIDE DEF x
<1>6. CASE u \in Picked(sale[s])
  <2>1. \A h : h \in Holders(u)' <=> h \in Holders(u) /\ h # x
    BY <1>2, <1>4
  <2> QED
    BY <1>3, <1>5, <1>6, <2>1, UnitComesBack
<1>7. CASE u \notin Picked(sale[s])
  <2>1. \A h : h \in Holders(u)' <=> h \in Holders(u)
    BY <1>2, <1>3, <1>4, <1>7
  <2> QED
    BY <1>5, <1>7, <2>1, UnitStays
<1> QED
  BY <1>6, <1>7

\* Who holds a unit outside of a sale does not change when only that sale does.
LEMMA OthersHoldToo ==
    ASSUME NEW s \in Sales, NEW u, OthersKept(s), financing' = financing,
           \A o \in Sales \ {s} : replacement'[o] = replacement[o]
    PROVE  \A h : h # <<"sale", s>> /\ h # <<"replacement", s>>
                  => (h \in Holders(u)' <=> h \in Holders(u))
<1>1. \A o \in Sales \ {s} : HeldBySale(o, u)' <=> HeldBySale(o, u)
  BY DEF HeldBySale, OthersKept
<1> SUFFICES ASSUME NEW h, h # <<"sale", s>>, h # <<"replacement", s>>
             PROVE  h \in Holders(u)' <=> h \in Holders(u)
  OBVIOUS
<1>2. ASSUME h \in Holders(u) PROVE h \in Holders(u)'
  BY <1>1, <1>2, HoldersAre DEF IsHolder
<1>3. ASSUME h \in Holders(u)' PROVE h \in Holders(u)
  BY <1>1, <1>3, HoldersAre DEF IsHolder
<1> QED
  BY <1>2, <1>3

\* Unit u is among the lines that come back.
ComesBack(s, back, u) == \E p \in Products : sale[s].unit[p] = u /\ back[p] > 0

\* A unit comes back whole, and only from the sale that has it.
LEMMA ReturnedUnitWasHeld ==
    ASSUME RowsInv, NEW s \in Sales, NEW back \in [Lines -> Quantities], NEW cond, NEW put,
           ReturnsLines(s, back, cond, put), sale[s].status = "active",
           sale'[s] = ReturnedRow(s, back), NEW u \in Units
    PROVE  /\ ComesBack(s, back, u) => HeldBySale(s, u) /\ ~HeldBySale(s, u)'
           /\ ~ComesBack(s, back, u) => (HeldBySale(s, u)' <=> HeldBySale(s, u))
<1>0. /\ TypeOK /\ SaleAgrees(s) /\ SaleUnitsAllocated /\ None \notin Units
      /\ sale[s] \in SaleRow
  BY StockConstants DEF RowsInv, DraftInv, SaleRowsAgree, TypeOK
<1>1. /\ sale'[s].status = "active" /\ sale'[s].unit = sale[s].unit
      /\ \A i \in Lines : sale'[s].returned[i] = sale[s].returned[i] + back[i]
  BY <1>0 DEF SaleRow, ReturnedRow
<1>2. \A p \in Products : /\ p \in Lines /\ back[p] \in Nat
                          /\ sale[s].returned[p] \in Nat /\ sale[s].quantity[p] \in Nat
  BY <1>0, StockConstants DEF SaleRow, Quantities, Lines
<1>3. ASSUME ComesBack(s, back, u)
      PROVE  HeldBySale(s, u) /\ ~HeldBySale(s, u)'
  <2>1. PICK p \in Products : sale[s].unit[p] = u /\ back[p] > 0
    BY <1>3 DEF ComesBack
  <2>2. back[p] = sale[s].quantity[p] - sale[s].returned[p] /\ sale[s].quantity[p] = 1
    BY <1>0, <2>1 DEF ReturnsLines, Unreturned, SaleAgrees
  <2>3. sale[s].returned[p] = 0 /\ back[p] = 1
    BY <1>2, <2>1, <2>2
  <2>4. sale'[s].returned[p] = 1
    BY <1>1, <1>2, <2>3
  <2>5. \A q \in Products : sale[s].unit[q] = u => q = p
    BY <1>0, <2>1 DEF SaleUnitsAllocated
  <2> QED
    BY <1>1, <2>1, <2>3, <2>4, <2>5 DEF HeldBySale
<1>4. ASSUME ~ComesBack(s, back, u)
      PROVE  HeldBySale(s, u)' <=> HeldBySale(s, u)
  <2>1. \A p \in Products : sale[s].unit[p] = u => back[p] = 0
    BY <1>2, <1>4 DEF ComesBack
  <2>2. \A p \in Products : sale[s].unit[p] = u => sale'[s].returned[p] = sale[s].returned[p]
    BY <1>1, <1>2, <2>1
  <2> QED
    BY <1>1, <2>2 DEF HeldBySale
<1> QED
  BY <1>3, <1>4

\* A return that leaves none against a voided sale is of an active one.
LEMMA ReturnIsOfActive ==
    ASSUME TypeOK, NoReturnOnVoided', NEW s \in Sales, NEW back,
           sale'[s] = ReturnedRow(s, back), Returnable(s)
    PROVE  sale[s].status = "active"
<1>1. sale[s] \in SaleRow
  BY DEF TypeOK
<1>2. sale'[s].returns /\ sale'[s].status = sale[s].status
  BY <1>1 DEF SaleRow, ReturnedRow
<1> QED
  BY <1>1, <1>2 DEF SaleRow, NoReturnOnVoided, Returnable

\* A return with its replacement leaves every unit with one holder at most.
LEMMA RecordReturnKeepsHolders ==
    ASSUME RowsInv, NoReturnOnVoided', NEW s \in Sales, RecordReturn(s),
           NEW u \in Units, OneHolder(u)
    PROVE  OneHolder(u)'
<1> DEFINE x == <<"sale", s>>
           y == <<"replacement", s>>
<1>0. DraftInv /\ TypeOK
  BY DEF RowsInv, DraftInv
<1>1. PICK back \in [Lines -> Quantities], cond \in [Lines -> Conditions],
           put \in [Batches -> Quantities], order \in Replacements,
           give \in [Batches -> Quantities] :
        ReturnsLines(s, back, cond, put) /\ Exchanges(s, back, cond, put, order, give)
  BY DEF RecordReturn
<1>2. /\ Fills(order, PutBackBatch(put), ReturnedShelf(s, back, cond), give,
               {"individual"})
      /\ OthersKept(s) /\ sale'[s] = ReturnedRow(s, back)
      /\ \A o \in Sales \ {s} : replacement'[o] = replacement[o]
      /\ financing' = financing
  BY <1>0, <1>1, RecordReturnRows
<1>3. /\ unit'[u].status = IF u \in Picked(order) THEN "sold"
                           ELSE ReturnedShelf(s, back, cond)[u]
      /\ replacement'[s].units = replacement[s].units \cup Picked(order)
  BY <1>0, <1>1, RecordReturnUnits
<1>4. sale[s].status = "active"
  BY <1>0, <1>1, <1>2, ReturnIsOfActive DEF ReturnsLines
<1>5. \A h : h # x /\ h # y => (h \in Holders(u)' <=> h \in Holders(u))
  BY <1>2, OthersHoldToo
<1>6. /\ ComesBack(s, back, u) => x \in Holders(u) /\ x \notin Holders(u)'
      /\ ~ComesBack(s, back, u) => (x \in Holders(u)' <=> x \in Holders(u))
  BY <1>1, <1>2, <1>4, ReturnedUnitWasHeld, HolderNames
<1>7. y \in Holders(u)' <=> y \in Holders(u) \/ u \in Picked(order)
  BY <1>3, HolderNames
<1>8. /\ ComesBack(s, back, u) =>
           ReturnedShelf(s, back, cond)[u] \in {"available", "damaged"}
      /\ ~ComesBack(s, back, u) => ReturnedShelf(s, back, cond)[u] = unit[u].status
  BY DEF ComesBack, ReturnedShelf
<1>9. x # y
  OBVIOUS
<1> HIDE DEF x, y
<1>10. CASE u \in Picked(order)
  <2>1. ReturnedShelf(s, back, cond)[u] = "available"
    <3>1. PICK p \in Products : order.unit[p] = u /\ order.unit[p] # None
      BY <1>10 DEF Picked
    <3> QED
      BY <1>0, <1>2, <3>1, FillsPicks
  <2>2. \A h \in Holders(u) : ComesBack(s, back, u) /\ h = x
    BY <1>6, <1>8, <2>1 DEF OneHolder
  <2>3. \A h : h \in Holders(u)' <=> h = y
    BY <1>5, <1>6, <1>7, <1>9, <1>10, <2>2
  <2>4. unit'[u].status = "sold"
    BY <1>3, <1>10
  <2> QED
    BY <2>3, <2>4, UnitGoesOut
<1>11. CASE u \notin Picked(order) /\ ComesBack(s, back, u)
  <2>1. \A h : h \in Holders(u)' <=> h \in Holders(u) /\ h # x
    BY <1>5, <1>6, <1>7, <1>9, <1>11
  <2>2. unit'[u].status # "sold"
    BY <1>3, <1>8, <1>11
  <2> QED
    BY <1>6, <1>11, <2>1, <2>2, UnitComesBack
<1>12. CASE u \notin Picked(order) /\ ~ComesBack(s, back, u)
  <2>1. \A h : h \in Holders(u)' <=> h \in Holders(u)
    BY <1>5, <1>6, <1>7, <1>12
  <2> QED
    BY <1>3, <1>8, <1>12, <2>1, UnitStays
<1> QED
  BY <1>10, <1>11, <1>12

\* A financing agreement takes only units that no one holds.
LEMMA FinancingKeepsHolders ==
    ASSUME RowsInv, NEW a \in Agreements, CreateFinancing(a),
           NEW u \in Units, OneHolder(u)
    PROVE  OneHolder(u)'
<1> DEFINE y == <<"financing", a>>
<1>0. DraftInv /\ TypeOK
  BY DEF RowsInv, DraftInv
<1>1. PICK order \in Orders, take \in [Batches -> Quantities] :
        /\ Fills(order, OnShelves, UnitStatuses, take, {"quantity", "individual"})
        /\ financing[a] = [alloc |-> Nothing, units |-> {}]
        /\ financing' = [financing EXCEPT ![a] =
              [alloc |-> take, units |-> Picked(order)]]
        /\ UnitsTaken(order) /\ UNCHANGED <<sale, replacement>>
  BY <1>0, FinancingRows
<1>2. /\ financing'[a].units = Picked(order)
      /\ \A c \in Agreements \ {a} : financing'[c] = financing[c]
  BY <1>0, <1>1 DEF TypeOK
<1>3. \A h : h # y => (h \in Holders(u)' <=> h \in Holders(u))
  <2>1. ASSUME NEW h, h # y, h \in Holders(u) PROVE h \in Holders(u)'
    BY <1>1, <1>2, <2>1, HoldersAre DEF IsHolder, HeldBySale
  <2>2. ASSUME NEW h, h # y, h \in Holders(u)' PROVE h \in Holders(u)
    BY <1>1, <1>2, <2>2, HoldersAre DEF IsHolder, HeldBySale
  <2> QED
    BY <2>1, <2>2
<1>4. y \notin Holders(u) /\ (y \in Holders(u)' <=> u \in Picked(order))
  <2>1. financing[a].units = {}
    BY <1>1
  <2> QED
    BY <1>2, <2>1, HolderNames
<1>5. unit'[u].status = IF u \in Picked(order) THEN "sold" ELSE unit[u].status
  BY <1>0, <1>1 DEF UnitsTaken, TypeOK, UnitRow
<1> HIDE DEF y
<1>6. CASE u \in Picked(order)
  <2>1. UnitStatuses[u] = "available"
    <3>1. PICK p \in Products : order.unit[p] = u /\ order.unit[p] # None
      BY <1>6 DEF Picked
    <3> QED
      BY <1>0, <1>1, <3>1, FillsPicks
  <2>2. Holders(u) = {}
    BY <2>1 DEF UnitStatuses, OneHolder
  <2>3. \A h : h \in Holders(u)' <=> h = y
    BY <1>3, <1>4, <1>6, <2>2
  <2>4. unit'[u].status = "sold"
    BY <1>5, <1>6
  <2> QED
    BY <2>3, <2>4, UnitGoesOut
<1>7. CASE u \notin Picked(order)
  <2>1. \A h : h \in Holders(u)' <=> h \in Holders(u)
    BY <1>3, <1>4, <1>7
  <2> QED
    BY <1>5, <1>7, <2>1, UnitStays
<1> QED
  BY <1>6, <1>7

\* A step that touches neither units nor who has them.
LEMMA HoldersUntouched ==
    ASSUME UNCHANGED <<unit, sale, financing, replacement>>, NEW u, OneHolder(u)
    PROVE  OneHolder(u)'
BY DEF OneHolder, Holders

HolderInv == RowsInv /\ UnitHasOneHolder

\* Every unit has one holder at most after every step if it had before it.
LEMMA StepKeepsHolders ==
    ASSUME HolderInv, [Next]_vars
    PROVE  HolderInv'
<1>0. RowsInv' /\ RowsInv /\ TypeOK /\ UnitHasOneHolder
  BY StepKeepsRows DEF HolderInv, RowsInv, DraftInv
<1> SUFFICES ASSUME NoReturnOnVoided', NEW u \in Units
             PROVE  OneHolder(u)'
  BY <1>0 DEF HolderInv, UnitHasOneHolder, OneHolder
<1>01. OneHolder(u)
  BY <1>0, NoReturnBefore DEF UnitHasOneHolder, OneHolder
<1>1. ASSUME NEW b \in Batches, Receiving(b) PROVE OneHolder(u)'
  BY <1>0, <1>01, <1>1, ReceivingKeepsHolders
<1>3. ASSUME NEW p \in Products,
             AdjustStock(p) \/ \E active \in BOOLEAN : SetProductActive(p, active)
      PROVE  OneHolder(u)'
  <2>1. UNCHANGED <<unit, sale, financing, replacement>>
    BY <1>3 DEF AdjustStock, SetProductActive
  <2> QED
    BY <1>01, <2>1, HoldersUntouched
<1>4. ASSUME NEW s \in Sales, RecordSale(s) \/ EditSale(s) PROVE OneHolder(u)'
  <2>1. PICK order \in Orders, take \in [Batches -> Quantities],
             trade \in TradeIns : WriteSale(s, order, take, trade)
    BY <1>4 DEF RecordSale, EditSale
  <2>2. sale[s].status = "none" \/ Amendable(s)
    BY <1>4 DEF RecordSale, EditSale
  <2> QED
    BY <1>0, <1>01, <2>1, <2>2, WriteSaleKeepsHolders
<1>5. ASSUME NEW s \in Sales, VoidSale(s) PROVE OneHolder(u)'
  BY <1>0, <1>01, <1>5, VoidSaleKeepsHolders
<1>6. ASSUME NEW s \in Sales, RecordReturn(s) PROVE OneHolder(u)'
  BY <1>0, <1>01, <1>6, RecordReturnKeepsHolders
<1>7. ASSUME NEW a \in Agreements, CreateFinancing(a) PROVE OneHolder(u)'
  BY <1>0, <1>01, <1>7, FinancingKeepsHolders
<1>8. CASE UNCHANGED vars
  <2>1. UNCHANGED <<unit, sale, financing, replacement>>
    BY <1>8 DEF vars
  <2> QED
    BY <1>01, <2>1, HoldersUntouched
<1> QED
  BY <1>1, <1>3, <1>4, <1>5, <1>6, <1>7, <1>8 DEF Next, Receiving

\* No one holds anything at first.
LEMMA InitHolders == Init => HolderInv
<1> SUFFICES ASSUME Init PROVE HolderInv
  OBVIOUS
<1>1. /\ \A s \in Sales : sale[s].status = "none" /\ replacement[s].units = {}
      /\ \A a \in Agreements : financing[a].units = {}
      /\ \A u \in Units : unit[u].status = "absent"
  BY DEF Init
<1>2. \A u : Holders(u) = {}
  BY <1>1 DEF Holders
<1> QED
  BY <1>1, <1>2, InitRows DEF HolderInv, UnitHasOneHolder

\* As long as no return is recorded against a voided sale, an individually tracked
\* item is with one customer at most, and marked sold exactly while it is.
THEOREM UnitsHaveOneHolder == Spec => []UnitHasOneHolder
<1>1. HolderInv /\ [Next]_vars => HolderInv'
  BY StepKeepsHolders
<1>2. HolderInv => UnitHasOneHolder
  BY DEF HolderInv
<1> QED
  BY InitHolders, <1>1, <1>2, PTL DEF Spec

-----------------------------------------------------------------------------
(* Counting individually tracked stock *)

Serial(b) == batch[b].product \in Products /\ Mode[batch[b].product] = "individual"
Available(b) == {u \in UnitsOf(b) : unit[u].status = "available"}

\* The unit that row names for the product of line b is on that line.
PickedFrom(row, b) ==
    LET u == row.unit[batch[b].product] IN u # None /\ unit[u].line = b

\* A sale takes an individually tracked product as one unit, from its line.
SerialSale(s) ==
    /\ \A b \in Batches :
          Serial(b) => sale[s].alloc[b] = IF PickedFrom(sale[s], b) THEN 1 ELSE 0
    /\ \A p \in Products : Mode[p] = "individual" =>
          sale[s].quantity[p] = IF sale[s].unit[p] = None THEN 0 ELSE 1

\* Every piece received into an individually tracked line is a unit of the line, and
\* what remains is the units that are available.
SerialLine(b) ==
    /\ batch[b].status = "absent" => UnitsOf(b) = {}
    /\ Serial(b) /\ batch[b].status = "received" =>
          /\ batch[b].received = Cardinality(UnitsOf(b))
          /\ batch[b].remaining = Cardinality(Available(b))

SerialStock == (\A s \in Sales : SerialSale(s)) /\ (\A b \in Batches : SerialLine(b))
SerialInv == HolderInv /\ (NoReturnOnVoided => SerialStock)

\* The units of a line are finitely many, the available ones too.
LEMMA LineUnitsFinite ==
    ASSUME NEW b
    PROVE  /\ UnitsOf(b) \subseteq Units /\ IsFiniteSet(UnitsOf(b))
           /\ Available(b) \subseteq Units /\ IsFiniteSet(Available(b))
<1>1. UnitsOf(b) \subseteq Units /\ Available(b) \subseteq Units
  BY DEF UnitsOf, Available
<1> QED
  BY <1>1, FS_Subset, StockConstants

\* Unit x may come to a set and unit y may leave it.
UnitsCross(old, new, x, y, comes, goes) ==
    /\ comes => x \notin old
    /\ goes => y \in old \/ (comes /\ y = x)
    /\ \A u : u \in new <=> (u \in old \/ (comes /\ u = x)) /\ ~(goes /\ u = y)

\* A unit that comes counts one more, a unit that goes one less.
LEMMA CountMoves ==
    ASSUME NEW old, IsFiniteSet(old), NEW new, NEW x, NEW y,
           NEW comes \in BOOLEAN, NEW goes \in BOOLEAN,
           UnitsCross(old, new, x, y, comes, goes)
    PROVE  Cardinality(new) = Cardinality(old) + (IF comes THEN 1 ELSE 0)
                              - (IF goes THEN 1 ELSE 0)
<1>0. /\ comes => x \notin old
      /\ goes => y \in old \/ (comes /\ y = x)
      /\ \A u : u \in new <=> (u \in old \/ (comes /\ u = x)) /\ ~(goes /\ u = y)
  BY DEF UnitsCross
<1> DEFINE mid == IF comes THEN old \cup {x} ELSE old
<1>1. IsFiniteSet(old \cup {x}) /\ IsFiniteSet(mid) /\ Cardinality(old) \in Nat
  BY FS_AddElement, FS_CardinalityType
<1>2. Cardinality(mid) = Cardinality(old) + (IF comes THEN 1 ELSE 0)
  <2>1. CASE comes
    <3>1. x \notin old /\ mid = old \cup {x}
      BY <1>0, <2>1
    <3>2. Cardinality(old \cup {x}) = Cardinality(old) + 1
      BY <3>1, FS_AddElement
    <3> QED
      BY <2>1, <3>1, <3>2
  <2>2. CASE ~comes
    BY <1>1, <2>2
  <2> QED
    BY <2>1, <2>2
<1>3. Cardinality(mid) \in Nat
  BY <1>1, FS_CardinalityType
<1>4. CASE goes
  <2>1. y \in mid /\ new = mid \ {y}
    BY <1>0, <1>4
  <2>2. Cardinality(mid \ {y}) = Cardinality(mid) - 1
    <3> HIDE DEF mid
    <3> QED
      BY <1>1, <2>1, FS_RemoveElement
  <2> HIDE DEF mid
  <2> QED
    BY <1>1, <1>2, <1>3, <1>4, <2>1, <2>2
<1>5. CASE ~goes
  <2>1. new = mid
    BY <1>0, <1>5
  <2> HIDE DEF mid
  <2> QED
    BY <1>1, <1>2, <1>3, <1>5, <2>1
<1> QED
  BY <1>4, <1>5

\* What the loops take of an individually tracked line is the unit that is named.
LEMMA FillsSerial ==
    ASSUME NEW order, NEW have, NEW shelf, NEW take, NEW modes,
           Fills(order, have, shelf, take, modes)
    PROVE  /\ \A b \in Batches :
                 Serial(b) => take[b] = IF PickedFrom(order, b) THEN 1 ELSE 0
           /\ \A p \in Products : Mode[p] = "individual" =>
                 order.quantity[p] = IF order.unit[p] = None THEN 0 ELSE 1
<1>1. ASSUME NEW b \in Batches, Serial(b)
      PROVE  take[b] = IF PickedFrom(order, b) THEN 1 ELSE 0
  <2> DEFINE p == batch[b].product
  <2>1. p \in Products /\ Mode[p] = "individual" /\ b \in Lot(p)
    BY <1>1 DEF Serial, Lot
  <2>2. CASE order.unit[p] = None
    <3>1. take[b] = 0
      BY <2>1, <2>2 DEF Fills
    <3> QED
      BY <2>2, <3>1 DEF PickedFrom
  <2>3. CASE order.unit[p] # None
    <3>1. AllocatesUnit(p, order.unit[p], have, shelf, take)
      BY <2>1, <2>3 DEF Fills
    <3>2. take[b] = IF b = unit[order.unit[p]].line THEN 1 ELSE 0
      BY <2>1, <3>1 DEF AllocatesUnit
    <3> QED
      BY <2>3, <3>2 DEF PickedFrom
  <2> QED
    BY <2>2, <2>3
<1>2. ASSUME NEW p \in Products, Mode[p] = "individual"
      PROVE  order.quantity[p] = IF order.unit[p] = None THEN 0 ELSE 1
  BY <1>2 DEF Fills
<1> QED
  BY <1>1, <1>2

\* The units row names are on lines of the products it names them for.
UnitsFit(row) ==
    \A p \in Products : row.unit[p] # None =>
        /\ unit[row.unit[p]].line \in Batches
        /\ batch[unit[row.unit[p]].line].product = p

\* Of the units of a line, an order takes the one it names for the product, if any.
LEMMA PicksOnLine ==
    ASSUME NEW row, UnitsFit(row), None \notin Units, NEW b \in Batches,
           batch[b].product \in Products
    PROVE  \A u \in UnitsOf(b) : u \in Picked(row)
              <=> PickedFrom(row, b) /\ u = row.unit[batch[b].product]
<1> SUFFICES ASSUME NEW u \in UnitsOf(b)
             PROVE  u \in Picked(row)
                      <=> PickedFrom(row, b) /\ u = row.unit[batch[b].product]
  OBVIOUS
<1>1. u # None /\ unit[u].line = b
  BY DEF UnitsOf
<1>2. ASSUME u \in Picked(row)
      PROVE  PickedFrom(row, b) /\ u = row.unit[batch[b].product]
  <2>1. PICK p \in Products : row.unit[p] = u
    BY <1>2 DEF Picked
  <2>2. p = batch[b].product
    BY <1>1, <2>1 DEF UnitsFit
  <2> QED
    BY <1>1, <2>1, <2>2 DEF PickedFrom
<1>3. ASSUME PickedFrom(row, b), u = row.unit[batch[b].product]
      PROVE  u \in Picked(row)
  BY <1>1, <1>3 DEF Picked
<1> QED
  BY <1>2, <1>3

\* Units that are on a line stay on it, and line c may get new ones.
UnitLinesKept(c) ==
    \A u \in Units : /\ unit[u].line \in Batches => unit'[u].line = unit[u].line
                     /\ unit[u].line \notin Batches => unit'[u].line \in {None, c}

\* A sale whose lines a step leaves alone.
LEMMA SerialSaleKept ==
    ASSUME RowsInv, NEW s \in Sales, SerialSale(s), NEW c, LotsGrow(c), UnitLinesKept(c),
           sale'[s].alloc = sale[s].alloc, sale'[s].unit = sale[s].unit,
           sale'[s].quantity = sale[s].quantity
    PROVE  SerialSale(s)'
<1>0. /\ TypeOK /\ SaleUnitsAllocated /\ DraftsHoldNoStock /\ LinesNamed
      /\ None \notin Batches \cup Units \cup Products
  BY StockConstants DEF RowsInv, DraftInv
<1>1. ASSUME NEW p \in Products, sale[s].unit[p] # None
      PROVE  LET u == sale[s].unit[p] IN
             /\ u \in Units /\ unit[u].line \in Batches /\ unit'[u].line = unit[u].line
             /\ batch[unit[u].line].product = p /\ sale[s].alloc[unit[u].line] = 1
  <2>1. sale[s].unit[p] \in Units
    BY <1>0, <1>1 DEF TypeOK, SaleRow
  <2> QED
    BY <1>0, <1>1, <2>1 DEF SaleUnitsAllocated, UnitLinesKept
<1>2. ASSUME NEW b \in Batches, Serial(b)'
      PROVE  sale'[s].alloc[b] = IF PickedFrom(sale[s], b)' THEN 1 ELSE 0
  <2> DEFINE p == batch'[b].product
             u == sale[s].unit[p]
  <2>1. p \in Products /\ Mode[p] = "individual"
    BY <1>2 DEF Serial
  <2>2. CASE batch[b].product = p
    <3>1. Serial(b)
      BY <2>1, <2>2 DEF Serial
    <3>2. PickedFrom(sale[s], b)' <=> PickedFrom(sale[s], b)
      <4>1. CASE u = None
        BY <2>2, <4>1 DEF PickedFrom
      <4>2. CASE u # None
        <5>1. unit'[u].line = unit[u].line
          BY <1>1, <2>1, <4>2
        <5> QED
          BY <2>2, <4>2, <5>1 DEF PickedFrom
      <4> QED
        BY <4>1, <4>2
    <3> QED
      BY <3>1, <3>2 DEF SerialSale
  <2>3. CASE batch[b].product # p
    <3>1. batch[b].product = None
      BY <2>3 DEF LotsGrow
    <3>2. sale[s].alloc[b] = 0
      BY <1>0, <3>1 DEF LinesNamed, DraftsHoldNoStock
    <3>3. ~PickedFrom(sale[s], b)'
      <4>1. CASE u = None
        BY <4>1 DEF PickedFrom
      <4>2. CASE u # None
        <5>1. unit'[u].line = unit[u].line /\ sale[s].alloc[unit[u].line] = 1
          BY <1>1, <2>1, <4>2
        <5> QED
          BY <3>2, <5>1, SMTT(20) DEF PickedFrom
      <4> QED
        BY <4>1, <4>2
    <3> QED
      BY <3>2, <3>3
  <2> QED
    BY <2>2, <2>3
<1>3. ASSUME NEW p \in Products, Mode[p] = "individual"
      PROVE  sale'[s].quantity[p] = IF sale'[s].unit[p] = None THEN 0 ELSE 1
  BY <1>3 DEF SerialSale
<1> QED
  BY <1>2, <1>3 DEF SerialSale

\* A line whose row and units a step leaves alone.
LEMMA SerialLineKept ==
    ASSUME NEW b \in Batches, SerialLine(b), LineKept(b),
           batch'[b].remaining = batch[b].remaining,
           \A u \in Units : /\ unit'[u].line = b <=> unit[u].line = b
                            /\ unit[u].line = b => (unit'[u].status = "available"
                                                      <=> unit[u].status = "available")
    PROVE  SerialLine(b)'
<1>1. UnitsOf(b)' = UnitsOf(b)
  BY DEF UnitsOf
<1>2. Available(b)' = Available(b)
  BY <1>1 DEF Available, UnitsOf
<1>3. Serial(b)' <=> Serial(b)
  BY DEF Serial, LineKept
<1> QED
  BY <1>1, <1>2, <1>3 DEF SerialLine, LineKept

\* A new line counts the units that were typed in with it.
LEMMA CreateReceiptSerial ==
    ASSUME DraftInv, NEW b \in Batches, CreateReceipt(b), SerialLine(b)
    PROVE  SerialLine(b)'
<1>1. PICK p \in Products, n \in 1 .. MaxQuantity, t \in Times,
           status \in {"draft", "received"}, us \in SUBSET FreshUnits :
        /\ FreshBatch(b)
        /\ product[p].active
        /\ Mode[p] = "individual" =>
              /\ Cardinality(us) <= n
              /\ status = "received" => Cardinality(us) = n
        /\ batch' = [batch EXCEPT ![b] = NewLine(p, n, status, t, TRUE)]
        /\ unit' = Shelve(us, b)
        /\ IF status = "received"
           THEN /\ product' = [product EXCEPT ![p].qty = @ + n]
                /\ batchMoves' = [batchMoves EXCEPT ![b] = n]
           ELSE UNCHANGED <<product, batchMoves>>
        /\ UNCHANGED <<sale, financing, replacement, looseMoves, saleMoves,
                       returnMoves>>
  BY DEF CreateReceipt
<1>2. batch'[b] = NewLine(p, n, status, t, TRUE)
  BY <1>1 DEF DraftInv, TypeOK
<1>3. UnitsOf(b) = {}
  BY <1>1 DEF FreshBatch, SerialLine
<1>4. UnitsOf(b)' = us /\ Available(b)' = us
  <2>1. us \subseteq Units
    BY DEF FreshUnits
  <2>2. \A u \in Units : /\ u \in us => unit'[u] = [line |-> b, status |-> "available"]
                         /\ u \notin us => unit'[u] = unit[u]
    BY <1>1 DEF Shelve
  <2>3. \A u \in Units : unit'[u].line = b <=> u \in us
    BY <1>3, <2>2 DEF UnitsOf
  <2> QED
    BY <2>1, <2>2, <2>3 DEF UnitsOf, Available
<1>5. /\ batch'[b].status = status /\ batch'[b].product = p
      /\ batch'[b].received = n
      /\ status = "received" => batch'[b].remaining = n
  BY <1>2 DEF NewLine
<1>6. Serial(b)' /\ status = "received" => Cardinality(us) = n
  BY <1>1, <1>5 DEF Serial
<1> QED
  BY <1>4, <1>5, <1>6 DEF SerialLine

\* Stock received without a receipt is not individually tracked.
LEMMA ReceiveStockSerial ==
    ASSUME DraftInv, NEW b \in Batches, ReceiveStock(b)
    PROVE  SerialLine(b)'
<1>1. PICK p \in Products, n \in 1 .. MaxQuantity, t \in Times :
        /\ product[p].active /\ Mode[p] = "quantity"
        /\ batch' = [batch EXCEPT ![b] = NewLine(p, n, "received", t, FALSE)]
  BY DEF ReceiveStock
<1>2. batch'[b] = NewLine(p, n, "received", t, FALSE)
  BY <1>1 DEF DraftInv, TypeOK
<1>3. batch'[b].status = "received" /\ batch'[b].product = p
  BY <1>2 DEF NewLine
<1> QED
  BY <1>1, <1>3 DEF SerialLine, Serial

\* A draft that is received counts its units as it counted them when drafted.
LEMMA ReceiveDraftSerial ==
    ASSUME DraftInv, NEW b \in Batches, ReceiveDraft(b)
    PROVE  SerialLine(b)'
<1> DEFINE row == batch[b]
           n == row.received
<1>1. PICK t \in Times :
        /\ row.status = "draft"
        /\ Mode[row.product] = "individual" => Cardinality(UnitsOf(b)) = n
        /\ batch' = [batch EXCEPT ![b] =
              [row EXCEPT !.status = "received", !.remaining = n, !.at = t]]
        /\ unit' = unit
  BY DEF ReceiveDraft
<1>2. row \in BatchRow
  BY DEF DraftInv, TypeOK
<1>3. batch'[b] = [row EXCEPT !.status = "received", !.remaining = n, !.at = t]
  BY <1>1 DEF DraftInv, TypeOK
<1>4. /\ batch'[b].status = "received" /\ batch'[b].product = row.product
      /\ batch'[b].remaining = n /\ batch'[b].received = n
  <2> HIDE DEF row
  <2> QED
    BY <1>2, <1>3 DEF BatchRow
<1>5. UnitsOf(b)' = UnitsOf(b) /\ Available(b)' = UnitsOf(b)
  BY <1>1 DEF UnitsOf, Available, DraftInv, DraftsHoldNoStock
<1> QED
  BY <1>1, <1>4, <1>5 DEF SerialLine, Serial

\* A line that is archived or closed to amendments keeps its units.
LEMMA QuietSerial ==
    ASSUME DraftInv, NEW b \in Batches, ArchiveDraft(b) \/ CloseWindow(b), SerialLine(b)
    PROVE  SerialLine(b)'
<1> DEFINE row == batch[b]
<1>1. row \in BatchRow /\ unit' = unit
  BY DEF ArchiveDraft, CloseWindow, DraftInv, TypeOK
<1>2. CASE ArchiveDraft(b)
  <2>1. batch'[b] = [row EXCEPT !.status = "archived"]
    BY <1>2 DEF ArchiveDraft, DraftInv, TypeOK
  <2>2. batch'[b].status = "archived"
    BY <1>1, <2>1 DEF BatchRow
  <2> QED
    BY <2>2 DEF SerialLine
<1>3. CASE CloseWindow(b)
  <2>1. batch'[b] = [row EXCEPT !.window = FALSE]
    BY <1>3 DEF CloseWindow, DraftInv, TypeOK
  <2>2. LineKept(b) /\ batch'[b].remaining = row.remaining
    BY <1>1, <2>1 DEF BatchRow, LineKept
  <2> QED
    BY <1>1, <2>2, SerialLineKept
<1> QED
  BY <1>2, <1>3

\* A correction can only confirm the number of units of an individually tracked line.
LEMMA CorrectStockSerial ==
    ASSUME DraftInv, NEW b \in Batches, CorrectStock(b), SerialLine(b)
    PROVE  SerialLine(b)'
<1> DEFINE row == batch[b]
<1>1. PICK n \in 1 .. MaxQuantity :
        /\ Editable(b)
        /\ Mode[row.product] = "individual" => Cardinality(UnitsOf(b)) = n
        /\ IF row.status = "received"
           THEN /\ batch' = [batch EXCEPT ![b] =
                      [row EXCEPT !.received = n,
                                  !.remaining = row.remaining + (n - row.received)]]
           ELSE /\ batch' = [batch EXCEPT ![b] =
                      [row EXCEPT !.received = n, !.remaining = 0]]
        /\ unit' = unit
  BY DEF CorrectStock
<1>2. row \in BatchRow /\ n \in Int /\ row.remaining \in Int
  BY StockConstants DEF DraftInv, TypeOK, BatchRow
<1>3. UnitsOf(b)' = UnitsOf(b) /\ Available(b)' = Available(b)
  BY <1>1 DEF UnitsOf, Available
<1>4. CASE row.status = "received"
  <2>1. batch'[b] = [row EXCEPT !.received = n,
                                !.remaining = row.remaining + (n - row.received)]
    BY <1>1, <1>4 DEF DraftInv, TypeOK
  <2>2. /\ batch'[b].product = row.product /\ batch'[b].status = "received"
        /\ batch'[b].received = n
        /\ batch'[b].remaining = row.remaining + (n - row.received)
    <3> HIDE DEF row
    <3> QED
      BY <1>2, <1>4, <2>1 DEF BatchRow
  <2>3. Serial(b)' => /\ Cardinality(UnitsOf(b)) = n /\ row.received = n
                      /\ row.remaining = Cardinality(Available(b))
    BY <1>1, <1>4, <2>2 DEF Serial, SerialLine
  <2>4. n - n = 0 /\ row.remaining + 0 = row.remaining
    BY <1>2
  <2>5. Serial(b)' => /\ batch'[b].received = Cardinality(UnitsOf(b)')
                      /\ batch'[b].remaining = Cardinality(Available(b)')
    <3>1. Serial(b)' => batch'[b].remaining = row.remaining
      BY <2>2, <2>3, <2>4
    <3> QED
      BY <1>3, <2>2, <2>3, <3>1
  <2> QED
    BY <2>2, <2>5 DEF SerialLine
<1>5. CASE row.status # "received"
  <2>1. batch'[b] = [row EXCEPT !.received = n, !.remaining = 0]
    BY <1>1, <1>5 DEF DraftInv, TypeOK
  <2>2. row.status = "draft"
    BY <1>1, <1>5 DEF Editable
  <2>3. batch'[b].status = "draft"
    <3> HIDE DEF row
    <3> QED
      BY <1>2, <2>1, <2>2 DEF BatchRow
  <2> QED
    BY <2>3 DEF SerialLine
<1> QED
  BY <1>4, <1>5

\* Receiving and correcting stock keep the count of units.
LEMMA ReceivingKeepsSerial ==
    ASSUME RowsInv, SerialStock, NEW b \in Batches, Receiving(b)
    PROVE  SerialStock'
<1>0. DraftInv /\ LinesNamed /\ None \notin Batches
  BY StockConstants DEF RowsInv
<1>1. /\ sale' = sale
      /\ \A c \in Batches \ {b} : batch'[c] = batch[c]
      /\ LineStep(b)
  BY <1>0, ReceivingRows
<1>2. \A u \in Units :
             \/ unit'[u] = unit[u]
             \/ /\ unit[u].status = "absent" /\ unit[u].line = None
                /\ unit'[u].line = b /\ unit'[u].status = "available"
  BY <1>0, ReceivingUnits
<1>3. LotsGrow(b)
  BY <1>0, <1>1 DEF LotsGrow, LineStep, LinesNamed
<1>4. UnitLinesKept(b)
  <2>1. \A u \in Units : unit[u].line \in Batches \cup {None}
    BY <1>0 DEF DraftInv, TypeOK, UnitRow
  <2> QED
    BY <1>0, <1>2, <2>1 DEF UnitLinesKept
<1>5. \A s \in Sales : SerialSale(s)'
  BY <1>1, <1>3, <1>4, SerialSaleKept DEF SerialStock
<1>6. ASSUME NEW c \in Batches, c # b PROVE SerialLine(c)'
  <2>1. \A u \in Units : /\ unit'[u].line = c <=> unit[u].line = c
                         /\ unit[u].line = c => (unit'[u].status = "available"
                                                   <=> unit[u].status = "available")
    BY <1>0, <1>2, <1>6
  <2>2. LineKept(c) /\ batch'[c].remaining = batch[c].remaining /\ SerialLine(c)
    BY <1>1, <1>6 DEF LineKept, SerialStock
  <2> QED
    BY <2>1, <2>2, SerialLineKept
<1>7. SerialLine(b)'
  BY <1>0, CreateReceiptSerial, ReceiveStockSerial, ReceiveDraftSerial, QuietSerial,
     CorrectStockSerial DEF Receiving, SerialStock
<1> QED
  BY <1>5, <1>6, <1>7 DEF SerialStock

\* A line nothing is counted on.
LEMMA SerialLineIdle ==
    ASSUME NEW b \in Batches, SerialLine(b), LineKept(b),
           \A u \in Units : unit'[u].line = b <=> unit[u].line = b,
           ~(Serial(b) /\ batch[b].status = "received")
    PROVE  SerialLine(b)'
<1>1. UnitsOf(b)' = UnitsOf(b)
  BY DEF UnitsOf
<1>2. Serial(b)' <=> Serial(b)
  BY DEF Serial, LineKept
<1> QED
  BY <1>1, <1>2 DEF SerialLine, LineKept

\* Unit x may come back to line b and unit y may leave it.
LineMoves(b, x, y, comes, goes) ==
    /\ comes => x \in UnitsOf(b) /\ x \notin Available(b)
    /\ goes => y \in Available(b) \/ (comes /\ y = x)
    /\ \A u \in UnitsOf(b) : unit'[u].status = "available"
          <=> (unit[u].status = "available" \/ (comes /\ u = x)) /\ ~(goes /\ u = y)
    /\ batch'[b].remaining = batch[b].remaining + (IF comes THEN 1 ELSE 0)
                                                - (IF goes THEN 1 ELSE 0)

\* A line stays counted when its remainder and its units change together.
LEMMA SerialLineMoves ==
    ASSUME NEW b \in Batches, SerialLine(b), LineKept(b),
           Serial(b), batch[b].status = "received",
           \A u \in Units : unit'[u].line = b <=> unit[u].line = b,
           NEW x, NEW y, NEW comes \in BOOLEAN, NEW goes \in BOOLEAN,
           LineMoves(b, x, y, comes, goes)
    PROVE  SerialLine(b)'
<1>0. /\ comes => x \in UnitsOf(b) /\ x \notin Available(b)
      /\ goes => y \in Available(b) \/ (comes /\ y = x)
      /\ \A u \in UnitsOf(b) : unit'[u].status = "available"
            <=> (unit[u].status = "available" \/ (comes /\ u = x)) /\ ~(goes /\ u = y)
      /\ batch'[b].remaining = batch[b].remaining + (IF comes THEN 1 ELSE 0)
                                                  - (IF goes THEN 1 ELSE 0)
  BY DEF LineMoves
<1>1. UnitsOf(b)' = UnitsOf(b)
  BY DEF UnitsOf
<1>2. \A u : u \in Available(b)' <=>
              (u \in Available(b) \/ (comes /\ u = x)) /\ ~(goes /\ u = y)
  <2>1. \A u : u \in Available(b)' <=> u \in UnitsOf(b) /\ unit'[u].status = "available"
    BY <1>1 DEF Available
  <2>2. \A u : u \in Available(b) <=> u \in UnitsOf(b) /\ unit[u].status = "available"
    BY DEF Available
  <2> QED
    BY <1>0, <2>1, <2>2
<1>3. IsFiniteSet(Available(b))
  BY LineUnitsFinite
<1>4. UnitsCross(Available(b), Available(b)', x, y, comes, goes)
  BY <1>0, <1>2 DEF UnitsCross
<1>5. Cardinality(Available(b)') = Cardinality(Available(b))
         + (IF comes THEN 1 ELSE 0) - (IF goes THEN 1 ELSE 0)
  BY <1>3, <1>4, CountMoves
<1>6. Serial(b)' /\ batch'[b].status = "received" /\ batch'[b].received = batch[b].received
  BY DEF Serial, LineKept
<1>7. /\ batch[b].received = Cardinality(UnitsOf(b))
      /\ batch[b].remaining = Cardinality(Available(b))
  BY DEF SerialLine
<1> QED
  BY <1>0, <1>1, <1>5, <1>6, <1>7 DEF SerialLine

\* The unit a sale is about to give back is out.
LEMMA HeldIsOut ==
    ASSUME NEW s \in Sales, NEW u, OneHolder(u), HeldBySale(s, u)
    PROVE  unit[u].status = "sold"
BY HolderNames DEF OneHolder

\* What a filled order names fits the lines, and is there to be given.
LEMMA FilledUnits ==
    ASSUME TypeOK, NEW order \in Orders, NEW have, NEW shelf, NEW take, NEW modes,
           Fills(order, have, shelf, take, modes)
    PROVE  /\ UnitsFit(order)
           /\ \A b \in Batches : batch[b].product \in Products /\ PickedFrom(order, b) =>
                LET u == order.unit[batch[b].product] IN
                u \in UnitsOf(b) /\ shelf[u] = "available"
<1>1. UnitsFit(order)
  BY FillsPicks DEF UnitsFit
<1>2. ASSUME NEW b \in Batches, batch[b].product \in Products, PickedFrom(order, b)
      PROVE  LET u == order.unit[batch[b].product] IN
             u \in UnitsOf(b) /\ shelf[u] = "available"
  <2> DEFINE u == order.unit[batch[b].product]
  <2>1. u # None /\ unit[u].line = b
    BY <1>2 DEF PickedFrom
  <2>2. u \in Units
    BY <1>2, <2>1 DEF Orders
  <2>3. shelf[u] = "available"
    BY <1>2, <2>1, FillsPicks
  <2> QED
    BY <2>1, <2>2, <2>3 DEF UnitsOf
<1> QED
  BY <1>1, <1>2

\* The unit a sale names for a product is on a line of that product.
LEMMA SoldUnits ==
    ASSUME DraftInv, NEW s \in Sales
    PROVE  /\ UnitsFit(sale[s])
           /\ \A b \in Batches : batch[b].product \in Products /\ PickedFrom(sale[s], b) =>
                LET u == sale[s].unit[batch[b].product] IN
                u \in UnitsOf(b) /\ u \in Picked(sale[s])
<1>1. UnitsFit(sale[s])
  BY DEF UnitsFit, DraftInv, SaleUnitsAllocated
<1>2. ASSUME NEW b \in Batches, batch[b].product \in Products, PickedFrom(sale[s], b)
      PROVE  LET u == sale[s].unit[batch[b].product] IN
             u \in UnitsOf(b) /\ u \in Picked(sale[s])
  <2> DEFINE u == sale[s].unit[batch[b].product]
  <2>1. u # None /\ unit[u].line = b
    BY <1>2 DEF PickedFrom
  <2>2. u \in Units
    BY <1>2, <2>1 DEF DraftInv, TypeOK, SaleRow
  <2>3. u \in Picked(sale[s])
    BY <1>2, <2>1 DEF Picked
  <2> QED
    BY <2>1, <2>2, <2>3 DEF UnitsOf
<1> QED
  BY <1>1, <1>2

\* The row a sale gets when it is written.
LEMMA SerialSaleWritten ==
    ASSUME RowsInv, NEW s \in Sales, NEW order \in Orders, NEW have, NEW shelf,
           NEW take, NEW modes, Fills(order, have, shelf, take, modes),
           NEW c, LotsGrow(c), UnitLinesKept(c),
           sale'[s].alloc = take, sale'[s].unit = order.unit,
           sale'[s].quantity = order.quantity
    PROVE  SerialSale(s)'
<1>0. TypeOK /\ None \notin Batches \cup Units \cup Products
  BY StockConstants DEF RowsInv, DraftInv
<1>1. ASSUME NEW p \in Products, order.unit[p] # None
      PROVE  LET u == order.unit[p] IN
             /\ unit[u].line \in Batches /\ unit'[u].line = unit[u].line
             /\ batch[unit[u].line].product = p
  <2>1. order.unit[p] \in Units
    BY <1>1 DEF Orders
  <2> QED
    BY <1>0, <1>1, <2>1, FillsPicks DEF UnitLinesKept
<1>2. ASSUME NEW b \in Batches, Serial(b)'
      PROVE  sale'[s].alloc[b] = IF PickedFrom(sale[s], b)' THEN 1 ELSE 0
  <2> DEFINE p == batch'[b].product
             u == order.unit[p]
  <2>1. p \in Products /\ Mode[p] = "individual"
    BY <1>2 DEF Serial
  <2>2. u # None => unit'[u].line = unit[u].line /\ batch[unit[u].line].product = p
    BY <1>1, <2>1
  <2>3. CASE batch[b].product = p
    <3>1. take[b] = IF PickedFrom(order, b) THEN 1 ELSE 0
      BY <2>1, <2>3, FillsSerial DEF Serial
    <3>2. PickedFrom(sale[s], b)' <=> PickedFrom(order, b)
      BY <2>2, <2>3 DEF PickedFrom
    <3> QED
      BY <3>1, <3>2
  <2>4. CASE batch[b].product # p
    <3>1. batch[b].product = None
      BY <2>4 DEF LotsGrow
    <3>2. take[b] = 0
      BY <3>1 DEF Fills
    <3>3. ~PickedFrom(sale[s], b)'
      BY <1>0, <2>1, <2>2, <3>1 DEF PickedFrom
    <3> QED
      BY <3>2, <3>3
  <2> QED
    BY <2>3, <2>4
<1>3. ASSUME NEW p \in Products, Mode[p] = "individual"
      PROVE  sale'[s].quantity[p] = IF sale'[s].unit[p] = None THEN 0 ELSE 1
  BY <1>3, FillsSerial
<1> QED
  BY <1>2, <1>3 DEF SerialSale

\* Recording and editing a sale keep the count of units.
LEMMA WriteSaleKeepsSerial ==
    ASSUME RowsInv, SerialStock, NEW s \in Sales, NEW order \in Orders,
           NEW take \in [Batches -> Quantities], NEW trade \in TradeIns,
           sale[s].status = "none" \/ Amendable(s),
           WriteSale(s, order, take, trade), \A u \in Units : OneHolder(u)
    PROVE  SerialStock'
<1> DEFINE c == trade.batch
<1>0. /\ DraftInv /\ TypeOK /\ LinesNamed
      /\ None \notin Batches \cup Units \cup Products
      /\ \A b \in Batches : SerialLine(b)
      /\ \A o \in Sales : SerialSale(o)
  BY StockConstants DEF RowsInv, DraftInv, SerialStock
<1>1. /\ Fills(order, RestoredBatch(s), RestoredUnit(s), take, {"individual"})
      /\ sale'[s] = WrittenRow(order, take, trade) /\ OthersKept(s)
      /\ \A b \in Batches \ {c} :
            /\ LineKept(b)
            /\ batch'[b].remaining = batch[b].remaining + sale[s].alloc[b] - take[b]
      /\ TradeInLine(trade)
  BY <1>0, WriteSaleRows
<1>2. /\ \A u \in Units \ {trade.unit} :
            /\ unit'[u].line = unit[u].line
            /\ unit'[u].status =
                 IF u \in Picked(order) THEN "sold" ELSE RestoredUnit(s)[u]
      /\ trade.unit \in Units => /\ unit[trade.unit].line = None
                                 /\ unit'[trade.unit].line = c
                                 /\ unit'[trade.unit].status = "available"
                                 /\ c \in Batches
      /\ c \in Batches => (trade.unit \in Units <=> Mode[trade.product] = "individual")
  BY <1>0, WriteSaleUnits
<1> HIDE DEF c
<1>3. c \in Batches => /\ batch[c].status = "absent" /\ batch[c].product = None
                       /\ batch'[c].status = "received"
                       /\ batch'[c].product = trade.product /\ trade.product \in Products
                       /\ batch'[c].received = 1 /\ batch'[c].remaining = 1
  BY <1>0, <1>1 DEF TradeInLine, LinesNamed, c
<1>4. LotsGrow(c)
  BY <1>1, <1>3 DEF LotsGrow, LineKept
<1>5. UnitLinesKept(c)
  <2>1. \A u \in Units : unit[u].line \in Batches \cup {None}
    BY <1>0 DEF TypeOK, UnitRow
  <2> QED
    BY <1>0, <1>2, <2>1 DEF UnitLinesKept
<1>6. ASSUME NEW o \in Sales \ {s} PROVE SerialSale(o)'
  <2>1. sale'[o] = sale[o] /\ SerialSale(o)
    BY <1>0, <1>1 DEF OthersKept
  <2> QED
    BY <1>4, <1>5, <2>1, SerialSaleKept
<1>7. SerialSale(s)'
  <2>1. /\ sale'[s].alloc = take /\ sale'[s].unit = order.unit
        /\ sale'[s].quantity = order.quantity
    BY <1>1 DEF WrittenRow
  <2> QED
    BY <1>1, <1>4, <1>5, <2>1, SerialSaleWritten
<1>8. ASSUME NEW b \in Batches, b # c PROVE SerialLine(b)'
  <2>1. \A u \in Units : unit'[u].line = b <=> unit[u].line = b
    BY <1>0, <1>2, <1>8
  <2>2. SerialLine(b) /\ LineKept(b)
    BY <1>0, <1>1, <1>8
  <2>3. CASE Serial(b) /\ batch[b].status = "received"
    <3> DEFINE p == batch[b].product
               x == sale[s].unit[p]
               y == order.unit[p]
               comes == PickedFrom(sale[s], b)
               goes == PickedFrom(order, b)
    <3>1. p \in Products
      BY <2>3 DEF Serial
    <3>2. /\ UnitsFit(sale[s]) /\ UnitsFit(order)
          /\ comes => x \in UnitsOf(b) /\ x \in Picked(sale[s])
          /\ goes => y \in UnitsOf(b) /\ RestoredUnit(s)[y] = "available"
      BY <1>0, <1>1, <3>1, SoldUnits, FilledUnits
    <3>3. \A u \in UnitsOf(b) : /\ u \in Picked(sale[s]) <=> comes /\ u = x
                                /\ u \in Picked(order) <=> goes /\ u = y
      BY <1>0, <3>1, <3>2, PicksOnLine
    <3>4. comes \in BOOLEAN /\ goes \in BOOLEAN
      BY DEF PickedFrom
    <3>5. comes => unit[x].status # "available"
      <4>1. SUFFICES ASSUME comes PROVE unit[x].status = "sold"
        OBVIOUS
      <4>2. x \in Units /\ x \in Picked(sale[s])
        BY <3>2, <4>1 DEF UnitsOf
      <4>3. HeldBySale(s, x)
        BY <4>2, AmendableHolds
      <4> QED
        BY <4>2, <4>3, HeldIsOut
    <3>6. batch'[b].remaining = batch[b].remaining + (IF comes THEN 1 ELSE 0)
                                - (IF goes THEN 1 ELSE 0)
      <4>1. take[b] = IF goes THEN 1 ELSE 0
        BY <1>1, <2>3, FillsSerial
      <4>2. sale[s].alloc[b] = IF comes THEN 1 ELSE 0
        BY <1>0, <2>3 DEF SerialSale
      <4> QED
        BY <1>1, <1>8, <4>1, <4>2
    <3>7. \A u \in UnitsOf(b) : /\ u \in Units
                                /\ unit'[u].status = IF u \in Picked(order) THEN "sold"
                                                     ELSE RestoredUnit(s)[u]
      BY <1>0, <1>2 DEF UnitsOf
    <3>8. \A u \in Units : RestoredUnit(s)[u] =
                             IF u \in Picked(sale[s]) THEN "available" ELSE unit[u].status
      BY DEF RestoredUnit
    <3> HIDE DEF comes, goes, x, y
    <3>9. LineMoves(b, x, y, comes, goes)
      BY <3>2, <3>3, <3>5, <3>6, <3>7, <3>8 DEF LineMoves, Available
    <3> QED
      BY <2>1, <2>2, <2>3, <3>4, <3>9, SerialLineMoves
  <2> QED
    BY <2>1, <2>2, <2>3, SerialLineIdle
<1>9. ASSUME c \in Batches PROVE SerialLine(c)'
  <2>1. UnitsOf(c) = {}
    BY <1>0, <1>3, <1>9 DEF SerialLine
  <2>2. ASSUME Serial(c)'
        PROVE  UnitsOf(c)' = {trade.unit} /\ Available(c)' = {trade.unit}
    <3>1. trade.unit \in Units
      BY <1>2, <1>3, <1>9, <2>2 DEF Serial
    <3>2. \A u \in Units : unit'[u].line = c <=> u = trade.unit
      BY <1>2, <2>1, <3>1 DEF UnitsOf
    <3> QED
      BY <1>2, <3>1, <3>2 DEF UnitsOf, Available
  <2>3. Cardinality({trade.unit}) = 1
    BY FS_Singleton
  <2> QED
    BY <1>3, <1>9, <2>2, <2>3 DEF SerialLine
<1> QED
  BY <1>6, <1>7, <1>8, <1>9 DEF SerialStock

\* Voiding a sale keeps the count of units.
LEMMA VoidSaleKeepsSerial ==
    ASSUME RowsInv, SerialStock, NEW s \in Sales, VoidSale(s),
           \A u \in Units : OneHolder(u)
    PROVE  SerialStock'
<1>0. /\ DraftInv /\ TypeOK
      /\ None \notin Batches \cup Units \cup Products
      /\ \A b \in Batches : SerialLine(b)
      /\ \A o \in Sales : SerialSale(o)
  BY StockConstants DEF RowsInv, DraftInv, SerialStock
<1>1. /\ Amendable(s) /\ OthersKept(s)
      /\ sale'[s] = [sale[s] EXCEPT !.status = "voided"]
      /\ \A b \in Batches :
            /\ LineKept(b)
            /\ batch'[b].remaining = batch[b].remaining + sale[s].alloc[b]
  BY <1>0, VoidSaleRows
<1>2. \A u \in Units :
        /\ unit'[u].line = unit[u].line
        /\ unit'[u].status = IF u \in Picked(sale[s]) THEN "available" ELSE unit[u].status
  BY <1>0, VoidSaleUnits DEF RestoredUnit
<1>3. LotsGrow(None) /\ UnitLinesKept(None)
  BY <1>0, <1>1, <1>2 DEF LotsGrow, LineKept, UnitLinesKept, TypeOK, UnitRow
<1>4. /\ sale'[s].quantity = sale[s].quantity /\ sale'[s].alloc = sale[s].alloc
      /\ sale'[s].unit = sale[s].unit
  <2>1. sale[s] \in SaleRow
    BY <1>0 DEF TypeOK
  <2> QED
    BY <1>1, <2>1 DEF SaleRow
<1>5. ASSUME NEW o \in Sales PROVE SerialSale(o)'
  <2>1. /\ sale'[o].quantity = sale[o].quantity /\ sale'[o].alloc = sale[o].alloc
        /\ sale'[o].unit = sale[o].unit /\ SerialSale(o)
    BY <1>0, <1>1, <1>4 DEF OthersKept
  <2> QED
    BY <1>3, <2>1, SerialSaleKept
<1>6. ASSUME NEW b \in Batches PROVE SerialLine(b)'
  <2>1. \A u \in Units : unit'[u].line = b <=> unit[u].line = b
    BY <1>2
  <2>2. SerialLine(b) /\ LineKept(b)
    BY <1>0, <1>1
  <2>3. CASE Serial(b) /\ batch[b].status = "received"
    <3> DEFINE p == batch[b].product
               x == sale[s].unit[p]
               comes == PickedFrom(sale[s], b)
    <3>1. p \in Products
      BY <2>3 DEF Serial
    <3>2. /\ UnitsFit(sale[s])
          /\ comes => x \in UnitsOf(b) /\ x \in Picked(sale[s])
      BY <1>0, <3>1, SoldUnits
    <3>3. \A u \in UnitsOf(b) : u \in Picked(sale[s]) <=> comes /\ u = x
      BY <1>0, <3>1, <3>2, PicksOnLine
    <3>4. comes \in BOOLEAN /\ FALSE \in BOOLEAN
      BY DEF PickedFrom
    <3>5. comes => unit[x].status # "available"
      <4>1. SUFFICES ASSUME comes PROVE unit[x].status = "sold"
        OBVIOUS
      <4>2. x \in Units /\ x \in Picked(sale[s])
        BY <3>2, <4>1 DEF UnitsOf
      <4>3. HeldBySale(s, x)
        BY <1>1, <4>2, AmendableHolds
      <4> QED
        BY <4>2, <4>3, HeldIsOut
    <3>6. batch'[b].remaining = batch[b].remaining + (IF comes THEN 1 ELSE 0) - 0
      <4>1. sale[s].alloc[b] = IF comes THEN 1 ELSE 0
        BY <1>0, <2>3 DEF SerialSale
      <4>2. batch[b].remaining \in Int
        BY <1>0 DEF TypeOK, BatchRow
      <4> QED
        BY <1>1, <4>1, <4>2
    <3>7. \A u \in UnitsOf(b) : u \in Units
      BY DEF UnitsOf
    <3> HIDE DEF comes, x
    <3>8. LineMoves(b, x, None, comes, FALSE)
      BY <1>2, <3>2, <3>3, <3>5, <3>6, <3>7 DEF LineMoves, Available
    <3> QED
      BY <2>1, <2>2, <2>3, <3>4, <3>8, SerialLineMoves
  <2> QED
    BY <2>1, <2>2, <2>3, SerialLineIdle
<1> QED
  BY <1>5, <1>6 DEF SerialStock

\* A return puts the piece of an individually tracked line back where its unit is.
LEMMA PutsBackSerial ==
    ASSUME DraftInv, NEW s \in Sales, SerialSale(s),
           NEW back \in [Lines -> Quantities], NEW cond, NEW put \in [Batches -> Quantities],
           ReturnsLines(s, back, cond, put), NEW b \in Batches, Serial(b)
    PROVE  put[b] = IF PickedFrom(sale[s], b) /\ Sellable(back, cond, batch[b].product) > 0
                    THEN 1 ELSE 0
<1> DEFINE p == batch[b].product
           u == sale[s].unit[p]
<1>0. /\ TypeOK /\ UnitsFit(sale[s]) /\ p \in Products /\ Mode[p] = "individual"
      /\ b \in Lot(p) /\ p \in Lines
      /\ back[p] \in Nat /\ sale[s].returned[p] \in Nat /\ sale[s].quantity[p] \in Nat
  <2>1. TypeOK /\ p \in Products /\ Mode[p] = "individual" /\ b \in Lot(p) /\ p \in Lines
    BY DEF DraftInv, Serial, Lot, Lines
  <2>2. UnitsFit(sale[s])
    BY <2>1, SoldUnits
  <2>3. sale[s] \in SaleRow
    BY <2>1 DEF TypeOK
  <2>4. sale[s].returned[p] \in Nat /\ sale[s].quantity[p] \in Nat
    BY <2>1, <2>3, StockConstants DEF SaleRow, Quantities
  <2>5. back[p] \in Nat
    BY <2>1, StockConstants DEF Quantities
  <2> QED
    BY <2>1, <2>2, <2>4, <2>5
<1>1. CASE ~(Sellable(back, cond, p) > 0)
  BY <1>0, <1>1 DEF ReturnsLines
<1>2. CASE Sellable(back, cond, p) > 0
  <2>1. Sellable(back, cond, p) = back[p] /\ back[p] > 0
    BY <1>2 DEF Sellable
  <2>2. back[p] <= sale[s].quantity[p] - sale[s].returned[p]
    BY <1>0 DEF ReturnsLines, Unreturned
  <2>3. u # None /\ sale[s].quantity[p] = 1
    <3>1. sale[s].quantity[p] = IF u = None THEN 0 ELSE 1
      BY <1>0 DEF SerialSale
    <3> QED
      BY <1>0, <2>1, <2>2, <3>1
  <2>4. back[p] = 1
    BY <1>0, <2>1, <2>2, <2>3
  <2> DEFINE line == unit[u].line
  <2>5. line \in Batches /\ batch[line].product = p /\ line \in Lot(p)
    BY <1>0, <2>3 DEF UnitsFit, Lot
  <2>6. \A d \in Lot(p) : /\ put[d] \in Nat /\ put[d] <= sale[s].alloc[d]
                          /\ sale[s].alloc[d] = IF line = d THEN 1 ELSE 0
    <3>1. SUFFICES ASSUME NEW d \in Lot(p)
                   PROVE  /\ put[d] \in Nat /\ put[d] <= sale[s].alloc[d]
                          /\ sale[s].alloc[d] = IF line = d THEN 1 ELSE 0
      OBVIOUS
    <3>2. d \in Batches /\ batch[d].product = p
      BY DEF Lot
    <3>3. sale[s].alloc[d] = IF PickedFrom(sale[s], d) THEN 1 ELSE 0
      BY <1>0, <3>2 DEF SerialSale, Serial
    <3>4. PickedFrom(sale[s], d) <=> line = d
      BY <2>3, <3>2 DEF PickedFrom
    <3>5. put[d] \in Nat /\ put[d] <= sale[s].alloc[d]
      BY <1>0, <3>2, PutsBackWhereTaken
    <3> QED
      BY <3>3, <3>4, <3>5
  <2>7. Sum(put, Lot(p)) = 1
    <3>1. Sum(put, Lot(p)) = Sellable(back, cond, p)
      BY <1>0, PutsBackInFull
    <3> QED
      BY <2>1, <2>4, <3>1
  <2>8. put[line] = 1
    <3>1. IsFiniteSet(Lot(p))
      BY LotIsFinite
    <3>2. put[line] \in Int /\ \A d \in Lot(p) \ {line} : put[d] = 0
      <4> HIDE DEF line
      <4>1. ASSUME NEW d \in Lot(p) \ {line} PROVE put[d] = 0
        <5>1. put[d] \in Nat /\ put[d] <= sale[s].alloc[d] /\ sale[s].alloc[d] = 0
          BY <2>6
        <5> QED
          BY <5>1
      <4>2. put[line] \in Int
        BY <2>5, <2>6
      <4> QED
        BY <4>1, <4>2
    <3>3. SumFunctionOnSet(put, Lot(p)) = put[line]
      <4> HIDE DEF line
      <4> QED
        BY <2>5, <3>1, <3>2, SumOfOne
    <3> QED
      BY <2>7, <3>3 DEF Sum
  <2>9. PickedFrom(sale[s], b) <=> line = b
    BY <2>3 DEF PickedFrom
  <2> QED
    BY <1>0, <1>2, <2>6, <2>8, <2>9
<1> QED
  BY <1>1, <1>2

\* A return with its replacement keeps the count of units.
LEMMA RecordReturnKeepsSerial ==
    ASSUME RowsInv, SerialStock, NoReturnOnVoided', NEW s \in Sales, RecordReturn(s),
           \A u \in Units : OneHolder(u)
    PROVE  SerialStock'
<1>0. /\ DraftInv /\ TypeOK
      /\ None \notin Batches \cup Units \cup Products
      /\ \A b \in Batches : SerialLine(b)
      /\ \A o \in Sales : SerialSale(o)
  BY StockConstants DEF RowsInv, DraftInv, SerialStock
<1>1. PICK back \in [Lines -> Quantities], cond \in [Lines -> Conditions],
           put \in [Batches -> Quantities], order \in Replacements,
           give \in [Batches -> Quantities] :
        ReturnsLines(s, back, cond, put) /\ Exchanges(s, back, cond, put, order, give)
  BY DEF RecordReturn
<1> DEFINE shelf == ReturnedShelf(s, back, cond)
<1>2. /\ Fills(order, PutBackBatch(put), shelf, give, {"individual"})
      /\ OthersKept(s) /\ sale'[s] = ReturnedRow(s, back)
      /\ \A b \in Batches :
            /\ LineKept(b)
            /\ batch'[b].remaining = batch[b].remaining + put[b] - give[b]
  BY <1>0, <1>1, RecordReturnRows
<1>3. \A u \in Units :
        /\ unit'[u].line = unit[u].line
        /\ unit'[u].status = IF u \in Picked(order) THEN "sold" ELSE shelf[u]
  BY <1>0, <1>1, RecordReturnUnits
<1>4. sale[s].status = "active"
  BY <1>0, <1>1, <1>2, ReturnIsOfActive DEF ReturnsLines
<1>5. LotsGrow(None) /\ UnitLinesKept(None) /\ order \in Orders
  BY <1>0, <1>2, <1>3 DEF LotsGrow, LineKept, UnitLinesKept, TypeOK, UnitRow, Replacements
<1>6. /\ sale'[s].quantity = sale[s].quantity /\ sale'[s].alloc = sale[s].alloc
      /\ sale'[s].unit = sale[s].unit
  <2>1. sale[s] \in SaleRow
    BY <1>0 DEF TypeOK
  <2> QED
    BY <1>2, <2>1 DEF SaleRow, ReturnedRow
<1>7. ASSUME NEW o \in Sales PROVE SerialSale(o)'
  <2>1. /\ sale'[o].quantity = sale[o].quantity /\ sale'[o].alloc = sale[o].alloc
        /\ sale'[o].unit = sale[o].unit /\ SerialSale(o)
    BY <1>0, <1>2, <1>6 DEF OthersKept
  <2> QED
    BY <1>5, <2>1, SerialSaleKept
<1>8. ASSUME NEW b \in Batches PROVE SerialLine(b)'
  <2>1. \A u \in Units : unit'[u].line = b <=> unit[u].line = b
    BY <1>3
  <2>2. SerialLine(b) /\ LineKept(b)
    BY <1>0, <1>2
  <2>3. CASE Serial(b) /\ batch[b].status = "received"
    <3> DEFINE p == batch[b].product
               x == sale[s].unit[p]
               y == order.unit[p]
               fits == Sellable(back, cond, p) > 0
               comes == PickedFrom(sale[s], b) /\ fits
               goes == PickedFrom(order, b)
    <3>1. p \in Products
      BY <2>3 DEF Serial
    <3>2. /\ UnitsFit(sale[s]) /\ UnitsFit(order)
          /\ PickedFrom(sale[s], b) => x \in UnitsOf(b)
          /\ goes => y \in UnitsOf(b) /\ shelf[y] = "available"
      <4>1. UnitsFit(sale[s]) /\ (PickedFrom(sale[s], b) => x \in UnitsOf(b))
        BY <1>0, <3>1, SoldUnits
      <4>2. UnitsFit(order) /\ (goes => y \in UnitsOf(b) /\ shelf[y] = "available")
        <5> HIDE DEF shelf
        <5> QED
          BY <1>0, <1>2, <1>5, <3>1, FilledUnits
      <4> QED
        BY <4>1, <4>2
    <3>3. \A u \in UnitsOf(b) : u \in Picked(order) <=> goes /\ u = y
      BY <1>0, <3>1, <3>2, PicksOnLine
    <3>4. comes \in BOOLEAN /\ goes \in BOOLEAN
      BY DEF PickedFrom
    <3>5. fits => back[p] > 0
      BY DEF Sellable
    <3>6. \A u \in UnitsOf(b) :
            /\ ComesBack(s, back, u) =>
                 /\ unit[u].status = "sold"
                 /\ shelf[u] = "available" <=> comes /\ u = x
            /\ ~ComesBack(s, back, u) => shelf[u] = unit[u].status /\ ~(comes /\ u = x)
      <4>1. SUFFICES ASSUME NEW u \in UnitsOf(b)
              PROVE  /\ ComesBack(s, back, u) =>
                          /\ unit[u].status = "sold"
                          /\ shelf[u] = "available" <=> comes /\ u = x
                     /\ ~ComesBack(s, back, u) =>
                          shelf[u] = unit[u].status /\ ~(comes /\ u = x)
        OBVIOUS
      <4>2. u \in Units /\ u # None /\ unit[u].line = b
        BY <1>0 DEF UnitsOf
      <4>3. \A q \in Products : sale[s].unit[q] = u => q = p /\ PickedFrom(sale[s], b) /\ u = x
        BY <3>2, <4>2 DEF UnitsFit, PickedFrom
      <4>4. CASE ComesBack(s, back, u)
        <5>1. unit[u].status = "sold"
          BY <1>1, <1>2, <1>4, <4>2, <4>4, ReturnedUnitWasHeld, HeldIsOut
        <5>2. u = x /\ PickedFrom(sale[s], b)
          BY <4>3, <4>4 DEF ComesBack
        <5>3. (\E q \in Products : sale[s].unit[q] = u /\ Sellable(back, cond, q) > 0)
                <=> fits
          BY <3>1, <4>3, <5>2
        <5>4. shelf[u] = IF \E q \in Products : sale[s].unit[q] = u
                                                /\ Sellable(back, cond, q) > 0
                         THEN "available" ELSE "damaged"
          BY <4>2, <4>4 DEF ComesBack, ReturnedShelf
        <5> HIDE DEF shelf, x, fits
        <5> QED
          BY <4>4, <5>1, <5>2, <5>3, <5>4
      <4>5. CASE ~ComesBack(s, back, u)
        <5>1. shelf[u] = unit[u].status
          BY <4>2, <4>5 DEF ComesBack, ReturnedShelf
        <5>2. ~(comes /\ u = x)
          BY <3>1, <3>5, <4>5 DEF ComesBack
        <5> QED
          BY <4>5, <5>1, <5>2
      <4> QED
        BY <4>4, <4>5
    <3>7. batch'[b].remaining = batch[b].remaining + (IF comes THEN 1 ELSE 0)
                                - (IF goes THEN 1 ELSE 0)
      <4>1. give[b] = IF goes THEN 1 ELSE 0
        <5> HIDE DEF shelf
        <5> QED
          BY <1>2, <2>3, FillsSerial
      <4>2. put[b] = IF comes THEN 1 ELSE 0
        BY <1>0, <1>1, <2>3, PutsBackSerial
      <4> QED
        BY <1>2, <4>1, <4>2
    <3>8. /\ comes => x \in UnitsOf(b)
          /\ \A u \in UnitsOf(b) : u \in Units
      BY <3>2 DEF UnitsOf
    <3> HIDE DEF comes, goes, x, y, shelf, fits
    <3>9. LineMoves(b, x, y, comes, goes)
      <4>1. comes => x \in UnitsOf(b) /\ x \notin Available(b)
        BY <3>6, <3>8 DEF Available
      <4>2. goes => y \in Available(b) \/ (comes /\ y = x)
        BY <3>2, <3>6 DEF Available
      <4>3. \A u \in UnitsOf(b) : unit'[u].status = "available"
              <=> (unit[u].status = "available" \/ (comes /\ u = x)) /\ ~(goes /\ u = y)
        BY <1>3, <3>3, <3>6, <3>8
      <4> QED
        BY <3>7, <4>1, <4>2, <4>3 DEF LineMoves
    <3> QED
      BY <2>1, <2>2, <2>3, <3>4, <3>9, SerialLineMoves
  <2> QED
    BY <2>1, <2>2, <2>3, SerialLineIdle
<1> QED
  BY <1>7, <1>8 DEF SerialStock

\* A financing agreement keeps the count of units.
LEMMA FinancingKeepsSerial ==
    ASSUME RowsInv, SerialStock, NEW a \in Agreements, CreateFinancing(a)
    PROVE  SerialStock'
<1>0. /\ DraftInv /\ TypeOK
      /\ None \notin Batches \cup Units \cup Products
      /\ \A b \in Batches : SerialLine(b)
      /\ \A o \in Sales : SerialSale(o)
  BY StockConstants DEF RowsInv, DraftInv, SerialStock
<1>1. PICK order \in Orders, take \in [Batches -> Quantities] :
        /\ Fills(order, OnShelves, UnitStatuses, take, {"quantity", "individual"})
        /\ \A b \in Batches :
              /\ LineKept(b)
              /\ batch'[b].remaining = batch[b].remaining - take[b]
        /\ UnitsTaken(order) /\ sale' = sale
  BY <1>0, FinancingRows
<1>2. \A u \in Units :
        /\ unit'[u].line = unit[u].line
        /\ unit'[u].status = IF u \in Picked(order) THEN "sold" ELSE unit[u].status
  BY <1>0, <1>1 DEF UnitsTaken, TypeOK, UnitRow
<1>3. LotsGrow(None) /\ UnitLinesKept(None)
  BY <1>0, <1>1, <1>2 DEF LotsGrow, LineKept, UnitLinesKept, TypeOK, UnitRow
<1>4. ASSUME NEW o \in Sales PROVE SerialSale(o)'
  BY <1>0, <1>1, <1>3, SerialSaleKept
<1>5. ASSUME NEW b \in Batches PROVE SerialLine(b)'
  <2>1. \A u \in Units : unit'[u].line = b <=> unit[u].line = b
    BY <1>2
  <2>2. SerialLine(b) /\ LineKept(b)
    BY <1>0, <1>1
  <2>3. CASE Serial(b) /\ batch[b].status = "received"
    <3> DEFINE p == batch[b].product
               y == order.unit[p]
               goes == PickedFrom(order, b)
    <3>1. p \in Products
      BY <2>3 DEF Serial
    <3>2. UnitsFit(order) /\ (goes => y \in UnitsOf(b) /\ UnitStatuses[y] = "available")
      BY <1>0, <1>1, <3>1, FilledUnits
    <3>3. \A u \in UnitsOf(b) : u \in Picked(order) <=> goes /\ u = y
      BY <1>0, <3>1, <3>2, PicksOnLine
    <3>4. FALSE \in BOOLEAN /\ goes \in BOOLEAN
      BY DEF PickedFrom
    <3>5. goes => y \in Available(b)
      BY <3>2 DEF Available, UnitStatuses, UnitsOf
    <3>6. batch'[b].remaining = batch[b].remaining + 0 - (IF goes THEN 1 ELSE 0)
      <4>1. take[b] = IF goes THEN 1 ELSE 0
        BY <1>1, <2>3, FillsSerial
      <4>2. batch[b].remaining \in Int
        BY <1>0 DEF TypeOK, BatchRow
      <4> QED
        BY <1>1, <4>1, <4>2
    <3>7. \A u \in UnitsOf(b) : u \in Units
      BY DEF UnitsOf
    <3> HIDE DEF goes, y
    <3>8. LineMoves(b, None, y, FALSE, goes)
      BY <1>2, <3>3, <3>5, <3>6, <3>7 DEF LineMoves
    <3> QED
      BY <2>1, <2>2, <2>3, <3>4, <3>8, SerialLineMoves
  <2> QED
    BY <2>1, <2>2, <2>3, SerialLineIdle
<1> QED
  BY <1>4, <1>5 DEF SerialStock

\* Every step keeps the count of individually tracked stock.
LEMMA StepKeepsSerial ==
    ASSUME SerialInv, [Next]_vars
    PROVE  SerialInv'
<1>0. HolderInv' /\ RowsInv /\ TypeOK /\ UnitHasOneHolder
      /\ (NoReturnOnVoided => SerialStock)
  BY StepKeepsHolders DEF SerialInv, HolderInv, RowsInv, DraftInv
<1> SUFFICES ASSUME NoReturnOnVoided' PROVE SerialStock'
  BY <1>0 DEF SerialInv
<1>01. NoReturnOnVoided
  BY <1>0, NoReturnBefore
<1>02. SerialStock /\ \A u \in Units : OneHolder(u)
  BY <1>0, <1>01 DEF UnitHasOneHolder, OneHolder
<1>1. ASSUME NEW b \in Batches, Receiving(b) PROVE SerialStock'
  BY <1>0, <1>02, <1>1, ReceivingKeepsSerial
<1>2. ASSUME UNCHANGED <<batch, unit, sale>> PROVE SerialStock'
  BY <1>02, <1>2
     DEF SerialStock, SerialSale, SerialLine, Serial, PickedFrom, Available, UnitsOf
<1>3. ASSUME NEW p \in Products,
             AdjustStock(p) \/ \E active \in BOOLEAN : SetProductActive(p, active)
      PROVE  SerialStock'
  BY <1>2, <1>3 DEF AdjustStock, SetProductActive
<1>4. ASSUME NEW s \in Sales, RecordSale(s) \/ EditSale(s) PROVE SerialStock'
  <2>1. PICK order \in Orders, take \in [Batches -> Quantities],
             trade \in TradeIns : WriteSale(s, order, take, trade)
    BY <1>4 DEF RecordSale, EditSale
  <2>2. sale[s].status = "none" \/ Amendable(s)
    BY <1>4 DEF RecordSale, EditSale
  <2> QED
    BY <1>0, <1>02, <2>1, <2>2, WriteSaleKeepsSerial
<1>5. ASSUME NEW s \in Sales, VoidSale(s) PROVE SerialStock'
  BY <1>0, <1>02, <1>5, VoidSaleKeepsSerial
<1>6. ASSUME NEW s \in Sales, RecordReturn(s) PROVE SerialStock'
  BY <1>0, <1>02, <1>6, RecordReturnKeepsSerial
<1>7. ASSUME NEW a \in Agreements, CreateFinancing(a) PROVE SerialStock'
  BY <1>0, <1>02, <1>7, FinancingKeepsSerial
<1>8. CASE UNCHANGED vars
  BY <1>2, <1>8 DEF vars
<1> QED
  BY <1>1, <1>3, <1>4, <1>5, <1>6, <1>7, <1>8 DEF Next, Receiving

\* Nothing is received and nothing is sold at first.
LEMMA InitSerial == Init => SerialInv
<1> SUFFICES ASSUME Init PROVE SerialInv
  OBVIOUS
<1>0. None \notin Batches \cup Units \cup Products
  BY StockConstants
<1>1. /\ \A b \in Batches : batch[b].status = "absent" /\ batch[b].product = None
      /\ \A u \in Units : unit[u].line = None
      /\ \A s \in Sales, p \in Products : sale[s].unit[p] = None /\ sale[s].quantity[p] = 0
  BY DEF Init, Lines
<1>2. ASSUME NEW s \in Sales PROVE SerialSale(s)
  BY <1>0, <1>1 DEF SerialSale, Serial
<1>3. ASSUME NEW b \in Batches PROVE SerialLine(b)
  BY <1>0, <1>1 DEF SerialLine, UnitsOf
<1> QED
  BY <1>2, <1>3, InitHolders DEF SerialInv, SerialStock

\* As long as no return is recorded against a voided sale, the remainder kept on an
\* individually tracked line and the number of its available units agree.
THEOREM IndividualUnitsCounted == Spec => []IndividualStockCounted
<1>1. SerialInv /\ [Next]_vars => SerialInv'
  BY StepKeepsSerial
<1>2. SerialInv => IndividualStockCounted
  <2> SUFFICES ASSUME SerialInv, NoReturnOnVoided, NEW b \in Batches,
                      batch[b].status = "received", Mode[batch[b].product] = "individual"
               PROVE  batch[b].remaining
                        = Cardinality({u \in UnitsOf(b) : unit[u].status = "available"})
    BY DEF IndividualStockCounted
  <2>1. LinesNamed /\ TypeOK /\ SerialLine(b)
    BY DEF SerialInv, HolderInv, RowsInv, DraftInv, SerialStock
  <2>2. Serial(b)
    BY <2>1 DEF Serial, LinesNamed, TypeOK, BatchRow
  <2> QED
    BY <2>1, <2>2 DEF SerialLine, Available
<1> QED
  BY InitSerial, <1>1, <1>2, PTL DEF Spec
=============================================================================
