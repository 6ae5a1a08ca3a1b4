------------------------- MODULE StockLedgerProofs -------------------------
(***************************************************************************)
(* Theorems about StockLedger, for every catalog, every number of batches, *)
(* units, sales and agreements, and every bound.                           *)
(***************************************************************************)
EXTENDS StockLedger, TLAPS

(***************************************************************************)
(* What the allocation loops take is there to be taken.                    *)
(***************************************************************************)
LEMMA FillsWithinStock ==
    ASSUME TypeOK,
           NEW order, NEW have \in [Batches -> Nat], NEW shelf,
           NEW take \in [Batches -> Quantities], NEW modes,
           Fills(order, have, shelf, take, modes)
    PROVE  \A b \in Batches : take[b] \in Nat /\ take[b] <= have[b]
<1>1. SUFFICES ASSUME NEW b \in Batches
               PROVE  take[b] \in Nat /\ take[b] <= have[b]
  OBVIOUS
<1>2. take[b] \in Nat /\ have[b] \in Nat
  BY StockConstants DEF Quantities
<1>3. CASE batch[b].product = None
  BY <1>2, <1>3 DEF Fills
<1>4. CASE batch[b].product # None
  <2> DEFINE p == batch[b].product
  <2>1. p \in Products /\ b \in Lot(p)
    BY <1>4 DEF TypeOK, BatchRow, Lot
  <2>2. CASE order.quantity[p] = 0 /\ \A c \in Lot(p) : take[c] = 0
    BY <1>2, <2>1, <2>2
  <2>3. CASE TakesInOrder(Lot(p), have, order.quantity[p], take, OldestFirst)
    BY <1>2, <2>1, <2>3 DEF TakesInOrder
  <2>4. CASE AllocatesUnit(p, order.unit[p], have, shelf, take)
    <3>1. take[b] = IF b = unit[order.unit[p]].line THEN 1 ELSE 0
      BY <2>1, <2>4 DEF AllocatesUnit
    <3>2. have[unit[order.unit[p]].line] >= 1
      BY <2>4 DEF AllocatesUnit
    <3>3. CASE b = unit[order.unit[p]].line
      BY <1>2, <3>1, <3>2, <3>3
    <3>4. CASE b # unit[order.unit[p]].line
      BY <1>2, <3>1, <3>4
    <3> QED
      BY <3>3, <3>4
  <2> QED
    BY <2>1, <2>2, <2>3, <2>4 DEF Fills
<1> QED
  BY <1>3, <1>4

(***************************************************************************)
(* Type correctness.                                                       *)
(***************************************************************************)
LEMMA ProductGains ==
    ASSUME product \in [Products -> ProductRow], NEW p, NEW n,
           p \in Products => product[p].qty + n \in Nat
    PROVE  [product EXCEPT ![p].qty = @ + n] \in [Products -> ProductRow]
<1>1. CASE p \in Products
  <2>1. [product[p] EXCEPT !.qty = product[p].qty + n] \in ProductRow
    BY <1>1 DEF ProductRow
  <2> QED
    BY <2>1
<1>2. CASE p \notin Products
  BY <1>2
<1> QED
  BY <1>1, <1>2

LEMMA WriteSaleTypes ==
    ASSUME TypeOK, NEW s \in Sales, NEW order \in Orders,
           NEW take \in [Batches -> Quantities], NEW trade \in TradeIns,
           WriteSale(s, order, take, trade)
    PROVE  TypeOK'
<1> DEFINE have == RestoredBatch(s)
           stock == RestoredProduct(s)
<1>1. have \in [Batches -> Nat] /\ stock \in [Products -> Nat]
  <2>1. /\ \A b \in Batches : batch[b].remaining \in Nat /\ sale[s].alloc[b] \in Nat
        /\ \A p \in Products : product[p].qty \in Nat /\ sale[s].quantity[p] \in Nat
    BY StockConstants
       DEF TypeOK, BatchRow, ProductRow, SaleRow, Quantities, Lines
  <2> QED
    BY <2>1 DEF RestoredBatch, RestoredProduct
<1>2. \A b \in Batches : take[b] \in Nat /\ take[b] <= have[b]
  <2>1. Fills(order, have, RestoredUnit(s), take, {"individual"})
    BY DEF WriteSale
  <2> HIDE DEF have
  <2> QED
    BY <1>1, <2>1, FillsWithinStock
<1>3. \A p \in Products : /\ order.quantity[p] \in Nat
                          /\ order.quantity[p] <= stock[p]
  BY StockConstants DEF WriteSale, Orders, Lines, Quantities
<1>4. trade.at \in Nat /\ (trade.batch \in Batches => trade.product \in Products)
  <2>1. CASE trade = NoTradeIn
    BY <2>1, StockConstants DEF NoTradeIn
  <2>2. CASE trade # NoTradeIn
    <3>1. trade \in [batch : {b \in TradedIn : FreshBatch(b)}, product : Products,
                     unit : FreshUnits \cup {None}, at : Times]
      BY <2>2 DEF TradeIns
    <3> QED
      BY <3>1, StockConstants
  <2> QED
    BY <2>1, <2>2
<1>5. batch' \in [Batches -> BatchRow]
  <2>1. batch' = [b \in Batches |->
            IF b = trade.batch
            THEN NewLine(trade.product, 1, "received", trade.at, TRUE)
            ELSE [batch[b] EXCEPT !.remaining = have[b] - take[b]]]
    BY DEF WriteSale
  <2>2. SUFFICES ASSUME NEW b \in Batches PROVE batch'[b] \in BatchRow
    BY <2>1
  <2>3. CASE b = trade.batch
    BY <1>4, <2>1, <2>3 DEF NewLine, BatchRow
  <2>4. CASE b # trade.batch
    <3>1. have[b] - take[b] \in Nat
      BY <1>1, <1>2
    <3>2. batch[b] \in BatchRow
      BY DEF TypeOK
    <3>3. batch'[b] = [batch[b] EXCEPT !.remaining = have[b] - take[b]]
      BY <2>1, <2>4
    <3> HIDE DEF have
    <3> QED
      BY <3>1, <3>2, <3>3 DEF BatchRow
  <2> QED
    BY <2>3, <2>4
<1>6. product' \in [Products -> ProductRow]
  <2>1. product' = [p \in Products |->
            [product[p] EXCEPT !.qty = stock[p] - order.quantity[p]
                                 + (IF p = trade.product THEN 1 ELSE 0)]]
    BY DEF WriteSale
  <2>2. SUFFICES ASSUME NEW p \in Products PROVE product'[p] \in ProductRow
    BY <2>1
  <2>3. stock[p] - order.quantity[p] + (IF p = trade.product THEN 1 ELSE 0) \in Nat
    BY <1>1, <1>3
  <2> HIDE DEF stock
  <2> QED
    BY <2>1, <2>3 DEF TypeOK, ProductRow
<1>7. unit' \in [Units -> UnitRow]
  BY StockConstants DEF WriteSale, TypeOK, UnitRow, RestoredUnit, TradeIns, NoTradeIn
<1>8. sale' \in [Sales -> SaleRow]
  <2>1. [i \in Lines |-> 0] \in [Lines -> Quantities]
    BY StockConstants DEF Quantities
  <2> QED
    BY <2>1 DEF WriteSale, TypeOK, SaleRow, Orders
<1>9. batchMoves' \in [Batches -> Int] /\ saleMoves' \in [Sales -> [Batches -> Quantities]]
  BY DEF WriteSale, TypeOK
<1> QED
  BY <1>5, <1>6, <1>7, <1>8, <1>9 DEF WriteSale, TypeOK

LEMMA RecordReturnTypes ==
    ASSUME TypeOK, NEW s \in Sales, RecordReturn(s)
    PROVE  TypeOK'
<1>1. PICK back \in [Lines -> Quantities], cond \in [Lines -> Conditions],
           put \in [Batches -> Quantities], order \in Replacements,
           give \in [Batches -> Quantities] :
        ReturnsLines(s, back, cond, put) /\ Exchanges(s, back, cond, put, order, give)
  BY DEF RecordReturn
<1> DEFINE have == [b \in Batches |-> batch[b].remaining + put[b]]
           shelf == ReturnedShelf(s, back, cond)
           stock == [p \in Products |-> product[p].qty + Sellable(back, cond, p)]
<1>2. /\ Fills(order, have, shelf, give, {"individual"})
      /\ \A p \in Products : stock[p] >= order.quantity[p]
      /\ sale' = [sale EXCEPT ![s] = [@ EXCEPT
            !.returned = [i \in Lines |-> sale[s].returned[i] + back[i]],
            !.returns = TRUE]]
      /\ batch' = [b \in Batches |->
            [batch[b] EXCEPT !.remaining = have[b] - give[b]]]
      /\ product' = [p \in Products |->
            [product[p] EXCEPT !.qty = stock[p] - order.quantity[p]]]
      /\ unit' = [u \in Units |-> [unit[u] EXCEPT
            !.status = IF u \in Picked(order) THEN "sold" ELSE shelf[u]]]
      /\ replacement' = [replacement EXCEPT ![s] =
            [alloc |-> [b \in Batches |-> replacement[s].alloc[b] + give[b]],
             units |-> replacement[s].units \cup Picked(order)]]
      /\ returnMoves' = [returnMoves EXCEPT ![s] =
            [b \in Batches |-> returnMoves[s][b] + put[b]]]
      /\ UNCHANGED <<financing, batchMoves, looseMoves, saleMoves>>
  BY <1>1 DEF Exchanges
<1>3. order \in Orders
  BY <1>2 DEF Replacements
<1>4. have \in [Batches -> Nat] /\ stock \in [Products -> Nat]
  <2>1. \A b \in Batches : batch[b].remaining \in Nat /\ put[b] \in Nat
    BY StockConstants DEF TypeOK, BatchRow, Quantities
  <2>2. \A p \in Products : product[p].qty \in Nat /\ back[p] \in Nat
    BY StockConstants DEF TypeOK, ProductRow, Quantities, Lines
  <2> QED
    BY <2>1, <2>2 DEF Sellable
<1>5. \A b \in Batches : give[b] \in Nat /\ give[b] <= have[b]
  <2>1. Fills(order, have, shelf, give, {"individual"})
    BY <1>2
  <2> HIDE DEF have, shelf
  <2> QED
    BY <1>4, <2>1, FillsWithinStock
<1>6. \A p \in Products : /\ order.quantity[p] \in Nat
                          /\ order.quantity[p] <= stock[p]
  <2>1. \A p \in Products : order.quantity[p] \in Nat
    BY <1>3, StockConstants DEF Orders, Lines, Quantities
  <2>2. \A p \in Products : stock[p] >= order.quantity[p]
    BY <1>2
  <2> HIDE DEF stock
  <2> QED
    BY <1>4, <2>1, <2>2
<1>7. sale' \in [Sales -> SaleRow]
  <2> DEFINE returned == [i \in Lines |-> sale[s].returned[i] + back[i]]
  <2>1. returned \in [Lines -> Quantities]
    <3>1. SUFFICES ASSUME NEW i \in Lines
                   PROVE  sale[s].returned[i] + back[i] \in Quantities
      OBVIOUS
    <3>2. sale[s].returned[i] \in Quantities /\ sale[s].quantity[i] \in Quantities
      BY DEF TypeOK, SaleRow
    <3>3. back[i] \in Quantities
      OBVIOUS
    <3>4. back[i] <= sale[s].quantity[i] - sale[s].returned[i]
      BY <1>1 DEF ReturnsLines, Unreturned
    <3> QED
      BY <3>2, <3>3, <3>4, StockConstants DEF Quantities
  <2>2. sale' = [sale EXCEPT ![s] =
                   [sale[s] EXCEPT !.returned = returned, !.returns = TRUE]]
    BY <1>2
  <2> HIDE DEF returned
  <2>3. sale[s] \in SaleRow
    BY DEF TypeOK
  <2>4. [sale[s] EXCEPT !.returned = returned, !.returns = TRUE] \in SaleRow
    BY <2>1, <2>3 DEF SaleRow
  <2> QED
    BY <2>2, <2>4 DEF TypeOK
<1>8. batch' \in [Batches -> BatchRow]
  <2>1. \A b \in Batches : have[b] - give[b] \in Nat
    BY <1>4, <1>5
  <2>2. batch' = [b \in Batches |-> [batch[b] EXCEPT !.remaining = have[b] - give[b]]]
    BY <1>2
  <2> HIDE DEF have
  <2>3. ASSUME NEW b \in Batches
        PROVE  [batch[b] EXCEPT !.remaining = have[b] - give[b]] \in BatchRow
    <3>1. batch[b] \in BatchRow /\ have[b] - give[b] \in Nat
      BY <2>1 DEF TypeOK
    <3> QED
      BY <3>1 DEF BatchRow
  <2> QED
    BY <2>2, <2>3
<1>9. product' \in [Products -> ProductRow]
  <2>1. \A p \in Products : stock[p] - order.quantity[p] \in Nat
    BY <1>4, <1>6
  <2>2. product' = [p \in Products |->
                      [product[p] EXCEPT !.qty = stock[p] - order.quantity[p]]]
    BY <1>2
  <2> HIDE DEF stock
  <2> QED
    BY <2>1, <2>2 DEF TypeOK, ProductRow
<1>10. unit' \in [Units -> UnitRow]
  <2>1. \A u \in Units : shelf[u] \in {"absent", "available", "sold", "damaged"}
    BY DEF TypeOK, UnitRow, ReturnedShelf
  <2>2. unit' = [u \in Units |-> [unit[u] EXCEPT
                    !.status = IF u \in Picked(order) THEN "sold" ELSE shelf[u]]]
    BY <1>2
  <2> HIDE DEF shelf
  <2> QED
    BY <2>1, <2>2 DEF TypeOK, UnitRow
<1>11. Picked(order) \subseteq Units
  BY <1>3 DEF Picked, Orders
<1>12. replacement' \in [Sales -> IssueRow]
  <2>1. \A b \in Batches : replacement[s].alloc[b] + give[b] \in Nat
    BY <1>5 DEF TypeOK, IssueRow
  <2>2. replacement[s].units \cup Picked(order) \subseteq Units
    BY <1>11 DEF TypeOK, IssueRow
  <2> QED
    BY <1>2, <2>1, <2>2 DEF TypeOK, IssueRow
<1>13. returnMoves' \in [Sales -> [Batches -> Nat]]
  <2>1. \A b \in Batches : returnMoves[s][b] + put[b] \in Nat
    BY StockConstants DEF TypeOK, Quantities
  <2> QED
    BY <1>2, <2>1 DEF TypeOK
<1> QED
  BY <1>2, <1>7, <1>8, <1>9, <1>10, <1>12, <1>13 DEF TypeOK

LEMMA CreateFinancingTypes ==
    ASSUME TypeOK, NEW a \in Agreements, CreateFinancing(a)
    PROVE  TypeOK'
<1> DEFINE have == [b \in Batches |-> batch[b].remaining]
           shelf == [u \in Units |-> unit[u].status]
<1>1. PICK order \in Orders, take \in [Batches -> Quantities] :
        /\ Fills(order, have, shelf, take, {"quantity", "individual"})
        /\ \A p \in Products : product[p].qty >= order.quantity[p]
        /\ financing' = [financing EXCEPT ![a] =
              [alloc |-> take, units |-> Picked(order)]]
        /\ batch' = [b \in Batches |->
              [batch[b] EXCEPT !.remaining = @ - take[b]]]
        /\ product' = [p \in Products |->
              [product[p] EXCEPT !.qty = @ - order.quantity[p]]]
        /\ unit' = [u \in Units |->
              [unit[u] EXCEPT !.status = IF u \in Picked(order) THEN "sold" ELSE @]]
        /\ UNCHANGED <<sale, replacement, moves>>
  BY DEF CreateFinancing
<1>2. have \in [Batches -> Nat]
  BY DEF TypeOK, BatchRow
<1>3. \A b \in Batches : take[b] \in Nat /\ take[b] <= batch[b].remaining
  <2>1. Fills(order, have, shelf, take, {"quantity", "individual"})
    BY <1>1
  <2>2. \A b \in Batches : have[b] = batch[b].remaining
    OBVIOUS
  <2> HIDE DEF have, shelf
  <2> QED
    BY <1>2, <2>1, <2>2, FillsWithinStock
<1>4. \A p \in Products : order.quantity[p] \in Nat
  BY StockConstants DEF Orders, Lines, Quantities
<1>5. batch' \in [Batches -> BatchRow]
  <2>1. \A b \in Batches : batch[b].remaining - take[b] \in Nat
    BY <1>3 DEF TypeOK, BatchRow
  <2>2. \A b \in Batches :
            [batch[b] EXCEPT !.remaining = @ - take[b]] \in BatchRow
    BY <2>1 DEF TypeOK, BatchRow
  <2> QED
    BY <1>1, <2>2
<1>6. product' \in [Products -> ProductRow]
  <2>1. \A p \in Products : product[p].qty - order.quantity[p] \in Nat
    BY <1>1, <1>4 DEF TypeOK, ProductRow
  <2>2. \A p \in Products :
            [product[p] EXCEPT !.qty = @ - order.quantity[p]] \in ProductRow
    BY <2>1 DEF TypeOK, ProductRow
  <2> QED
    BY <1>1, <2>2
<1>7. unit' \in [Units -> UnitRow]
  BY <1>1 DEF TypeOK, UnitRow
<1>8. financing' \in [Agreements -> IssueRow]
  <2>1. Picked(order) \subseteq Units
    BY DEF Picked, Orders
  <2>2. take \in [Batches -> Nat]
    BY <1>3
  <2> QED
    BY <1>1, <2>1, <2>2 DEF TypeOK, IssueRow
<1> QED
  BY <1>1, <1>5, <1>6, <1>7, <1>8 DEF TypeOK, moves

LEMMA VoidSaleTypes ==
    ASSUME TypeOK, NEW s \in Sales, VoidSale(s)
    PROVE  TypeOK'
<1>1. sale' \in [Sales -> SaleRow]
  <2>1. sale' = [sale EXCEPT ![s] = [sale[s] EXCEPT !.status = "voided"]]
    BY DEF VoidSale
  <2>2. sale[s] \in SaleRow
    BY DEF TypeOK
  <2>3. [sale[s] EXCEPT !.status = "voided"] \in SaleRow
    BY <2>2 DEF SaleRow
  <2> QED
    BY <2>1, <2>3 DEF TypeOK
<1>2. batch' \in [Batches -> BatchRow]
  <2>1. \A b \in Batches : RestoredBatch(s)[b] \in Nat
    BY StockConstants DEF RestoredBatch, TypeOK, BatchRow, SaleRow, Quantities
  <2> QED
    BY <2>1 DEF VoidSale, TypeOK, BatchRow
<1>3. product' \in [Products -> ProductRow]
  <2>1. \A p \in Products : RestoredProduct(s)[p] \in Nat
    BY StockConstants
       DEF RestoredProduct, TypeOK, ProductRow, SaleRow, Quantities, Lines
  <2> QED
    BY <2>1 DEF VoidSale, TypeOK, ProductRow
<1>4. unit' \in [Units -> UnitRow]
  BY DEF VoidSale, TypeOK, UnitRow, RestoredUnit
<1>5. saleMoves' \in [Sales -> [Batches -> Quantities]]
  BY StockConstants DEF VoidSale, TypeOK, Nothing, Quantities
<1> QED
  BY <1>1, <1>2, <1>3, <1>4, <1>5 DEF VoidSale, TypeOK

LEMMA ReceivingTypes ==
    ASSUME TypeOK, NEW b \in Batches,
           \/ CreateReceipt(b) \/ ReceiveStock(b) \/ ReceiveDraft(b)
           \/ ArchiveDraft(b) \/ CloseWindow(b) \/ CorrectStock(b)
    PROVE  TypeOK'
<1>1. CASE CreateReceipt(b)
  <2>1. PICK p \in Products, n \in 1 .. MaxQuantity, t \in Times,
             status \in {"draft", "received"}, us \in SUBSET FreshUnits :
          /\ FreshBatch(b)
          /\ product[p].active
          /\ Mode[p] = "individual" =>
                /\ Cardinality(us) <= n
                /\ status = "received" => Cardinality(us) = n
          /\ batch' = [batch EXCEPT ![b] = NewLine(p, n, status, t, TRUE)]
          /\ unit' = Shelve(us, b)
          /\ IF status = "received"
             THEN /\ product' = [product EXCEPT ![p].qty = @ + n]
                  /\ batchMoves' = [batchMoves EXCEPT ![b] = n]
             ELSE UNCHANGED <<product, batchMoves>>
          /\ UNCHANGED <<sale, financing, replacement, looseMoves, saleMoves,
                         returnMoves>>
    BY <1>1 DEF CreateReceipt
  <2>2. NewLine(p, n, status, t, TRUE) \in BatchRow
    BY StockConstants DEF NewLine, BatchRow
  <2>3. batch' \in [Batches -> BatchRow]
    BY <2>1, <2>2 DEF TypeOK
  <2>4. unit' \in [Units -> UnitRow]
    BY <2>1 DEF TypeOK, UnitRow, Shelve
  <2>5. [product EXCEPT ![p].qty = @ + n] \in [Products -> ProductRow]
    BY ProductGains DEF TypeOK, ProductRow
  <2>6. product' \in [Products -> ProductRow] /\ batchMoves' \in [Batches -> Int]
    <3>1. CASE status = "received"
      <4>1. /\ product' = [product EXCEPT ![p].qty = @ + n]
            /\ batchMoves' = [batchMoves EXCEPT ![b] = n]
        BY <2>1, <3>1
      <4> QED
        BY <2>5, <4>1 DEF TypeOK
    <3>2. CASE status # "received"
      BY <2>1, <3>2 DEF TypeOK
    <3> QED
      BY <3>1, <3>2
  <2> QED
    BY <2>1, <2>3, <2>4, <2>6 DEF TypeOK
<1>2. CASE ReceiveStock(b)
  <2>1. PICK p \in Products, n \in 1 .. MaxQuantity, t \in Times :
          /\ batch' = [batch EXCEPT ![b] = NewLine(p, n, "received", t, FALSE)]
          /\ product' = [product EXCEPT ![p].qty = @ + n]
          /\ batchMoves' = [batchMoves EXCEPT ![b] = n]
          /\ UNCHANGED <<unit, sale, financing, replacement, looseMoves,
                         saleMoves, returnMoves>>
    BY <1>2 DEF ReceiveStock
  <2>2. NewLine(p, n, "received", t, FALSE) \in BatchRow
    BY StockConstants DEF NewLine, BatchRow
  <2>3. batch' \in [Batches -> BatchRow]
    BY <2>1, <2>2 DEF TypeOK
  <2>4. product' \in [Products -> ProductRow] /\ batchMoves' \in [Batches -> Int]
    <3>1. [product EXCEPT ![p].qty = @ + n] \in [Products -> ProductRow]
      BY ProductGains DEF TypeOK, ProductRow
    <3> QED
      BY <2>1, <3>1 DEF TypeOK
  <2> QED
    BY <2>1, <2>3, <2>4 DEF TypeOK
<1>3. CASE ReceiveDraft(b)
  <2> DEFINE p == batch[b].product
             n == batch[b].received
  <2>1. PICK t \in Times :
          /\ batch' = [batch EXCEPT ![b] =
                [@ EXCEPT !.status = "received", !.remaining = n, !.at = t]]
          /\ product' = [product EXCEPT ![p].qty = @ + n]
          /\ batchMoves' = [batchMoves EXCEPT ![b] = @ + n]
          /\ UNCHANGED <<unit, sale, financing, replacement, looseMoves,
                         saleMoves, returnMoves>>
    BY <1>3 DEF ReceiveDraft
  <2>2. n \in Nat /\ t \in Nat
    BY StockConstants DEF TypeOK, BatchRow
  <2> HIDE DEF n, p
  <2>3. batch' \in [Batches -> BatchRow]
    <3>1. [batch[b] EXCEPT !.status = "received", !.remaining = n, !.at = t]
             \in BatchRow
      BY <2>2 DEF TypeOK, BatchRow
    <3> QED
      BY <2>1, <3>1 DEF TypeOK
  <2>4. product' \in [Products -> ProductRow] /\ batchMoves' \in [Batches -> Int]
    <3>1. p \in Products => product[p].qty + n \in Nat
      BY <2>2 DEF TypeOK, ProductRow
    <3>2. [product EXCEPT ![p].qty = @ + n] \in [Products -> ProductRow]
      BY <3>1, ProductGains DEF TypeOK
    <3> QED
      BY <2>1, <2>2, <3>2 DEF TypeOK
  <2> QED
    BY <2>1, <2>3, <2>4 DEF TypeOK
<1>4. CASE ArchiveDraft(b) \/ CloseWindow(b)
  <2>1. /\ [batch[b] EXCEPT !.status = "archived"] \in BatchRow
        /\ [batch[b] EXCEPT !.window = FALSE] \in BatchRow
    BY DEF TypeOK, BatchRow
  <2>2. batch' \in [Batches -> BatchRow]
    BY <1>4, <2>1 DEF ArchiveDraft, CloseWindow, TypeOK
  <2> QED
    BY <1>4, <2>2 DEF ArchiveDraft, CloseWindow, TypeOK, moves
<1>5. CASE CorrectStock(b)
  <2> DEFINE p == batch[b].product
  <2>1. PICK n \in 1 .. MaxQuantity :
          /\ IF batch[b].status = "received"
             THEN /\ batch[b].remaining + (n - batch[b].received) >= 0
                  /\ product[p].qty + (n - batch[b].received) >= 0
                  /\ batch' = [batch EXCEPT ![b] =
                        [@ EXCEPT !.received = n,
                                  !.remaining = batch[b].remaining
                                                + (n - batch[b].received)]]
                  /\ product' = [product EXCEPT
                        ![p].qty = @ + (n - batch[b].received)]
                  /\ batchMoves' = [batchMoves EXCEPT
                        ![b] = @ + (n - batch[b].received)]
             ELSE /\ batch' = [batch EXCEPT ![b] =
                        [@ EXCEPT !.received = n, !.remaining = 0]]
                  /\ UNCHANGED <<product, batchMoves>>
          /\ UNCHANGED <<unit, sale, financing, replacement, looseMoves,
                         saleMoves, returnMoves>>
    BY <1>5 DEF CorrectStock
  <2> DEFINE delta == n - batch[b].received
  <2>2. n \in Nat /\ delta \in Int
    BY DEF TypeOK, BatchRow
  <2>3. CASE batch[b].status = "received"
    <3>1. /\ batch[b].remaining + delta >= 0
          /\ product[p].qty + delta >= 0
          /\ batch' = [batch EXCEPT ![b] =
                [@ EXCEPT !.received = n, !.remaining = batch[b].remaining + delta]]
          /\ product' = [product EXCEPT ![p].qty = @ + delta]
          /\ batchMoves' = [batchMoves EXCEPT ![b] = @ + delta]
      BY <2>1, <2>3
    <3> HIDE DEF delta, p
    <3>2. batch' \in [Batches -> BatchRow]
      <4>1. batch[b].remaining + delta \in Nat
        BY <2>2, <3>1 DEF TypeOK, BatchRow
      <4> DEFINE row == [batch[b] EXCEPT !.received = n,
                                  !.remaining = batch[b].remaining + delta]
      <4>2. row \in BatchRow
        BY <2>2, <4>1 DEF TypeOK, BatchRow
      <4>3. batch' = [batch EXCEPT ![b] = row]
        BY <3>1
      <4> HIDE DEF row
      <4> QED
        BY <4>2, <4>3 DEF TypeOK
    <3>3. product' \in [Products -> ProductRow] /\ batchMoves' \in [Batches -> Int]
      <4>1. p \in Products => product[p].qty + delta \in Nat
        BY <2>2, <3>1 DEF TypeOK, ProductRow
      <4>2. [product EXCEPT ![p].qty = @ + delta] \in [Products -> ProductRow]
        BY <4>1, ProductGains DEF TypeOK
      <4> QED
        BY <2>2, <3>1, <4>2 DEF TypeOK
    <3> QED
      BY <2>1, <3>2, <3>3 DEF TypeOK
  <2>4. CASE batch[b].status # "received"
    <3>1. /\ batch' = [batch EXCEPT ![b] =
                [@ EXCEPT !.received = n, !.remaining = 0]]
          /\ UNCHANGED <<product, batchMoves>>
      BY <2>1, <2>4
    <3>2. [batch[b] EXCEPT !.received = n, !.remaining = 0] \in BatchRow
      BY <2>2 DEF TypeOK, BatchRow
    <3>3. batch' \in [Batches -> BatchRow]
      BY <3>1, <3>2 DEF TypeOK
    <3> QED
      BY <2>1, <3>1, <3>3 DEF TypeOK
  <2> QED
    BY <2>3, <2>4
<1> QED
  BY <1>1, <1>2, <1>3, <1>4, <1>5

LEMMA StepTypes ==
    ASSUME TypeOK, [Next]_vars
    PROVE  TypeOK'
<1>1. ASSUME NEW b \in Batches,
             \/ CreateReceipt(b) \/ ReceiveStock(b) \/ ReceiveDraft(b)
             \/ ArchiveDraft(b) \/ CloseWindow(b) \/ CorrectStock(b)
      PROVE  TypeOK'
  BY <1>1, ReceivingTypes
<1>2. ASSUME NEW p \in Products, AdjustStock(p)
      PROVE  TypeOK'
  <2>1. PICK delta \in (-MaxQuantity .. MaxQuantity) \ {0} :
          /\ product[p].qty + delta >= 0
          /\ product' = [product EXCEPT ![p].qty = @ + delta]
          /\ looseMoves' = [looseMoves EXCEPT ![p] = @ + delta]
          /\ UNCHANGED <<batch, unit, sale, financing, replacement, batchMoves,
                         saleMoves, returnMoves>>
    BY <1>2 DEF AdjustStock
  <2>2. delta \in Int
    BY StockConstants
  <2>3. product[p].qty + delta \in Nat
    BY <2>1, <2>2 DEF TypeOK, ProductRow
  <2>4. [product EXCEPT ![p].qty = @ + delta] \in [Products -> ProductRow]
    BY <2>3, ProductGains DEF TypeOK
  <2>5. product' \in [Products -> ProductRow] /\ looseMoves' \in [Products -> Int]
    BY <2>1, <2>2, <2>4 DEF TypeOK
  <2> QED
    BY <2>1, <2>5 DEF TypeOK
<1>3. ASSUME NEW p \in Products, NEW active \in BOOLEAN, SetProductActive(p, active)
      PROVE  TypeOK'
  <2>1. product' \in [Products -> ProductRow]
    BY <1>3 DEF SetProductActive, TypeOK, ProductRow
  <2> QED
    BY <1>3, <2>1 DEF SetProductActive, TypeOK, moves
<1>4. ASSUME NEW s \in Sales, RecordSale(s) \/ EditSale(s)
      PROVE  TypeOK'
  <2>1. PICK order \in Orders, take \in [Batches -> Quantities],
             trade \in TradeIns : WriteSale(s, order, take, trade)
    BY <1>4 DEF RecordSale, EditSale
  <2> QED
    BY <2>1, WriteSaleTypes
<1>5. ASSUME NEW s \in Sales, VoidSale(s)
      PROVE  TypeOK'
  BY <1>5, VoidSaleTypes
<1>6. ASSUME NEW s \in Sales, RecordReturn(s)
      PROVE  TypeOK'
  BY <1>6, RecordReturnTypes
<1>7. ASSUME NEW a \in Agreements, CreateFinancing(a)
      PROVE  TypeOK'
  BY <1>7, CreateFinancingTypes
<1>8. CASE UNCHANGED vars
  BY <1>8 DEF vars, moves, TypeOK
<1> QED
  BY <1>1, <1>2, <1>3, <1>4, <1>5, <1>6, <1>7, <1>8 DEF Next

LEMMA InitTypes == Init => TypeOK
<1>1. 0 \in Quantities
  BY StockConstants DEF Quantities
<1> QED
  BY <1>1 DEF Init, TypeOK, ProductRow, BatchRow, UnitRow, SaleRow, IssueRow,
              Nothing

(***************************************************************************)
(* Every reachable state is well typed: no operation, in any order, drives *)
(* a product's quantity or a batch's remainder below zero, and no line     *)
(* gives back or allocates more than a line may hold.                      *)
(***************************************************************************)
THEOREM AlwaysTyped == Spec => []TypeOK
<1>1. Init => TypeOK
  BY InitTypes
<1>2. TypeOK /\ [Next]_vars => TypeOK'
  BY StepTypes
<1> QED
  BY <1>1, <1>2, PTL DEF Spec

(***************************************************************************)
(* What a step does to the sales: it leaves them alone, writes a new order *)
(* into a sale that may still be written, voids one, or adds a return.     *)
(***************************************************************************)
Rewritten(s) ==
    /\ sale[s].status = "none" \/ Amendable(s)
    /\ \A o \in Sales \ {s} : sale'[o] = sale[o] /\ saleMoves'[o] = saleMoves[o]
    /\ ~sale'[s].returns

Voided(s) ==
    /\ Amendable(s)
    /\ sale' = [sale EXCEPT ![s].status = "voided"]
    /\ \A o \in Sales \ {s} : saleMoves'[o] = saleMoves[o]

Returned(s) ==
    /\ sale[s].status # "none"
    /\ \A o \in Sales \ {s} : sale'[o] = sale[o]
    /\ sale'[s] = [sale[s] EXCEPT !.returned = sale'[s].returned, !.returns = TRUE]
    /\ UNCHANGED saleMoves

LEMMA SaleSteps ==
    ASSUME TypeOK, [Next]_vars
    PROVE  \/ UNCHANGED <<sale, saleMoves>>
           \/ \E s \in Sales : Rewritten(s) \/ Voided(s) \/ Returned(s)
<1>1. ASSUME NEW b \in Batches,
             \/ CreateReceipt(b) \/ ReceiveStock(b) \/ ReceiveDraft(b)
             \/ ArchiveDraft(b) \/ CloseWindow(b) \/ CorrectStock(b)
      PROVE  UNCHANGED <<sale, saleMoves>>
  BY <1>1 DEF CreateReceipt, ReceiveStock, ReceiveDraft, ArchiveDraft,
              CloseWindow, CorrectStock, moves
<1>2. ASSUME NEW p \in Products,
             AdjustStock(p) \/ \E active \in BOOLEAN : SetProductActive(p, active)
      PROVE  UNCHANGED <<sale, saleMoves>>
  BY <1>2 DEF AdjustStock, SetProductActive, moves
<1>3. ASSUME NEW a \in Agreements, CreateFinancing(a)
      PROVE  UNCHANGED <<sale, saleMoves>>
  BY <1>3 DEF CreateFinancing, moves
<1>4. ASSUME NEW s \in Sales, RecordSale(s) \/ EditSale(s)
      PROVE  Rewritten(s)
  <2>1. sale[s].status = "none" \/ Amendable(s)
    BY <1>4 DEF RecordSale, EditSale
  <2>2. PICK order \in Orders, take \in [Batches -> Quantities],
             trade \in TradeIns : WriteSale(s, order, take, trade)
    BY <1>4 DEF RecordSale, EditSale
  <2>3. \A o \in Sales \ {s} : sale'[o] = sale[o] /\ saleMoves'[o] = saleMoves[o]
    BY <2>2 DEF WriteSale, TypeOK
  <2>4. ~sale'[s].returns
    BY <2>2 DEF WriteSale, TypeOK
  <2> QED
    BY <2>1, <2>3, <2>4 DEF Rewritten
<1>5. ASSUME NEW s \in Sales, VoidSale(s)
      PROVE  Voided(s)
  BY <1>5 DEF VoidSale, Voided, TypeOK
<1>6. ASSUME NEW s \in Sales, RecordReturn(s)
      PROVE  Returned(s)
  <2>1. PICK back \in [Lines -> Quantities], cond \in [Lines -> Conditions],
             put \in [Batches -> Quantities], order \in Replacements,
             give \in [Batches -> Quantities] :
          Returnable(s) /\ Exchanges(s, back, cond, put, order, give)
    BY <1>6 DEF RecordReturn, ReturnsLines
  <2> DEFINE returned == [i \in Lines |-> sale[s].returned[i] + back[i]]
             row == [sale[s] EXCEPT !.returned = returned, !.returns = TRUE]
  <2>2. sale' = [sale EXCEPT ![s] = row] /\ UNCHANGED saleMoves
    BY <2>1 DEF Exchanges
  <2>3. row = [sale[s] EXCEPT !.returned = row.returned, !.returns = TRUE]
    <3>1. sale[s] \in SaleRow
      BY DEF TypeOK
    <3> HIDE DEF returned
    <3> QED
      BY <3>1 DEF SaleRow
  <2>4. sale'[s] = row /\ \A o \in Sales \ {s} : sale'[o] = sale[o]
    <3> HIDE DEF row
    <3> QED
      BY <2>2 DEF TypeOK
  <2> HIDE DEF row
  <2> QED
    BY <2>1, <2>2, <2>3, <2>4 DEF Returned, Returnable
<1>7. CASE UNCHANGED vars
  BY <1>7 DEF vars, moves
<1> QED
  BY <1>1, <1>2, <1>3, <1>4, <1>5, <1>6, <1>7 DEF Next

(***************************************************************************)
(* A voided sale is archived for good.                                     *)
(***************************************************************************)
THEOREM VoidedSalesStayVoided == Spec => VoidedSaleIsFinal
<1> DEFINE Final == \A s \in Sales : sale[s].status = "voided" =>
                        /\ sale'[s].status = "voided"
                        /\ sale'[s].quantity = sale[s].quantity
                        /\ sale'[s].alloc = sale[s].alloc
<1>1. TypeOK /\ [Next]_vars => [Final]_vars
  <2>1. SUFFICES ASSUME TypeOK, [Next]_vars, NEW s \in Sales,
                        sale[s].status = "voided"
                 PROVE  /\ sale'[s].status = "voided"
                        /\ sale'[s].quantity = sale[s].quantity
                        /\ sale'[s].alloc = sale[s].alloc
    OBVIOUS
  <2>2. ASSUME NEW o \in Sales, Rewritten(o) \/ Voided(o)
        PROVE  sale'[s] = sale[s]
    BY <2>1, <2>2 DEF Rewritten, Voided, Amendable, TypeOK
  <2>3. ASSUME NEW o \in Sales, Returned(o)
        PROVE  /\ sale'[s].status = sale[s].status
               /\ sale'[s].quantity = sale[s].quantity
               /\ sale'[s].alloc = sale[s].alloc
    <3>1. sale[s] \in SaleRow
      BY <2>1 DEF TypeOK
    <3> QED
      BY <2>3, <3>1 DEF Returned, SaleRow
  <2> QED
    BY <2>1, <2>2, <2>3, SaleSteps
<1> QED
  BY <1>1, AlwaysTyped, PTL DEF Spec, VoidedSaleIsFinal

(***************************************************************************)
(* A sale with a return is never rewritten.  The invariant: only a sale    *)
(* that was recorded has returns.                                          *)
(***************************************************************************)
ReturnsOfRecordedSales ==
    \A s \in Sales : sale[s].returns => sale[s].status # "none"

LEMMA ReturnsOfRecordedSalesStep ==
    ASSUME TypeOK, ReturnsOfRecordedSales, [Next]_vars
    PROVE  ReturnsOfRecordedSales'
<1>1. ASSUME NEW s \in Sales, Rewritten(s)
      PROVE  ReturnsOfRecordedSales'
  BY <1>1 DEF Rewritten, ReturnsOfRecordedSales
<1>2. ASSUME NEW s \in Sales, Voided(s)
      PROVE  ReturnsOfRecordedSales'
  <2>1. \A o \in Sales \ {s} : sale'[o] = sale[o]
    BY <1>2 DEF Voided, TypeOK
  <2>2. ~sale'[s].returns
    BY <1>2 DEF Voided, Amendable, TypeOK, SaleRow
  <2> QED
    BY <2>1, <2>2 DEF ReturnsOfRecordedSales
<1>3. ASSUME NEW s \in Sales, Returned(s)
      PROVE  ReturnsOfRecordedSales'
  <2>1. sale[s] \in SaleRow
    BY DEF TypeOK
  <2>2. sale'[s].status = sale[s].status
    BY <1>3, <2>1 DEF Returned, SaleRow
  <2> QED
    BY <1>3, <2>2 DEF Returned, ReturnsOfRecordedSales
<1>4. CASE UNCHANGED <<sale, saleMoves>>
  BY <1>4 DEF ReturnsOfRecordedSales
<1> QED
  BY <1>1, <1>2, <1>3, <1>4, SaleSteps

THEOREM ReturnedSalesStayFrozen == Spec => ReturnedSaleIsFrozen
<1> DEFINE Frozen == \A s \in Sales : sale[s].returns =>
                /\ sale'[s] = [sale[s] EXCEPT !.returned = sale'[s].returned]
                /\ saleMoves'[s] = saleMoves[s]
<1>1. TypeOK /\ ReturnsOfRecordedSales /\ [Next]_vars => [Frozen]_vars
  <2>1. SUFFICES ASSUME TypeOK, ReturnsOfRecordedSales, [Next]_vars,
                        NEW s \in Sales, sale[s].returns
                 PROVE  /\ sale'[s] = [sale[s] EXCEPT !.returned = sale'[s].returned]
                        /\ saleMoves'[s] = saleMoves[s]
    OBVIOUS
  <2>2. sale[s] \in SaleRow /\ sale[s].status # "none"
    BY <2>1 DEF TypeOK, ReturnsOfRecordedSales
  <2>3. ASSUME sale'[s] = sale[s]
        PROVE  sale'[s] = [sale[s] EXCEPT !.returned = sale'[s].returned]
    BY <2>2, <2>3 DEF SaleRow
  <2>4. ASSUME NEW o \in Sales, Rewritten(o) \/ Voided(o)
        PROVE  sale'[s] = sale[s] /\ saleMoves'[s] = saleMoves[s]
    BY <2>1, <2>2, <2>4 DEF Rewritten, Voided, Amendable, TypeOK
  <2>5. ASSUME NEW o \in Sales, Returned(o), o = s
        PROVE  sale'[s] = [sale[s] EXCEPT !.returned = sale'[s].returned]
    <3>1. sale'[s] = [sale[s] EXCEPT !.returned = sale'[s].returned,
                                     !.returns = TRUE]
      BY <2>5 DEF Returned
    <3> QED
      BY <2>1, <2>2, <3>1 DEF SaleRow
  <2>6. ASSUME NEW o \in Sales, Returned(o)
        PROVE  /\ o # s => sale'[s] = sale[s]
               /\ saleMoves'[s] = saleMoves[s]
    BY <2>6 DEF Returned
  <2> QED
    BY <2>1, <2>3, <2>4, <2>5, <2>6, SaleSteps
<1>2. Init => ReturnsOfRecordedSales
  BY DEF Init, ReturnsOfRecordedSales
<1>3. TypeOK /\ ReturnsOfRecordedSales /\ [Next]_vars => ReturnsOfRecordedSales'
  BY ReturnsOfRecordedSalesStep
<1> QED
  BY <1>1, <1>2, <1>3, AlwaysTyped, PTL DEF Spec, ReturnedSaleIsFrozen

(***************************************************************************)
(* Drafts hold no stock.  The strengthening: a unit exists exactly when it *)
(* is on a line, and a unit a sale names is on a line the sale took from,  *)
(* so giving it back cannot touch a draft.                                 *)
(***************************************************************************)
UnitsOnLines == \A u \in Units : unit[u].status = "absent" <=> unit[u].line = None

SaleUnitsAllocated ==
    \A s \in Sales, p \in Products :
        LET u == sale[s].unit[p] IN
        u # None => /\ unit[u].line \in Batches
                    /\ batch[unit[u].line].product = p
                    /\ sale[s].alloc[unit[u].line] = 1

NotReceived(b) == batch[b].status \in {"absent", "draft", "archived"}

DraftInv == TypeOK /\ DraftsHoldNoStock /\ UnitsOnLines /\ SaleUnitsAllocated

LEMMA FillsPicks ==
    ASSUME TypeOK, NEW order, NEW have, NEW shelf, NEW take, NEW modes,
           Fills(order, have, shelf, take, modes),
           NEW p \in Products, order.unit[p] # None
    PROVE  LET u == order.unit[p] IN
           /\ unit[u].line \in Batches
           /\ batch[unit[u].line].product = p
           /\ have[unit[u].line] >= 1
           /\ take[unit[u].line] = 1
           /\ shelf[u] = "available"
           /\ order.quantity[p] = 1
<1>1. order.quantity[p] = 1 /\ AllocatesUnit(p, order.unit[p], have, shelf, take)
  BY DEF Fills
<1> QED
  BY <1>1 DEF AllocatesUnit, Lot

\* From rows that hold nothing, nothing is taken, and no unit is picked.
LEMMA NothingTakenFromEmpty ==
    ASSUME TypeOK, NEW order \in Orders, NEW have \in [Batches -> Nat], NEW shelf,
           NEW take \in [Batches -> Quantities], NEW modes,
           Fills(order, have, shelf, take, modes),
           NEW b \in Batches, have[b] = 0
    PROVE  take[b] = 0 /\ \A u \in UnitsOf(b) : u \notin Picked(order)
<1>1. take[b] = 0
  BY FillsWithinStock
<1>2. ASSUME NEW u \in UnitsOf(b), u \in Picked(order)
      PROVE  FALSE
  <2>1. PICK p \in Products : order.unit[p] = u /\ u # None
    BY <1>2 DEF Picked
  <2>2. unit[u].line = b
    BY DEF UnitsOf
  <2>3. take[unit[u].line] = 1
    BY <2>1, FillsPicks
  <2> QED
    BY <1>1, <2>2, <2>3
<1> QED
  BY <1>1, <1>2

LEMMA ReceivingKeepsDrafts ==
    ASSUME DraftInv, NEW b \in Batches,
           \/ CreateReceipt(b) \/ ReceiveStock(b) \/ ReceiveDraft(b)
           \/ ArchiveDraft(b) \/ CloseWindow(b) \/ CorrectStock(b)
    PROVE  DraftsHoldNoStock' /\ UnitsOnLines' /\ SaleUnitsAllocated'
<1> USE DEF DraftInv
<1>1. UNCHANGED <<sale, financing, replacement>>
  BY DEF CreateReceipt, ReceiveStock, ReceiveDraft, ArchiveDraft, CloseWindow,
         CorrectStock
<1>2. \A c \in Batches \ {b} : batch'[c] = batch[c] /\ batchMoves'[c] = batchMoves[c]
  BY DEF CreateReceipt, ReceiveStock, ReceiveDraft, ArchiveDraft, CloseWindow,
         CorrectStock, TypeOK, moves
<1>3. /\ NotReceived(b)' => /\ NotReceived(b)
                            /\ batch'[b].remaining = 0 /\ batchMoves'[b] = 0
      /\ batch[b].status # "absent" => batch'[b].product = batch[b].product
  <2> DEFINE row == batch[b]
  <2>1. row \in BatchRow
    BY DEF TypeOK
  <2>2. NotReceived(b) => row.remaining = 0 /\ batchMoves[b] = 0
    BY DEF DraftsHoldNoStock, NotReceived
  <2>3. CASE CreateReceipt(b)
    <3>1. row.status = "absent"
      BY <2>3 DEF CreateReceipt, FreshBatch
    <3>2. PICK p \in Products, n \in 1 .. MaxQuantity, t \in Times,
               status \in {"draft", "received"} :
             /\ batch' = [batch EXCEPT ![b] = NewLine(p, n, status, t, TRUE)]
             /\ status # "received" => UNCHANGED batchMoves
      BY <2>3 DEF CreateReceipt
    <3>3. batch'[b] = NewLine(p, n, status, t, TRUE)
      BY <3>2 DEF TypeOK
    <3> QED
      BY <2>2, <3>1, <3>2, <3>3 DEF NewLine, NotReceived
  <2>4. CASE ReceiveStock(b)
    <3>1. row.status = "absent"
      BY <2>4 DEF ReceiveStock, FreshBatch
    <3>2. PICK p \in Products, n \in 1 .. MaxQuantity, t \in Times :
             batch' = [batch EXCEPT ![b] = NewLine(p, n, "received", t, FALSE)]
      BY <2>4 DEF ReceiveStock
    <3>3. batch'[b] = NewLine(p, n, "received", t, FALSE)
      BY <3>2 DEF TypeOK
    <3> QED
      BY <3>1, <3>3 DEF NewLine, NotReceived
  <2>5. CASE ReceiveDraft(b)
    <3>1. PICK t \in Times :
            batch'[b] = [row EXCEPT !.status = "received",
                                    !.remaining = row.received, !.at = t]
      BY <2>5 DEF ReceiveDraft, TypeOK
    <3> HIDE DEF row
    <3>2. batch'[b].status = "received" /\ batch'[b].product = row.product
      BY <2>1, <3>1 DEF BatchRow
    <3> QED
      BY <3>2 DEF NotReceived, row
  <2>6. CASE ArchiveDraft(b)
    <3>1. row.status = "draft" /\ batchMoves' = batchMoves
      BY <2>6 DEF ArchiveDraft, moves
    <3>2. batch'[b] = [row EXCEPT !.status = "archived"]
      BY <2>6 DEF ArchiveDraft, TypeOK
    <3> QED
      BY <2>1, <2>2, <3>1, <3>2 DEF NotReceived, BatchRow
  <2>7. CASE CloseWindow(b)
    <3>1. batch'[b] = [row EXCEPT !.window = FALSE] /\ batchMoves' = batchMoves
      BY <2>7 DEF CloseWindow, TypeOK, moves
    <3> QED
      BY <2>1, <2>2, <3>1 DEF NotReceived, BatchRow
  <2>8. CASE CorrectStock(b)
    <3>1. PICK n \in 1 .. MaxQuantity :
            IF row.status = "received"
            THEN batch' = [batch EXCEPT ![b] =
                   [row EXCEPT !.received = n,
                               !.remaining = row.remaining + (n - row.received)]]
            ELSE /\ batch' = [batch EXCEPT ![b] =
                       [row EXCEPT !.received = n, !.remaining = 0]]
                 /\ UNCHANGED batchMoves
      BY <2>8 DEF CorrectStock
    <3>2. row.status \in {"draft", "received"}
      BY <2>8 DEF CorrectStock, Editable
    <3>3. CASE row.status = "received"
      <4>1. batch'[b] = [row EXCEPT !.received = n,
                            !.remaining = row.remaining + (n - row.received)]
        BY <3>1, <3>3 DEF TypeOK
      <4>2. batch'[b].status = "received" /\ batch'[b].product = row.product
        <5> HIDE DEF row
        <5> QED
          BY <2>1, <3>3, <4>1 DEF BatchRow
      <4> QED
        BY <4>2 DEF NotReceived
    <3>4. CASE row.status = "draft"
      <4>1. /\ batch'[b] = [row EXCEPT !.received = n, !.remaining = 0]
            /\ batchMoves' = batchMoves
        BY <3>1, <3>4 DEF TypeOK
      <4>2. batch'[b].remaining = 0 /\ batch'[b].product = row.product
        <5> HIDE DEF row
        <5> QED
          BY <2>1, <4>1 DEF BatchRow
      <4> QED
        BY <2>2, <3>4, <4>1, <4>2 DEF NotReceived
    <3> QED
      BY <3>2, <3>3, <3>4
  <2> QED
    BY <2>3, <2>4, <2>5, <2>6, <2>7, <2>8
<1>4. PICK us \in SUBSET FreshUnits : unit' = Shelve(us, b)
  <2>1. CASE CreateReceipt(b)
    BY <2>1 DEF CreateReceipt
  <2>2. CASE ~CreateReceipt(b)
    <3>1. unit' = unit
      BY <2>2 DEF ReceiveStock, ReceiveDraft, ArchiveDraft, CloseWindow, CorrectStock
    <3>2. unit = Shelve({}, b)
      BY DEF Shelve, TypeOK
    <3> QED
      BY <3>1, <3>2
  <2> QED
    BY <2>1, <2>2
<1>5. UnitsOnLines'
  BY <1>4, StockConstants DEF UnitsOnLines, Shelve
<1>6. \A u \in Units : /\ u \in us => unit[u].line = None
                       /\ u \notin us => unit'[u] = unit[u]
                       /\ u \in us => unit'[u] = [line |-> b, status |-> "available"]
  BY <1>4 DEF UnitsOnLines, Shelve, FreshUnits
<1>7. DraftsHoldNoStock'
  <2>1. SUFFICES ASSUME NEW c \in Batches, NotReceived(c)'
        PROVE  /\ batch'[c].remaining = 0 /\ batchMoves'[c] = 0
               /\ \A s \in Sales : /\ sale'[s].alloc[c] = 0
                                   /\ replacement'[s].alloc[c] = 0
               /\ \A a \in Agreements : financing'[a].alloc[c] = 0
               /\ \A u \in Units : unit'[u].line = c => unit'[u].status = "available"
    BY DEF DraftsHoldNoStock, NotReceived, UnitsOf
  <2>2. NotReceived(c)
    BY <1>2, <1>3, <2>1 DEF NotReceived
  <2>3. batch'[c].remaining = 0 /\ batchMoves'[c] = 0
    BY <1>2, <1>3, <2>1, <2>2 DEF DraftsHoldNoStock, NotReceived
  <2>4. \A u \in Units : unit'[u].line = c => unit'[u].status = "available"
    BY <1>6, <2>2 DEF DraftsHoldNoStock, NotReceived, UnitsOf
  <2> QED
    BY <1>1, <2>2, <2>3, <2>4 DEF DraftsHoldNoStock, NotReceived
<1>8. SaleUnitsAllocated'
  <2>1. SUFFICES ASSUME NEW s \in Sales, NEW p \in Products,
                        sale[s].unit[p] # None
                 PROVE  LET u == sale[s].unit[p] IN
                        /\ unit'[u].line \in Batches
                        /\ batch'[unit'[u].line].product = p
                        /\ sale[s].alloc[unit'[u].line] = 1
    BY <1>1 DEF SaleUnitsAllocated
  <2> DEFINE u == sale[s].unit[p]
  <2>2. /\ unit[u].line \in Batches
        /\ batch[unit[u].line].product = p
        /\ sale[s].alloc[unit[u].line] = 1
    BY <2>1 DEF SaleUnitsAllocated
  <2>3. u \in Units
    BY <2>1 DEF TypeOK, SaleRow
  <2>4. unit'[u] = unit[u]
    BY <1>6, <2>2, <2>3, StockConstants
  <2>5. batch[unit[u].line].status # "absent"
    BY <2>2 DEF DraftsHoldNoStock
  <2>6. batch'[unit[u].line].product = p
    BY <1>2, <1>3, <2>2, <2>5
  <2> QED
    BY <2>2, <2>4, <2>6
<1> QED
  BY <1>5, <1>7, <1>8

LEMMA WriteSaleKeepsDrafts ==
    ASSUME DraftInv, NEW s \in Sales, NEW order \in Orders,
           NEW take \in [Batches -> Quantities], NEW trade \in TradeIns,
           WriteSale(s, order, take, trade)
    PROVE  DraftsHoldNoStock' /\ UnitsOnLines' /\ SaleUnitsAllocated'
<1> USE DEF DraftInv
<1> DEFINE have == RestoredBatch(s)
           shelf == RestoredUnit(s)
<1>1. /\ Fills(order, have, shelf, take, {"individual"})
      /\ sale' = [sale EXCEPT ![s] =
           [status |-> "active", quantity |-> order.quantity,
            returned |-> [i \in Lines |-> 0], unit |-> order.unit,
            alloc |-> take, tradedIn |-> trade # NoTradeIn, returns |-> FALSE]]
      /\ batch' = [b \in Batches |->
           IF b = trade.batch
           THEN NewLine(trade.product, 1, "received", trade.at, TRUE)
           ELSE [batch[b] EXCEPT !.remaining = have[b] - take[b]]]
      /\ unit' = [u \in Units |->
           IF u = trade.unit THEN [line |-> trade.batch, status |-> "available"]
           ELSE [line |-> unit[u].line,
                 status |-> IF u \in Picked(order) THEN "sold" ELSE shelf[u]]]
      /\ batchMoves' = [b \in Batches |->
           IF b = trade.batch THEN 1 ELSE batchMoves[b]]
      /\ UNCHANGED <<financing, replacement>>
  BY DEF WriteSale
<1>2. have \in [Batches -> Nat]
  BY StockConstants DEF RestoredBatch, TypeOK, BatchRow, SaleRow, Quantities
<1>3. /\ trade.batch \in Batches => batch[trade.batch].status = "absent"
      /\ trade.unit \in Units => /\ unit[trade.unit].line = None
                                 /\ trade.batch \in Batches
  <2>1. CASE trade = NoTradeIn
    BY <2>1, StockConstants DEF NoTradeIn
  <2>2. CASE trade # NoTradeIn
    BY <2>2, StockConstants DEF TradeIns, FreshBatch, FreshUnits, UnitsOnLines
  <2> QED
    BY <2>1, <2>2
<1>4. /\ sale'[s].alloc = take /\ sale'[s].unit = order.unit
      /\ \A o \in Sales \ {s} : sale'[o] = sale[o]
  BY <1>1 DEF TypeOK
<1>5. \A b \in Batches : b # trade.batch =>
        /\ batch'[b].remaining = have[b] - take[b]
        /\ batch'[b].product = batch[b].product
        /\ batch'[b].status = batch[b].status
        /\ batchMoves'[b] = batchMoves[b]
  <2>1. SUFFICES ASSUME NEW b \in Batches, b # trade.batch
                 PROVE  /\ batch'[b].remaining = have[b] - take[b]
                        /\ batch'[b].product = batch[b].product
                        /\ batch'[b].status = batch[b].status
                        /\ batchMoves'[b] = batchMoves[b]
    OBVIOUS
  <2>2. batch'[b] = [batch[b] EXCEPT !.remaining = have[b] - take[b]]
    BY <1>1, <2>1
  <2>3. batch[b] \in BatchRow
    BY DEF TypeOK
  <2> HIDE DEF have
  <2> QED
    BY <1>1, <2>1, <2>2, <2>3 DEF BatchRow
<1>6. trade.batch \in Batches => batch'[trade.batch].status = "received"
  BY <1>1 DEF NewLine
<1>7. \A u \in Units : u # trade.unit =>
        /\ unit'[u].line = unit[u].line
        /\ unit'[u].status = IF u \in Picked(order) THEN "sold" ELSE shelf[u]
  BY <1>1
<1>8. \A p \in Products : order.unit[p] # None =>
          /\ unit[order.unit[p]].line \in Batches
          /\ batch[unit[order.unit[p]].line].product = p
          /\ have[unit[order.unit[p]].line] >= 1
          /\ take[unit[order.unit[p]].line] = 1
  BY <1>1, FillsPicks
<1>9. DraftsHoldNoStock'
  <2>1. SUFFICES ASSUME NEW c \in Batches, NotReceived(c)'
        PROVE  /\ batch'[c].remaining = 0 /\ batchMoves'[c] = 0
               /\ \A o \in Sales : /\ sale'[o].alloc[c] = 0
                                   /\ replacement'[o].alloc[c] = 0
               /\ \A a \in Agreements : financing'[a].alloc[c] = 0
               /\ \A u \in Units : unit'[u].line = c => unit'[u].status = "available"
    BY DEF DraftsHoldNoStock, NotReceived, UnitsOf
  <2>2. c # trade.batch /\ NotReceived(c)
    BY <1>5, <1>6, <2>1 DEF NotReceived
  <2>3. /\ batch[c].remaining = 0 /\ batchMoves[c] = 0
        /\ \A o \in Sales : /\ sale[o].alloc[c] = 0
                            /\ replacement[o].alloc[c] = 0
        /\ \A a \in Agreements : financing[a].alloc[c] = 0
        /\ \A u \in UnitsOf(c) : unit[u].status = "available"
    BY <2>2 DEF DraftsHoldNoStock, NotReceived
  <2>4. have[c] = 0
    BY <2>3 DEF RestoredBatch
  <2>5. take[c] = 0 /\ \A u \in UnitsOf(c) : u \notin Picked(order)
    <3> HIDE DEF have, shelf
    <3> QED
      BY <1>1, <1>2, <2>4, NothingTakenFromEmpty
  <2>6. batch'[c].remaining = 0 /\ batchMoves'[c] = 0
    BY <1>5, <2>2, <2>3, <2>4, <2>5
  <2>7. ASSUME NEW u \in Units, unit'[u].line = c
        PROVE  unit'[u].status = "available"
    <3>1. CASE u = trade.unit
      BY <1>1, <3>1
    <3>2. CASE u # trade.unit
      <4>1. u \in UnitsOf(c)
        BY <1>7, <2>7, <3>2 DEF UnitsOf
      <4> QED
        BY <1>7, <2>3, <2>5, <3>2, <4>1 DEF RestoredUnit
    <3> QED
      BY <3>1, <3>2
  <2> QED
    BY <1>1, <1>4, <2>3, <2>5, <2>6, <2>7
<1>10. UnitsOnLines'
  <2>1. SUFFICES ASSUME NEW u \in Units
                 PROVE  unit'[u].status = "absent" <=> unit'[u].line = None
    BY DEF UnitsOnLines
  <2>2. CASE u = trade.unit
    BY <1>1, <1>3, <2>2, StockConstants
  <2>3. CASE u # trade.unit /\ u \in Picked(order)
    <3>1. unit[u].line \in Batches
      BY <1>8, <2>3 DEF Picked
    <3> QED
      BY <1>7, <2>3, <3>1, StockConstants
  <2>4. CASE u # trade.unit /\ u \notin Picked(order) /\ u \in Picked(sale[s])
    <3>1. unit[u].line \in Batches
      BY <2>4 DEF Picked, SaleUnitsAllocated
    <3>2. unit'[u].status = "available"
      BY <1>7, <2>4 DEF RestoredUnit
    <3> QED
      BY <1>7, <2>4, <3>1, <3>2, StockConstants
  <2>5. CASE u # trade.unit /\ u \notin Picked(order) /\ u \notin Picked(sale[s])
    BY <1>7, <2>5 DEF RestoredUnit, UnitsOnLines
  <2> QED
    BY <2>2, <2>3, <2>4, <2>5
<1>11. SaleUnitsAllocated'
  <2>1. SUFFICES ASSUME NEW o \in Sales, NEW p \in Products, sale'[o].unit[p] # None
                 PROVE  LET u == sale'[o].unit[p] IN
                        /\ unit'[u].line \in Batches
                        /\ batch'[unit'[u].line].product = p
                        /\ sale'[o].alloc[unit'[u].line] = 1
    BY DEF SaleUnitsAllocated
  <2> DEFINE u == sale'[o].unit[p]
             line == unit[u].line
  <2>2. /\ line \in Batches
        /\ batch[line].product = p
        /\ sale'[o].alloc[line] = 1
        /\ batch[line].status # "absent"
        /\ u \in Units
    <3>1. CASE o = s
      <4>1. u = order.unit[p] /\ u # None
        BY <1>4, <2>1, <3>1
      <4>2. line \in Batches /\ batch[line].product = p /\ have[line] >= 1
            /\ take[line] = 1
        BY <1>8, <4>1
      <4>3. batch[line].status # "absent"
        <5>1. CASE batch[line].status = "absent"
          <6>1. batch[line].remaining = 0 /\ sale[s].alloc[line] = 0
            BY <4>2, <5>1 DEF DraftsHoldNoStock
          <6>2. have[line] = batch[line].remaining + sale[s].alloc[line]
            BY <4>2 DEF RestoredBatch
          <6>3. have[line] = 0
            BY <6>1, <6>2
          <6> QED
            BY <4>2, <6>3
        <5> QED
          BY <5>1
      <4>4. u \in Units
        BY <4>1 DEF Orders
      <4> QED
        BY <1>4, <3>1, <4>2, <4>3, <4>4
    <3>2. CASE o # s
      <4>1. u = sale[o].unit[p] /\ sale'[o].alloc = sale[o].alloc
        BY <1>4, <3>2
      <4>2. line \in Batches /\ batch[line].product = p /\ sale[o].alloc[line] = 1
        BY <2>1, <4>1 DEF SaleUnitsAllocated
      <4>3. batch[line].status # "absent"
        BY <4>2 DEF DraftsHoldNoStock
      <4>4. u \in Units
        BY <2>1, <4>1 DEF TypeOK, SaleRow
      <4> QED
        BY <4>1, <4>2, <4>3, <4>4
    <3> QED
      BY <3>1, <3>2
  <2>3. u # trade.unit /\ line # trade.batch
    BY <1>3, <2>2, StockConstants
  <2>4. unit'[u].line = line
    BY <1>7, <2>2, <2>3
  <2>5. batch'[line].product = p
    BY <1>5, <2>2, <2>3
  <2> QED
    BY <2>2, <2>4, <2>5
<1> QED
  BY <1>9, <1>10, <1>11

LEMMA VoidSaleKeepsDrafts ==
    ASSUME DraftInv, NEW s \in Sales, VoidSale(s)
    PROVE  DraftsHoldNoStock' /\ UnitsOnLines' /\ SaleUnitsAllocated'
<1> USE DEF DraftInv
<1> DEFINE shelf == RestoredUnit(s)
<1>1. /\ UNCHANGED <<financing, replacement, batchMoves>>
      /\ sale' = [sale EXCEPT ![s].status = "voided"]
  BY DEF VoidSale
<1>2. \A o \in Sales : sale'[o].alloc = sale[o].alloc /\ sale'[o].unit = sale[o].unit
  <2>1. sale[s] \in SaleRow
    BY DEF TypeOK
  <2>2. sale'[s] = [sale[s] EXCEPT !.status = "voided"]
    BY <1>1 DEF TypeOK
  <2>3. \A o \in Sales \ {s} : sale'[o] = sale[o]
    BY <1>1 DEF TypeOK
  <2> QED
    BY <2>1, <2>2, <2>3 DEF SaleRow
<1>3. \A b \in Batches :
        /\ batch'[b].remaining = batch[b].remaining + sale[s].alloc[b]
        /\ batch'[b].product = batch[b].product
        /\ batch'[b].status = batch[b].status
  <2>1. SUFFICES ASSUME NEW b \in Batches
        PROVE  /\ batch'[b].remaining = batch[b].remaining + sale[s].alloc[b]
               /\ batch'[b].product = batch[b].product
               /\ batch'[b].status = batch[b].status
    OBVIOUS
  <2>2. batch'[b] = [batch[b] EXCEPT !.remaining = batch[b].remaining + sale[s].alloc[b]]
    BY DEF VoidSale, RestoredBatch
  <2>3. batch[b] \in BatchRow
    BY DEF TypeOK
  <2> QED
    BY <2>2, <2>3 DEF BatchRow
<1>4. \A u \in Units : unit'[u].line = unit[u].line /\ unit'[u].status = shelf[u]
  <2>1. \A u \in Units : unit[u] \in UnitRow
    BY DEF TypeOK
  <2>2. \A u \in Units : unit'[u] = [unit[u] EXCEPT !.status = shelf[u]]
    BY DEF VoidSale
  <2> HIDE DEF shelf
  <2> QED
    BY <2>1, <2>2 DEF UnitRow
<1>5. DraftsHoldNoStock'
  <2>1. SUFFICES ASSUME NEW c \in Batches, NotReceived(c)'
        PROVE  /\ batch'[c].remaining = 0 /\ batchMoves'[c] = 0
               /\ \A o \in Sales : /\ sale'[o].alloc[c] = 0
                                   /\ replacement'[o].alloc[c] = 0
               /\ \A a \in Agreements : financing'[a].alloc[c] = 0
               /\ \A u \in Units : unit'[u].line = c => unit'[u].status = "available"
    BY DEF DraftsHoldNoStock, NotReceived, UnitsOf
  <2>2. NotReceived(c)
    BY <1>3, <2>1 DEF NotReceived
  <2> QED
    BY <1>1, <1>2, <1>3, <1>4, <2>2
       DEF DraftsHoldNoStock, NotReceived, UnitsOf, RestoredUnit
<1>6. UnitsOnLines'
  <2>1. \A u \in Picked(sale[s]) : unit[u].line \in Batches
    BY DEF Picked, SaleUnitsAllocated
  <2> QED
    BY <1>4, <2>1, StockConstants DEF UnitsOnLines, RestoredUnit
<1>7. SaleUnitsAllocated'
  <2>1. SUFFICES ASSUME NEW o \in Sales, NEW p \in Products, sale[o].unit[p] # None
                 PROVE  LET u == sale[o].unit[p] IN
                        /\ unit'[u].line \in Batches
                        /\ batch'[unit'[u].line].product = p
                        /\ sale[o].alloc[unit'[u].line] = 1
    BY <1>2, SMTT(20) DEF SaleUnitsAllocated
  <2>2. sale[o].unit[p] \in Units
    BY <2>1 DEF TypeOK, SaleRow
  <2> QED
    BY <1>3, <1>4, <2>1, <2>2 DEF SaleUnitsAllocated
<1> QED
  BY <1>5, <1>6, <1>7

\* A return puts nothing back into a row the sale took nothing from.
LEMMA PutsBackWhereTaken ==
    ASSUME TypeOK, NEW s \in Sales, NEW back \in [Lines -> Quantities], NEW cond,
           NEW put \in [Batches -> Quantities], ReturnsLines(s, back, cond, put),
           NEW b \in Batches
    PROVE  put[b] \in Nat /\ put[b] <= sale[s].alloc[b]
<1>1. put[b] \in Nat /\ sale[s].alloc[b] \in Nat
  BY StockConstants DEF TypeOK, SaleRow, Quantities
<1>2. CASE batch[b].product = None
  BY <1>1, <1>2 DEF ReturnsLines
<1>3. CASE batch[b].product # None
  <2> DEFINE p == batch[b].product
  <2>1. p \in Products /\ b \in Lot(p)
    BY <1>3 DEF TypeOK, BatchRow, Lot
  <2>2. CASE Sellable(back, cond, p) > 0
    <3>1. PutsBack(s, p, back[p], put)
      BY <2>1, <2>2 DEF ReturnsLines
    <3>2. PICK part \in [Batches -> Quantities] :
            GivenBack(s, p, sale[s].returned[p] + back[p],
                      [c \in Batches |-> part[c] + put[c]])
      BY <3>1 DEF PutsBack
    <3>3. part[b] + put[b] <= sale[s].alloc[b]
      BY <2>1, <3>2 DEF GivenBack, TakesInOrder
    <3>4. part[b] \in Nat
      BY StockConstants DEF Quantities
    <3> QED
      BY <1>1, <3>3, <3>4
  <2>3. CASE ~(Sellable(back, cond, p) > 0)
    BY <1>1, <2>1, <2>3 DEF ReturnsLines
  <2> QED
    BY <2>2, <2>3
<1> QED
  BY <1>2, <1>3

LEMMA RecordReturnKeepsDrafts ==
    ASSUME DraftInv, NEW s \in Sales, RecordReturn(s)
    PROVE  DraftsHoldNoStock' /\ UnitsOnLines' /\ SaleUnitsAllocated'
<1> USE DEF DraftInv
<1>1. PICK back \in [Lines -> Quantities], cond \in [Lines -> Conditions],
           put \in [Batches -> Quantities], order \in Replacements,
           give \in [Batches -> Quantities] :
        ReturnsLines(s, back, cond, put) /\ Exchanges(s, back, cond, put, order, give)
  BY DEF RecordReturn
<1> DEFINE have == [b \in Batches |-> batch[b].remaining + put[b]]
           shelf == ReturnedShelf(s, back, cond)
<1>2. /\ Fills(order, have, shelf, give, {"individual"})
      /\ sale' = [sale EXCEPT ![s] = [@ EXCEPT
            !.returned = [i \in Lines |-> sale[s].returned[i] + back[i]],
            !.returns = TRUE]]
      /\ batch' = [b \in Batches |->
            [batch[b] EXCEPT !.remaining = have[b] - give[b]]]
      /\ unit' = [u \in Units |-> [unit[u] EXCEPT
            !.status = IF u \in Picked(order) THEN "sold" ELSE shelf[u]]]
      /\ replacement' = [replacement EXCEPT ![s] =
            [alloc |-> [b \in Batches |-> replacement[s].alloc[b] + give[b]],
             units |-> replacement[s].units \cup Picked(order)]]
      /\ UNCHANGED <<financing, batchMoves>>
  BY <1>1 DEF Exchanges
<1>3. order \in Orders
  BY DEF Replacements
<1>4. have \in [Batches -> Nat]
  BY StockConstants DEF TypeOK, BatchRow, Quantities
<1>5. \A o \in Sales : sale'[o].alloc = sale[o].alloc /\ sale'[o].unit = sale[o].unit
  <2> DEFINE returned == [i \in Lines |-> sale[s].returned[i] + back[i]]
  <2>1. sale[s] \in SaleRow
    BY DEF TypeOK
  <2>2. sale'[s] = [sale[s] EXCEPT !.returned = returned, !.returns = TRUE]
    BY <1>2 DEF TypeOK
  <2>3. \A o \in Sales \ {s} : sale'[o] = sale[o]
    BY <1>2 DEF TypeOK
  <2> HIDE DEF returned
  <2> QED
    BY <2>1, <2>2, <2>3 DEF SaleRow
<1>6. \A b \in Batches : /\ batch'[b].remaining = have[b] - give[b]
                         /\ batch'[b].product = batch[b].product
                         /\ batch'[b].status = batch[b].status
  <2>1. \A b \in Batches : batch[b] \in BatchRow
    BY DEF TypeOK
  <2>2. \A b \in Batches :
            batch'[b] = [batch[b] EXCEPT !.remaining = have[b] - give[b]]
    BY <1>2
  <2> HIDE DEF have
  <2> QED
    BY <2>1, <2>2 DEF BatchRow
<1>7. \A u \in Units :
        /\ unit'[u].line = unit[u].line
        /\ unit'[u].status = IF u \in Picked(order) THEN "sold" ELSE shelf[u]
  <2>1. \A u \in Units : unit[u] \in UnitRow
    BY DEF TypeOK
  <2>2. \A u \in Units : unit'[u] = [unit[u] EXCEPT
            !.status = IF u \in Picked(order) THEN "sold" ELSE shelf[u]]
    BY <1>2
  <2> HIDE DEF shelf
  <2> QED
    BY <2>1, <2>2 DEF UnitRow
<1>8. \A u \in Units : \/ shelf[u] = unit[u].status
                       \/ /\ u \in Picked(sale[s])
                          /\ shelf[u] \in {"available", "damaged"}
  BY StockConstants DEF ReturnedShelf, Picked
<1>9. DraftsHoldNoStock'
  <2>1. SUFFICES ASSUME NEW c \in Batches, NotReceived(c)'
        PROVE  /\ batch'[c].remaining = 0 /\ batchMoves'[c] = 0
               /\ \A o \in Sales : /\ sale'[o].alloc[c] = 0
                                   /\ replacement'[o].alloc[c] = 0
               /\ \A a \in Agreements : financing'[a].alloc[c] = 0
               /\ \A u \in Units : unit'[u].line = c => unit'[u].status = "available"
    BY DEF DraftsHoldNoStock, NotReceived, UnitsOf
  <2>2. NotReceived(c)
    BY <1>6, <2>1 DEF NotReceived
  <2>3. /\ batch[c].remaining = 0 /\ batchMoves[c] = 0
        /\ \A o \in Sales : /\ sale[o].alloc[c] = 0
                            /\ replacement[o].alloc[c] = 0
        /\ \A a \in Agreements : financing[a].alloc[c] = 0
        /\ \A u \in UnitsOf(c) : unit[u].status = "available"
    BY <2>2 DEF DraftsHoldNoStock, NotReceived
  <2>4. have[c] = 0
    BY <1>1, <2>3, PutsBackWhereTaken
  <2>5. give[c] = 0 /\ \A u \in UnitsOf(c) : u \notin Picked(order)
    <3> HIDE DEF have, shelf
    <3> QED
      BY <1>2, <1>3, <1>4, <2>4, NothingTakenFromEmpty
  <2>6. batch'[c].remaining = 0
    BY <1>6, <2>4, <2>5
  <2>7. \A o \in Sales : replacement'[o].alloc[c] = 0
    BY <1>2, <2>3, <2>5 DEF TypeOK
  <2>8. ASSUME NEW u \in Units, unit'[u].line = c
        PROVE  unit'[u].status = "available"
    <3>1. u \in UnitsOf(c)
      BY <1>7, <2>8 DEF UnitsOf
    <3>2. u \notin Picked(sale[s])
      BY <2>3, <3>1 DEF SaleUnitsAllocated, Picked, UnitsOf
    <3> QED
      BY <1>7, <1>8, <2>3, <2>5, <3>1, <3>2
  <2> QED
    BY <1>2, <1>5, <2>3, <2>6, <2>7, <2>8
<1>10. UnitsOnLines'
  <2>1. \A u \in Picked(sale[s]) : unit[u].line \in Batches
    BY DEF Picked, SaleUnitsAllocated
  <2>2. \A u \in Picked(order) : unit[u].line \in Batches
    BY <1>2, FillsPicks DEF Picked
  <2> HIDE DEF shelf
  <2> QED
    BY <1>7, <1>8, <2>1, <2>2, StockConstants DEF UnitsOnLines
<1>11. SaleUnitsAllocated'
  <2>1. SUFFICES ASSUME NEW o \in Sales, NEW p \in Products, sale[o].unit[p] # None
                 PROVE  LET u == sale[o].unit[p] IN
                        /\ unit'[u].line \in Batches
                        /\ batch'[unit'[u].line].product = p
                        /\ sale[o].alloc[unit'[u].line] = 1
    BY <1>5, SMTT(20) DEF SaleUnitsAllocated
  <2>2. sale[o].unit[p] \in Units
    BY <2>1 DEF TypeOK, SaleRow
  <2> QED
    BY <1>6, <1>7, <2>1, <2>2, SMTT(20) DEF SaleUnitsAllocated
<1> QED
  BY <1>9, <1>10, <1>11

LEMMA CreateFinancingKeepsDrafts ==
    ASSUME DraftInv, NEW a \in Agreements, CreateFinancing(a)
    PROVE  DraftsHoldNoStock' /\ UnitsOnLines' /\ SaleUnitsAllocated'
<1> USE DEF DraftInv
<1> DEFINE have == [b \in Batches |-> batch[b].remaining]
           shelf == [u \in Units |-> unit[u].status]
<1>1. PICK order \in Orders, take \in [Batches -> Quantities] :
        /\ Fills(order, have, shelf, take, {"quantity", "individual"})
        /\ financing' = [financing EXCEPT ![a] =
              [alloc |-> take, units |-> Picked(order)]]
        /\ batch' = [b \in Batches |->
              [batch[b] EXCEPT !.remaining = @ - take[b]]]
        /\ unit' = [u \in Units |->
              [unit[u] EXCEPT !.status = IF u \in Picked(order) THEN "sold" ELSE @]]
        /\ UNCHANGED <<sale, replacement, batchMoves>>
  BY DEF CreateFinancing, moves
<1>2. have \in [Batches -> Nat]
  BY DEF TypeOK, BatchRow
<1>3. \A b \in Batches : /\ batch'[b].remaining = batch[b].remaining - take[b]
                         /\ batch'[b].product = batch[b].product
                         /\ batch'[b].status = batch[b].status
  <2>1. \A b \in Batches : batch[b] \in BatchRow
    BY DEF TypeOK
  <2>2. \A b \in Batches :
            batch'[b] = [batch[b] EXCEPT !.remaining = batch[b].remaining - take[b]]
    BY <1>1
  <2> QED
    BY <2>1, <2>2 DEF BatchRow
<1>4. \A u \in Units :
        /\ unit'[u].line = unit[u].line
        /\ unit'[u].status = IF u \in Picked(order) THEN "sold" ELSE unit[u].status
  <2>1. \A u \in Units : unit[u] \in UnitRow
    BY DEF TypeOK
  <2> QED
    BY <1>1, <2>1 DEF UnitRow
<1>5. DraftsHoldNoStock'
  <2>1. SUFFICES ASSUME NEW c \in Batches, NotReceived(c)'
        PROVE  /\ batch'[c].remaining = 0 /\ batchMoves'[c] = 0
               /\ \A o \in Sales : /\ sale'[o].alloc[c] = 0
                                   /\ replacement'[o].alloc[c] = 0
               /\ \A g \in Agreements : financing'[g].alloc[c] = 0
               /\ \A u \in Units : unit'[u].line = c => unit'[u].status = "available"
    BY DEF DraftsHoldNoStock, NotReceived, UnitsOf
  <2>2. NotReceived(c)
    BY <1>3, <2>1 DEF NotReceived
  <2>3. /\ batch[c].remaining = 0 /\ batchMoves[c] = 0
        /\ \A o \in Sales : /\ sale[o].alloc[c] = 0
                            /\ replacement[o].alloc[c] = 0
        /\ \A g \in Agreements : financing[g].alloc[c] = 0
        /\ \A u \in UnitsOf(c) : unit[u].status = "available"
    BY <2>2 DEF DraftsHoldNoStock, NotReceived
  <2>4. have[c] = 0
    BY <2>3
  <2>5. take[c] = 0 /\ \A u \in UnitsOf(c) : u \notin Picked(order)
    <3> HIDE DEF have, shelf
    <3> QED
      BY <1>1, <1>2, <2>4, NothingTakenFromEmpty
  <2>6. \A g \in Agreements : financing'[g].alloc[c] = 0
    BY <1>1, <2>3, <2>5 DEF TypeOK
  <2>7. \A u \in Units : unit'[u].line = c => unit'[u].status = "available"
    BY <1>4, <2>3, <2>5 DEF UnitsOf
  <2> QED
    BY <1>1, <1>3, <2>3, <2>5, <2>6, <2>7
<1>6. UnitsOnLines'
  <2>1. \A u \in Picked(order) : unit[u].line \in Batches
    BY <1>1, FillsPicks DEF Picked
  <2> QED
    BY <1>4, <2>1, StockConstants DEF UnitsOnLines
<1>7. SaleUnitsAllocated'
  <2>1. \A o \in Sales, p \in Products :
            sale[o].unit[p] # None => sale[o].unit[p] \in Units
    BY DEF TypeOK, SaleRow
  <2>2. SUFFICES ASSUME NEW o \in Sales, NEW p \in Products, sale'[o].unit[p] # None
                 PROVE  LET u == sale'[o].unit[p] IN
                        /\ unit'[u].line \in Batches
                        /\ batch'[unit'[u].line].product = p
                        /\ sale'[o].alloc[unit'[u].line] = 1
    BY DEF SaleUnitsAllocated
  <2> DEFINE u == sale[o].unit[p]
             line == unit[u].line
  <2>3. sale' = sale /\ u # None /\ u \in Units
    BY <1>1, <2>1, <2>2
  <2>4. line \in Batches /\ batch[line].product = p /\ sale[o].alloc[line] = 1
    BY <2>3 DEF SaleUnitsAllocated
  <2>5. unit'[u].line = line /\ batch'[line].product = batch[line].product
    BY <1>3, <1>4, <2>3, <2>4
  <2> QED
    BY <2>3, <2>4, <2>5
<1> QED
  BY <1>5, <1>6, <1>7

LEMMA StepKeepsDrafts ==
    ASSUME DraftInv, [Next]_vars
    PROVE  DraftInv'
<1>0. TypeOK'
  BY StepTypes DEF DraftInv
<1> SUFFICES DraftsHoldNoStock' /\ UnitsOnLines' /\ SaleUnitsAllocated'
  BY <1>0 DEF DraftInv
<1> DEFINE Goal == DraftsHoldNoStock' /\ UnitsOnLines' /\ SaleUnitsAllocated'
<1>1. ASSUME NEW b \in Batches,
             \/ CreateReceipt(b) \/ ReceiveStock(b) \/ ReceiveDraft(b)
             \/ ArchiveDraft(b) \/ CloseWindow(b) \/ CorrectStock(b)
      PROVE  Goal
  BY <1>1, ReceivingKeepsDrafts
<1>2. ASSUME UNCHANGED <<batch, unit, sale, financing, replacement, batchMoves>>
      PROVE  Goal
  BY <1>2 DEF DraftInv, DraftsHoldNoStock, UnitsOnLines, SaleUnitsAllocated, UnitsOf
<1>3. ASSUME NEW p \in Products,
             AdjustStock(p) \/ \E active \in BOOLEAN : SetProductActive(p, active)
      PROVE  Goal
  BY <1>2, <1>3 DEF AdjustStock, SetProductActive, moves
<1>4. ASSUME NEW s \in Sales, RecordSale(s) \/ EditSale(s)
      PROVE  Goal
  <2>1. PICK order \in Orders, take \in [Batches -> Quantities],
             trade \in TradeIns : WriteSale(s, order, take, trade)
    BY <1>4 DEF RecordSale, EditSale
  <2> QED
    BY <2>1, WriteSaleKeepsDrafts
<1>5. ASSUME NEW s \in Sales, VoidSale(s)
      PROVE  Goal
  BY <1>5, VoidSaleKeepsDrafts
<1>6. ASSUME NEW s \in Sales, RecordReturn(s)
      PROVE  Goal
  BY <1>6, RecordReturnKeepsDrafts
<1>7. ASSUME NEW a \in Agreements, CreateFinancing(a)
      PROVE  Goal
  BY <1>7, CreateFinancingKeepsDrafts
<1>8. CASE UNCHANGED vars
  BY <1>2, <1>8 DEF vars, moves
<1> QED
  BY <1>1, <1>3, <1>4, <1>5, <1>6, <1>7, <1>8 DEF Next

(***************************************************************************)
(* Nothing is ever sold, financed, replaced or moved out of a draft.       *)
(***************************************************************************)
THEOREM DraftsNeverHoldStock == Spec => []DraftsHoldNoStock
<1>1. Init => DraftInv
  <2>1. SUFFICES ASSUME Init PROVE DraftInv
    OBVIOUS
  <2>2. /\ \A b \in Batches : /\ batch[b].remaining = 0 /\ batchMoves[b] = 0
                              /\ \A s \in Sales : /\ sale[s].alloc[b] = 0
                                                  /\ replacement[s].alloc[b] = 0
                              /\ \A a \in Agreements : financing[a].alloc[b] = 0
        /\ \A u \in Units : unit[u] = [line |-> None, status |-> "absent"]
        /\ \A s \in Sales, p \in Products : sale[s].unit[p] = None
    BY <2>1 DEF Init, Nothing
  <2>3. DraftsHoldNoStock
    BY <2>2, StockConstants DEF DraftsHoldNoStock, UnitsOf
  <2>4. UnitsOnLines /\ SaleUnitsAllocated
    BY <2>2 DEF UnitsOnLines, SaleUnitsAllocated
  <2> QED
    BY <2>1, <2>3, <2>4, InitTypes DEF DraftInv
<1>2. DraftInv /\ [Next]_vars => DraftInv'
  BY StepKeepsDrafts
<1>3. DraftInv => DraftsHoldNoStock
  BY DEF DraftInv
<1> QED
  BY <1>1, <1>2, <1>3, PTL DEF Spec
=============================================================================
