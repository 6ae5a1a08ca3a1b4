---------------------------- MODULE StockLedger ----------------------------
(***************************************************************************)
(* The stock of one business: what every committed commerce operation of   *)
(* backend/apps/commerce does to products, stock batches, tracked units,   *)
(* sales, returns, replacements and financing agreements.                  *)
(*                                                                         *)
(* One action is one database transaction of a service function, taken as  *)
(* a single step; what the statements of two transactions do to each other *)
(* is outside this module.                                                 *)
(***************************************************************************)
EXTENDS Integers, FiniteSets, Functions

CONSTANTS
    Products,     \* catalog items (SKUs) of the business
    Mode,         \* Product.tracking_mode, fixed once the product has batches
    Batches,      \* ids of StockBatch rows, ordered by created_at
    Units,        \* TrackedUnit rows
    Sales,        \* Sale rows
    Agreements,   \* FinancingAgreement rows
    Times,        \* the received_at values users enter
    MaxQuantity,  \* bound: the largest quantity one line names
    MaxLoose,     \* bound: net quantity of the manual adjustments of a product
    Manuals,      \* the independent (manual) lines a sale may have
    TradedIn,     \* bound: the batches a trade-in may create
    Spares,       \* bound: the products offered as replacements
    None          \* a NULL foreign key

\* The rows of a table are finitely many.
ASSUME StockConstants ==
    /\ Mode \in [Products -> {"quantity", "individual"}]
    /\ Batches \subseteq Nat
    /\ IsFiniteSet(Batches) /\ IsFiniteSet(Units)
    /\ IsFiniteSet(Sales) /\ IsFiniteSet(Agreements)
    /\ Times \subseteq Nat
    /\ MaxQuantity \in Nat \ {0}
    /\ MaxLoose \in Nat
    /\ Manuals \cap Products = {}
    /\ TradedIn \subseteq Batches
    /\ Spares \subseteq Products
    /\ None \notin Products \cup Batches \cup Units

VARIABLES
    product,      \* Product: current_quantity and is_active
    batch,        \* StockBatch joined with its StockReceipt
    unit,         \* TrackedUnit: stock_line and status
    sale,         \* Sale with its SaleItem and SaleAllocation rows
    financing,    \* FinancingAgreement with its items and allocations
    replacement,  \* ReturnReplacement rows from stock, per sale
    batchMoves,   \* per batch, sum of its RECEIPT and CORRECTION movements
    looseMoves,   \* per product, sum of its movements without a batch
    saleMoves,    \* per sale and batch, quantity of its SALE movements
    returnMoves   \* per sale and batch, quantity of its RETURN movements

moves == <<batchMoves, looseMoves, saleMoves, returnMoves>>
vars == <<product, batch, unit, sale, financing, replacement, moves>>

-----------------------------------------------------------------------------
(* Rows *)

Quantities == 0 .. MaxQuantity
Lines == Products \cup Manuals
Conditions == {"sellable", "damaged"}
Nothing == [b \in Batches |-> 0]

ProductRow == [qty : Nat, active : BOOLEAN]

\* window: the 48 hours after created_at in which received stock is correctable.
BatchRow == [status : {"absent", "draft", "received", "archived"},
             product : Products \cup {None}, received : Nat, remaining : Nat,
             at : Nat, window : BOOLEAN]

UnitRow == [line : Batches \cup {None},
            status : {"absent", "available", "sold", "damaged"}]

\* A sale lists a product at most once, so an allocation is keyed by its batch.
SaleRow == [status : {"none", "active", "voided"},
            quantity : [Lines -> Quantities], returned : [Lines -> Quantities],
            unit : [Products -> Units \cup {None}],
            alloc : [Batches -> Quantities],
            tradedIn : BOOLEAN, returns : BOOLEAN]

IssueRow == [alloc : [Batches -> Nat], units : SUBSET Units]

TypeOK ==
    /\ product \in [Products -> ProductRow]
    /\ batch \in [Batches -> BatchRow]
    /\ unit \in [Units -> UnitRow]
    /\ sale \in [Sales -> SaleRow]
    /\ financing \in [Agreements -> IssueRow]
    /\ replacement \in [Sales -> IssueRow]
    /\ batchMoves \in [Batches -> Int]
    /\ looseMoves \in [Products -> Int]
    /\ saleMoves \in [Sales -> [Batches -> Quantities]]
    /\ returnMoves \in [Sales -> [Batches -> Nat]]

Init ==
    /\ product = [p \in Products |-> [qty |-> 0, active |-> TRUE]]
    /\ batch = [b \in Batches |->
          [status |-> "absent", product |-> None, received |-> 0,
           remaining |-> 0, at |-> 0, window |-> FALSE]]
    /\ unit = [u \in Units |-> [line |-> None, status |-> "absent"]]
    /\ sale = [s \in Sales |->
          [status |-> "none", quantity |-> [i \in Lines |-> 0],
           returned |-> [i \in Lines |-> 0], unit |-> [p \in Products |-> None],
           alloc |-> Nothing, tradedIn |-> FALSE, returns |-> FALSE]]
    /\ financing = [a \in Agreements |-> [alloc |-> Nothing, units |-> {}]]
    /\ replacement = [s \in Sales |-> [alloc |-> Nothing, units |-> {}]]
    /\ batchMoves = Nothing
    /\ looseMoves = [p \in Products |-> 0]
    /\ saleMoves = [s \in Sales |-> Nothing]
    /\ returnMoves = [s \in Sales |-> Nothing]

-----------------------------------------------------------------------------
(* Queries *)

Sum(f, S) == SumFunctionOnSet(f, S)
Lot(p) == {b \in Batches : batch[b].product = p}
UnitsOf(b) == {u \in Units : unit[u].line = b}
Picked(row) == {row.unit[p] : p \in Products} \ {None}
\* Fault: earlier returns of the line are not deducted.
UnreturnedOnce(s, i) == sale[s].quantity[i]
Unreturned(s, i) == sale[s].quantity[i] - sale[s].returned[i]

\* Ids are handed out in order, as created_at timestamps are.
FreshBatch(b) ==
    /\ batch[b].status = "absent"
    /\ \A o \in Batches : o < b => batch[o].status # "absent"
FreshUnits == {u \in Units : unit[u].status = "absent"}

\* order_by("received_at", "created_at"), and the reverse: the batches that come
\* before each one.
OldestFirst == [b \in Batches |->
                  {o \in Batches : \/ batch[o].at < batch[b].at
                                   \/ batch[o].at = batch[b].at /\ o < b}]
NewestFirst == [b \in Batches |-> {o \in Batches : b \in OldestFirst[o]}]

\* Fault: a loop that stops without checking that nothing is left to take.
TakesSome(lot, have, n, take, before) ==
    /\ Sum(take, lot) <= n
    /\ \A b \in lot : take[b] <= have[b]

\* Fault: a loop that takes all it wants from one batch.
TakesBlindly(lot, have, n, take, before) ==
    /\ Sum(take, lot) = n
    /\ \A b, o \in lot : take[b] > 0 /\ o \in before[b] => take[o] = have[o]

\* What a loop over lot, in the order of before, that takes min(wanted, have) from each
\* batch until n are taken leaves in take.
TakesInOrder(lot, have, n, take, before) ==
    /\ Sum(take, lot) = n
    /\ \A b \in lot :
          /\ take[b] <= have[b]
          /\ take[b] > 0 => \A o \in lot : o \in before[b] => take[o] = have[o]

\* Fault: the status of the unit is not checked.
AllocatesAnyUnit(p, u, have, shelf, take) ==
    /\ unit[u].line \in Lot(p)
    /\ have[unit[u].line] >= 1
    /\ \A b \in Lot(p) : take[b] = IF b = unit[u].line THEN 1 ELSE 0

AllocatesUnit(p, u, have, shelf, take) ==
    /\ shelf[u] = "available"
    /\ unit[u].line \in Lot(p)
    /\ have[unit[u].line] >= 1
    /\ \A b \in Lot(p) : take[b] = IF b = unit[u].line THEN 1 ELSE 0

\* What a sale, an agreement or a replacement asks for.
Orders == [quantity : [Lines -> Quantities],
           unit : [Products -> Units \cup {None}]]
EmptyOrder == [quantity |-> [i \in Lines |-> 0],
               unit |-> [p \in Products |-> None]]

\* take is what the item loop allocates for order, when have is left in the
\* batches and shelf are the unit statuses; unitModes are the tracking modes of
\* the stock lines a picked unit may belong to.
Fills(order, have, shelf, take, unitModes) ==
    /\ \A b \in Batches : batch[b].product = None => take[b] = 0
    /\ \A p \in Products :
          \/ /\ order.quantity[p] = 0 /\ order.unit[p] = None
             /\ \A b \in Lot(p) : take[b] = 0
          \/ /\ product[p].active
             /\ order.quantity[p] > 0 /\ order.unit[p] = None
             /\ Mode[p] = "quantity"
             /\ TakesInOrder(Lot(p), have, order.quantity[p], take, OldestFirst)
          \/ /\ product[p].active
             /\ order.quantity[p] = 1 /\ order.unit[p] # None
             /\ Mode[p] \in unitModes
             /\ AllocatesUnit(p, order.unit[p], have, shelf, take)

Asks(order) == \E i \in Lines : order.quantity[i] > 0

-----------------------------------------------------------------------------
(* Receiving stock *)

\* Fault: a draft line is counted as stock at once.
NewStockedLine(p, n, status, at, window) ==
    [status |-> status, product |-> p, received |-> n, remaining |-> n,
     at |-> at, window |-> window]

NewLine(p, n, status, at, window) ==
    [status |-> status, product |-> p, received |-> n,
     remaining |-> IF status = "received" THEN n ELSE 0,
     at |-> at, window |-> window]

Shelve(us, b) ==
    [u \in Units |-> IF u \in us THEN [line |-> b, status |-> "available"]
                     ELSE unit[u]]

\* create_stock_receipt and create_stock_receipt_v2, with one line.
CreateReceipt(b) ==
    \E p \in Products, n \in 1 .. MaxQuantity, t \in Times,
       status \in {"draft", "received"}, us \in SUBSET FreshUnits :
        /\ FreshBatch(b)
        /\ product[p].active
        /\ Mode[p] = "individual" =>
              /\ Cardinality(us) <= n
              /\ status = "received" => Cardinality(us) = n
        /\ batch' = [batch EXCEPT ![b] = NewLine(p, n, status, t, TRUE)]
        /\ unit' = Shelve(us, b)
        /\ IF status = "received"
           THEN /\ product' = [product EXCEPT ![p].qty = @ + n]
                /\ batchMoves' = [batchMoves EXCEPT ![b] = n]
           ELSE UNCHANGED <<product, batchMoves>>
        /\ UNCHANGED <<sale, financing, replacement, looseMoves, saleMoves,
                       returnMoves>>

\* receive_stock: a batch without a receipt.  Its tracking mode is the default,
\* quantity, and enforce_sku_tracking_mode refuses it for an individual product.
ReceiveStock(b) ==
    \E p \in Products, n \in 1 .. MaxQuantity, t \in Times :
        /\ FreshBatch(b)
        /\ product[p].active /\ Mode[p] = "quantity"
        /\ batch' = [batch EXCEPT ![b] = NewLine(p, n, "received", t, FALSE)]
        /\ product' = [product EXCEPT ![p].qty = @ + n]
        /\ batchMoves' = [batchMoves EXCEPT ![b] = n]
        /\ UNCHANGED <<unit, sale, financing, replacement, looseMoves, saleMoves,
                       returnMoves>>

\* receive_draft_stock does not ask whether the product is still active.
ReceiveDraft(b) ==
    LET p == batch[b].product
        n == batch[b].received
    IN \E t \in Times :
        /\ batch[b].status = "draft"
        /\ Mode[p] = "individual" => Cardinality(UnitsOf(b)) = n
        /\ batch' = [batch EXCEPT ![b] =
              [@ EXCEPT !.status = "received", !.remaining = n, !.at = t]]
        /\ product' = [product EXCEPT ![p].qty = @ + n]
        /\ batchMoves' = [batchMoves EXCEPT ![b] = @ + n]
        /\ UNCHANGED <<unit, sale, financing, replacement, looseMoves, saleMoves,
                       returnMoves>>

ArchiveDraft(b) ==
    /\ batch[b].status = "draft"
    /\ batch' = [batch EXCEPT ![b].status = "archived"]
    /\ UNCHANGED <<product, unit, sale, financing, replacement, moves>>

\* Environment: 48 hours have passed since the receipt was created.
CloseWindow(b) ==
    /\ batch[b].window
    /\ batch' = [batch EXCEPT ![b].window = FALSE]
    /\ UNCHANGED <<product, unit, sale, financing, replacement, moves>>

Editable(b) ==
    \/ batch[b].status = "draft"
    \/ batch[b].status = "received" /\ batch[b].window

\* consumed in correct_stock_structure: what the new quantity may not go below.
CorrectionFloor(b) ==
    IF batch[b].received > batch[b].remaining
    THEN batch[b].received - batch[b].remaining ELSE 0

\* The quantity of one line of correct_stock_structure.
CorrectStock(b) ==
    \E n \in 1 .. MaxQuantity :
        LET p == batch[b].product
            delta == n - batch[b].received
        IN
        /\ Editable(b)
        /\ Mode[p] = "individual" => Cardinality(UnitsOf(b)) = n
        /\ n >= CorrectionFloor(b)
        /\ IF batch[b].status = "received"
           THEN /\ batch[b].remaining + delta >= 0
                /\ product[p].qty + delta >= 0
                /\ batch' = [batch EXCEPT ![b] =
                      [@ EXCEPT !.received = n,
                                !.remaining = batch[b].remaining + delta]]
                /\ product' = [product EXCEPT ![p].qty = @ + delta]
                /\ batchMoves' = [batchMoves EXCEPT ![b] = @ + delta]
           ELSE /\ batch' = [batch EXCEPT ![b] =
                      [@ EXCEPT !.received = n, !.remaining = 0]]
                /\ UNCHANGED <<product, batchMoves>>
        /\ UNCHANGED <<unit, sale, financing, replacement, looseMoves, saleMoves,
                       returnMoves>>

\* adjust_stock: +quantity for a counting correction, -quantity for a loss.
AdjustStock(p) ==
    \E delta \in (-MaxQuantity .. MaxQuantity) \ {0} :
        /\ product[p].qty + delta >= 0
        /\ looseMoves[p] + delta \in -MaxLoose .. MaxLoose
        /\ product' = [product EXCEPT ![p].qty = @ + delta]
        /\ looseMoves' = [looseMoves EXCEPT ![p] = @ + delta]
        /\ UNCHANGED <<batch, unit, sale, financing, replacement, batchMoves,
                       saleMoves, returnMoves>>

\* set_catalog_product_active
SetProductActive(p, active) ==
    /\ ~active => product[p].qty = 0
    /\ product' = [product EXCEPT ![p].active = active]
    /\ UNCHANGED <<batch, unit, sale, financing, replacement, moves>>

-----------------------------------------------------------------------------
(* Sales *)

\* Fault: the allocations are deleted without giving the stock back.
ForgottenBatch(s) == [b \in Batches |-> batch[b].remaining]
ForgottenProduct(s) == [p \in Products |-> product[p].qty]

\* What stands in the rows once _restore_sale_inventory has run for s; for a
\* sale that is being created it restores nothing.  The allocations of a line sum
\* to its quantity, see AllocationsMatchLines.
RestoredBatch(s) == [b \in Batches |-> batch[b].remaining + sale[s].alloc[b]]
RestoredProduct(s) == [p \in Products |-> product[p].qty + sale[s].quantity[p]]
RestoredUnit(s) ==
    [u \in Units |-> IF u \in Picked(sale[s]) THEN "available"
                     ELSE unit[u].status]

\* add_to_stock of a trade-in: one piece in a received receipt, tracked by unit
\* when the customer's item has an identifier.
NoTradeIn == [batch |-> None, product |-> None, unit |-> None, at |-> 0]
TradeIns ==
    {NoTradeIn} \cup
    {t \in [batch : {b \in TradedIn : FreshBatch(b)}, product : Products,
            unit : FreshUnits \cup {None}, at : Times] :
        /\ product[t.product].active
        /\ (t.unit # None) <=> (Mode[t.product] = "individual")}

\* _record_items and _record_trade_in, after the lines of s were taken back.
WriteSale(s, order, take, trade) ==
    LET have == RestoredBatch(s)
        shelf == RestoredUnit(s)
        stock == RestoredProduct(s)
    IN
    /\ Asks(order)
    /\ Fills(order, have, shelf, take, {"individual"})
    /\ \A p \in Products : stock[p] >= order.quantity[p]
    /\ sale' = [sale EXCEPT ![s] =
          [status |-> "active", quantity |-> order.quantity,
           returned |-> [i \in Lines |-> 0], unit |-> order.unit,
           alloc |-> take, tradedIn |-> trade # NoTradeIn, returns |-> FALSE]]
    /\ batch' = [b \in Batches |->
          IF b = trade.batch
          THEN NewLine(trade.product, 1, "received", trade.at, TRUE)
          ELSE [batch[b] EXCEPT !.remaining = have[b] - take[b]]]
    /\ product' = [p \in Products |->
          [product[p] EXCEPT !.qty = stock[p] - order.quantity[p]
                                     + (IF p = trade.product THEN 1 ELSE 0)]]
    /\ unit' = [u \in Units |->
          IF u = trade.unit THEN [line |-> trade.batch, status |-> "available"]
          ELSE [line |-> unit[u].line,
                status |-> IF u \in Picked(order) THEN "sold" ELSE shelf[u]]]
    /\ batchMoves' = [b \in Batches |->
          IF b = trade.batch THEN 1 ELSE batchMoves[b]]
    /\ saleMoves' = [saleMoves EXCEPT ![s] = take]
    /\ UNCHANGED <<financing, replacement, looseMoves, returnMoves>>

RecordSale(s) ==
    /\ sale[s].status = "none"
    /\ \E order \in Orders, take \in [Batches -> Quantities], trade \in TradeIns :
          WriteSale(s, order, take, trade)

\* Fault: a recorded return does not stand in the way.
AmendableAfterReturn(s) == sale[s].status = "active" /\ ~sale[s].tradedIn

\* The guards edit_sale and void_sale share.
Amendable(s) ==
    /\ sale[s].status = "active"
    /\ ~sale[s].returns
    /\ ~sale[s].tradedIn

EditSale(s) ==
    /\ Amendable(s)
    /\ \E order \in Orders, take \in [Batches -> Quantities], trade \in TradeIns :
          WriteSale(s, order, take, trade)

\* void_sale keeps the items and the allocations of the sale, and deletes its
\* movements.
VoidSale(s) ==
    /\ Amendable(s)
    /\ sale' = [sale EXCEPT ![s].status = "voided"]
    /\ batch' = [b \in Batches |->
                   [batch[b] EXCEPT !.remaining = RestoredBatch(s)[b]]]
    /\ product' = [p \in Products |->
                     [product[p] EXCEPT !.qty = RestoredProduct(s)[p]]]
    /\ unit' = [u \in Units |->
                  [unit[u] EXCEPT !.status = RestoredUnit(s)[u]]]
    /\ saleMoves' = [saleMoves EXCEPT ![s] = Nothing]
    /\ UNCHANGED <<financing, replacement, batchMoves, looseMoves, returnMoves>>

-----------------------------------------------------------------------------
(* Returns *)

\* The first n pieces of product p that sale s gives back, newest batch first.
GivenBack(s, p, n, part) ==
    TakesInOrder(Lot(p), sale[s].alloc, n, part, NewestFirst)

\* Fault: every return starts at the newest batch again.
PutsBackFromNewest(s, p, n, put) == GivenBack(s, p, n, put)

\* The batches gain put when n sellable pieces follow those returned before,
\* the damaged ones included.
PutsBack(s, p, n, put) ==
    \E part \in [Batches -> Quantities] :
        /\ GivenBack(s, p, sale[s].returned[p], part)
        /\ GivenBack(s, p, sale[s].returned[p] + n,
                     [b \in Batches |-> part[b] + put[b]])

Sellable(back, cond, i) == IF cond[i] = "sellable" THEN back[i] ELSE 0

\* The sale is found by id and business alone: its status is not looked at.
Returnable(s) == sale[s].status # "none"

\* The checks of both record_return functions on the returned lines.
ReturnsLines(s, back, cond, put) ==
    /\ Returnable(s)
    /\ \E i \in Lines : back[i] > 0
    /\ \A i \in Lines : back[i] <= Unreturned(s, i)
    /\ \A m \in Manuals : back[m] > 0 => cond[m] = "damaged"
    /\ \A p \in Products :
          back[p] > 0 /\ sale[s].unit[p] # None => back[p] = Unreturned(s, p)
    /\ \A b \in Batches : batch[b].product = None => put[b] = 0
    /\ \A p \in Products :
          IF Sellable(back, cond, p) > 0 THEN PutsBack(s, p, back[p], put)
          ELSE \A b \in Lot(p) : put[b] = 0

\* Fault: a damaged unit goes back on the shelf.
ReturnedToShelf(s, back, cond) ==
    [u \in Units |-> IF \E p \in Products : sale[s].unit[p] = u /\ back[p] > 0
                     THEN "available" ELSE unit[u].status]

ReturnedShelf(s, back, cond) ==
    [u \in Units |->
        IF \E p \in Products : sale[s].unit[p] = u /\ back[p] > 0
        THEN IF \E p \in Products :
                   sale[s].unit[p] = u /\ Sellable(back, cond, p) > 0
             THEN "available" ELSE "damaged"
        ELSE unit[u].status]

\* At most one product replaces the returned items; EmptyOrder is a refund, a
\* credit or an independent replacement.
Replacements ==
    {order \in Orders :
        /\ \A i \in Lines : order.quantity[i] > 0 => i \in Spares
        /\ \A p, q \in Products :
              order.quantity[p] > 0 /\ order.quantity[q] > 0 => p = q}

\* The rows record_return writes: the returned lines, their stock, and the
\* replacement given for them, which leaves no inventory movement.
Exchanges(s, back, cond, put, order, give) ==
    LET have == [b \in Batches |-> batch[b].remaining + put[b]]
        shelf == ReturnedShelf(s, back, cond)
        stock == [p \in Products |-> product[p].qty + Sellable(back, cond, p)]
        returned == [i \in Lines |-> sale[s].returned[i] + back[i]]
    IN
    /\ Fills(order, have, shelf, give, {"individual"})
    /\ \A p \in Products : stock[p] >= order.quantity[p]
    /\ sale' = [sale EXCEPT ![s] =
          [@ EXCEPT !.returned = returned, !.returns = TRUE]]
    /\ batch' = [b \in Batches |->
          [batch[b] EXCEPT !.remaining = have[b] - give[b]]]
    /\ product' = [p \in Products |->
          [product[p] EXCEPT !.qty = stock[p] - order.quantity[p]]]
    /\ unit' = [u \in Units |->
          [unit[u] EXCEPT
             !.status = IF u \in Picked(order) THEN "sold" ELSE shelf[u]]]
    /\ replacement' = [replacement EXCEPT ![s] =
          [alloc |-> [b \in Batches |-> replacement[s].alloc[b] + give[b]],
           units |-> replacement[s].units \cup Picked(order)]]
    /\ returnMoves' = [returnMoves EXCEPT ![s] =
          [b \in Batches |-> returnMoves[s][b] + put[b]]]
    /\ UNCHANGED <<financing, batchMoves, looseMoves, saleMoves>>

\* record_return
RecordReturn(s) ==
    \E back \in [Lines -> Quantities], cond \in [Lines -> Conditions],
       put \in [Batches -> Quantities] :
        /\ ReturnsLines(s, back, cond, put)
        /\ \E order \in Replacements, give \in [Batches -> Quantities] :
              Exchanges(s, back, cond, put, order, give)

-----------------------------------------------------------------------------
(* Financing *)

\* create_financing_agreement with stock items.  A picked unit may belong to a
\* line of either tracking mode; no inventory movement is recorded.
CreateFinancing(a) ==
    \E order \in Orders, take \in [Batches -> Quantities] :
        /\ financing[a] = [alloc |-> Nothing, units |-> {}]
        /\ \A m \in Manuals : order.quantity[m] = 0
        /\ Asks(order)
        /\ Fills(order, [b \in Batches |-> batch[b].remaining],
                 [u \in Units |-> unit[u].status], take,
                 {"quantity", "individual"})
        /\ \A p \in Products : product[p].qty >= order.quantity[p]
        /\ financing' = [financing EXCEPT ![a] =
              [alloc |-> take, units |-> Picked(order)]]
        /\ batch' = [b \in Batches |->
              [batch[b] EXCEPT !.remaining = @ - take[b]]]
        /\ product' = [p \in Products |->
              [product[p] EXCEPT !.qty = @ - order.quantity[p]]]
        /\ unit' = [u \in Units |->
              [unit[u] EXCEPT !.status = IF u \in Picked(order) THEN "sold" ELSE @]]
        /\ UNCHANGED <<sale, replacement, moves>>

-----------------------------------------------------------------------------

Next ==
    \/ \E b \in Batches :
          \/ CreateReceipt(b) \/ ReceiveStock(b) \/ ReceiveDraft(b)
          \/ ArchiveDraft(b) \/ CloseWindow(b) \/ CorrectStock(b)
    \/ \E p \in Products :
          AdjustStock(p) \/ \E active \in BOOLEAN : SetProductActive(p, active)
    \/ \E s \in Sales :
          RecordSale(s) \/ EditSale(s) \/ VoidSale(s) \/ RecordReturn(s)
    \/ \E a \in Agreements : CreateFinancing(a)

Spec == Init /\ [][Next]_vars

-----------------------------------------------------------------------------
(* Properties *)

\* What has left batch b for good: allocations of live sales, less what their
\* returns put back, financed and replacement pieces.
Live(s) == IF sale[s].status = "active" THEN 1 ELSE 0
Issued(b) ==
    Sum([s \in Sales |-> Live(s) * sale[s].alloc[b] - returnMoves[s][b]
                         + replacement[s].alloc[b]], Sales)
    + Sum([a \in Agreements |-> financing[a].alloc[b]], Agreements)

\* The quantity shown for a product is the sum of its inventory movements less
\* what financing and replacements took, which record none: no operation, and no
\* order of sales, edits, voids and returns, loses or invents a piece.
ProductLedger ==
    \A p \in Products :
        product[p].qty =
            looseMoves[p]
            + Sum([b \in Batches |-> batchMoves[b]
                    - Sum([s \in Sales |-> saleMoves[s][b] - returnMoves[s][b]
                                           + replacement[s].alloc[b]], Sales)
                    - Sum([a \in Agreements |-> financing[a].alloc[b]], Agreements)],
                  Lot(p))

\* What remains of a batch is what was received less what left it: the stored
\* remainder never drifts from the allocations it is derived from.
BatchLedger ==
    \A b \in Batches :
        batch[b].status = "received" =>
            batch[b].remaining = batch[b].received - Issued(b)

\* Every recorded line is allocated in full; a sale never goes through on a part
\* of the stock it needs (_allocate_fifo refuses when something remains).
AllocationsMatchLines ==
    \A s \in Sales, p \in Products :
        Sum(sale[s].alloc, Lot(p)) = sale[s].quantity[p]

\* However many returns a sale gets, of whatever condition, no line gives back
\* more than it sold, and no source batch more than the sale took from it.
ReturnsStayWithinTheSale ==
    \A s \in Sales :
        /\ \A i \in Lines : sale[s].returned[i] <= sale[s].quantity[i]
        /\ \A b \in Batches : returnMoves[s][b] <= sale[s].alloc[b]

\* Drafts and archived drafts hold no stock: nothing is sold, financed or moved
\* out of them, and their units stay untouched.
DraftsHoldNoStock ==
    \A b \in Batches :
        batch[b].status \in {"absent", "draft", "archived"} =>
            /\ batch[b].remaining = 0 /\ batchMoves[b] = 0
            /\ \A s \in Sales : sale[s].alloc[b] = 0 /\ replacement[s].alloc[b] = 0
            /\ \A a \in Agreements : financing[a].alloc[b] = 0
            /\ \A u \in UnitsOf(b) : unit[u].status = "available"

\* No return was recorded against a voided sale.  The interface offers active
\* sales only, the service does not refuse the others.
NoReturnOnVoided ==
    \A s \in Sales : sale[s].status = "voided" => ~sale[s].returns

\* Who was given unit u and has not brought it back.
Holders(u) ==
    {<<"sale", s>> : s \in {r \in Sales :
        /\ sale[r].status = "active"
        /\ \E p \in Products : sale[r].unit[p] = u /\ sale[r].returned[p] = 0}}
    \cup {<<"financing", a>> : a \in {c \in Agreements : u \in financing[c].units}}
    \cup {<<"replacement", s>> : s \in {r \in Sales : u \in replacement[r].units}}

\* An individually tracked item is with one customer at most, and is marked sold
\* exactly while somebody has it.
UnitHasOneHolder ==
    NoReturnOnVoided =>
        \A u \in Units :
            /\ unit[u].status = "sold" <=> Holders(u) # {}
            /\ \A g, h \in Holders(u) : g = h

\* The remainder of an individually tracked line counts its available units: the
\* two ways the code counts serialised stock never disagree.
IndividualStockCounted ==
    NoReturnOnVoided =>
        \A b \in Batches :
            batch[b].status = "received" /\ Mode[batch[b].product] = "individual"
            => batch[b].remaining =
                 Cardinality({u \in UnitsOf(b) : unit[u].status = "available"})

\* No sequence of sales, corrections, edits, voids and returns fills a batch
\* beyond what was received into it.
BatchNeverOverfull ==
    NoReturnOnVoided =>
        \A b \in Batches : batch[b].remaining <= batch[b].received

\* A voided sale is archived for good: nothing makes it active again or rewrites
\* its lines or allocations.
VoidedSaleIsFinal ==
    [][\A s \in Sales : sale[s].status = "voided" =>
          /\ sale'[s].status = "voided"
          /\ sale'[s].quantity = sale[s].quantity
          /\ sale'[s].alloc = sale[s].alloc]_vars

\* Once a return is linked to a sale its lines, allocations and SALE movements
\* are never rewritten, so the return keeps pointing at what was sold.
ReturnedSaleIsFrozen ==
    [][\A s \in Sales : sale[s].returns =>
          /\ sale'[s] = [sale[s] EXCEPT !.returned = sale'[s].returned]
          /\ saleMoves'[s] = saleMoves[s]]_vars

\* "Sellable quantities return to their source batches" and "voiding restores its
\* FIFO allocations" (commerce-module.md:12,24): stock comes back once.
StockComesBackOnce ==
    \A b \in Batches : batch[b].remaining <= batch[b].received
=============================================================================
