--------------------------- MODULE MCStockLedger ---------------------------
(* Small instances of StockLedger for TLC. *)
EXTENDS StockLedger, TLC

CONSTANTS shoe, phone, u1, u2, s1, s2, a1, manual

QuantityMode == [p \in {shoe} |-> "quantity"]
IndividualMode == [p \in {phone} |-> "individual"]

Symmetry == Permutations({u1, u2}) \cup Permutations({s1, s2})
=============================================================================
