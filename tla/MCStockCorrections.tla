--------------------------- MODULE MCStockCorrections ---------------------------
(* A small instance of StockCorrections: a cycle count and a stock take of one  *)
(* product, an adjustment that waits for approval and two returns.              *)
EXTENDS StockCorrections, TLC

Symmetry == Permutations(Clients) \cup Permutations(Returns) \cup Permutations(Adjustments)
=============================================================================
