----------------------------- MODULE MCProcurement -----------------------------
(* A small instance of Procurement: an order and its amendment, each with a     *)
(* shipment, two receipts and two bills.                                        *)
EXTENDS Procurement, TLC

Symmetry == Permutations(Clients) \cup Permutations(Shipments) \cup Permutations(Receipts)
              \cup Permutations(Bills)
=============================================================================
