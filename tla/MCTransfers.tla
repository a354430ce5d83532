----------------------------- MODULE MCTransfers -----------------------------
(* Small instances of Transfers.  Which product uses which costing method is  *)
(* part of the instance; locations and transfers may be permuted.             *)
EXTENDS Transfers

CONSTANTS p1, p2

AverageAndFifo == [p \in Products |-> IF p = p1 THEN "AVERAGE" ELSE "FIFO"]
Standard233 == [p \in Products |-> 233]

Symmetry == Permutations(Locations) \cup Permutations(Transfers)
=============================================================================
