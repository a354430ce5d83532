----------------------------- MODULE MCReceivables -----------------------------
(* A small instance of Receivables: two invoices, one of them of goods, that    *)
(* compete for one receipt and for the credit limit.                            *)
EXTENDS Receivables, TLC

Symmetry == Permutations(Clients) \cup Permutations(Payments) \cup Permutations(Notes)
=============================================================================
