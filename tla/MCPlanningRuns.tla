---------------------------- MODULE MCPlanningRuns ----------------------------
(* Two needs, both bought from one supplier: a requisition takes them together, and  *)
(* a purchase order each by itself, as a work order does.                            *)
EXTENDS PlanningRuns, TLC

Bought == {[n \in Needs |-> "BUY"]}
OneSupplier == [n \in Needs |-> "supplier"]
Symmetry == Permutations(Clients) \cup Permutations(Needs)
=============================================================================
