------------------------------ MODULE MCWorkOrders ------------------------------
(* A small instance of WorkOrders: two units of a product that takes two         *)
(* components, an odd labour cost, and two clients.                              *)
EXTENDS WorkOrders, TLC

(* One hour of each. *)
MCRate == ("labour" :> 1) @@ ("overhead" :> 1)
MCBookings == {[k \in {"labour", "overhead"} |-> 1]}

Symmetry == Permutations(Clients)
=============================================================================
