--------------------------- MODULE MCCustomerOrders ---------------------------
(* A small instance of CustomerOrders: two locations with little stock, so that *)
(* two orders compete for it.  It counts the requests that overlap.             *)
EXTENDS CustomerOrders

CONSTANTS
  main, shop,
  MaxOverlaps   \* bound: requests that start while another is under way

VARIABLE overlaps   \* history: requests that started while another was under way

Stock == [l \in Locations |-> IF l = main THEN 2 ELSE 1]

Symmetry == Permutations(Orders) \cup Permutations(Clients)

UnderWay == {c \in Clients : req[c] # Idle}
Overlapping == UnderWay # {} /\ \E c \in Clients : req[c] = Idle /\ req'[c] # Idle

MCInit == Init /\ overlaps = 0

MCNext ==
  /\ Next
  /\ overlaps' = overlaps + IF Overlapping THEN 1 ELSE 0
  /\ overlaps' <= MaxOverlaps

MCSpec == MCInit /\ [][MCNext]_<<vars, overlaps>>

(* One request at a time, an order holds exactly its lines while it is confirmed:
   confirming, editing, invoicing, cancelling and deleting keep it so, whatever came
   before.  Only an order converted from a quote starts confirmed without a hold
   (quote_to_order). *)
HoldsFollowOrder ==
  [][overlaps' = 0 =>
       \A o \in Orders : order[o].status # "NONE" /\ HoldsItsLines(o) => HoldsItsLines(o)']_vars
=============================================================================
