---------------------------- MODULE Replenishment ----------------------------
(***************************************************************************)
(* Reordering one product from the replenishment board and from the        *)
(* low-stock list (services/replenishment.py, the replenishment_* and      *)
(* low_stock* endpoints of views.py), and what becomes of the requisitions *)
(* until the goods arrive.                                                 *)
(*                                                                         *)
(* A requisition names no location, and the order made of it neither; the  *)
(* goods of such an order go to FirstLocation.  Approvals are the steps of *)
(* Approvals and Procurement: here a requisition is open until it is an    *)
(* order, and an order is a draft until it is approved.  Customer orders   *)
(* hold stock and ship it; one that is cancelled gives back stock the plan *)
(* has replaced already, and is left out.                                  *)
(***************************************************************************)
EXTENDS Requests, FiniteSetsExt, Functions

CONSTANTS
  Places,         \* the locations that hold stock
  Nowhere,        \* PurchaseOrder.receiving_location left blank
  SiteAt,         \* places -> site
  FirstLocation,  \* of the tenant: _po_destination of a blank one
  Overrides,      \* some places -> their ReplenishmentPolicy
  ProductPolicy,  \* the product's own
  ReorderLevel,   \* Product.reorder_level
  Supply,         \* places -> stock on hand to begin with
  Slots,          \* bound: the orders there may be
  MaxHeld         \* bound: what customer orders hold at once

Policies == [reorder : Nat, max : Nat, qty : Nat, moq : Nat, pack : Nat]

ASSUME PolicyAssumption ==
  /\ IsFiniteSet(Places) /\ IsFiniteSet(Slots) /\ Supply \in [Places -> Nat]
  /\ MaxHeld \in Nat /\ FirstLocation \in Places /\ Nowhere \notin Places
  /\ ProductPolicy \in Policies /\ ReorderLevel \in Nat
  /\ \A l \in DOMAIN Overrides : Overrides[l] \in Policies

VARIABLES
  stock,   \* places -> on hand, reserved, and dispatched to it but not received
  order,   \* Slots -> the requisition, later the purchase order
  lapse    \* history: something was ordered that the plan could not see or did not ask for

replenishment == <<stock, order, lapse>>

NoOrder == [status |-> "NONE", for |-> Nowhere, at |-> Nowhere, left |-> 0]
Done == [NoOrder EXCEPT !.status = "DONE"]

InitReplenishment ==
  /\ stock = [l \in Places |-> [onhand |-> Supply[l], reserved |-> 0, transit |-> 0]]
  /\ order = [i \in Slots |-> NoOrder]
  /\ lapse = FALSE

-----------------------------------------------------------------------------
(* resolve_policy: the override of the place as a whole, else the product's policy, and
   the product's reorder level where it says nothing. *)
Policy(l) ==
  LET p == IF l \in DOMAIN Overrides THEN Overrides[l] ELSE ProductPolicy
  IN  [p EXCEPT !.reorder = IF @ = 0 THEN ReorderLevel ELSE @]

(* _site_single_location: where the goods of a blank order are inferred to go.  Its
   site is the default one, FirstLocation's. *)
Inferred ==
  LET here == {l \in Places : SiteAt[l] = SiteAt[FirstLocation]}
  IN  IF Cardinality(here) = 1 THEN here ELSE {}

(* Slip: an order of which some has come is no longer on its way. *)
OpenStatusesBefore == {"OPEN"}

(* OPEN_PO_STATUSES: approved, sent or in transit, and partially received. *)
OpenStatuses == {"OPEN", "PARTIAL"}

(* _open_po_map. *)
Shows(i, l) ==
  order[i].status \in OpenStatuses /\ l \in (IF order[i].at = Nowhere THEN Inferred ELSE {order[i].at})
OpenPo(l) == SumFunction([i \in Slots |-> IF Shows(i, l) THEN order[i].left ELSE 0])

Projected(l) == stock[l].onhand + OpenPo(l) + stock[l].transit - stock[l].reserved

(* _round_order_qty: the minimum, in whole packs. *)
RoundOrderQty(need, moq, pack) ==
  LET q == Max({need, moq})
  IN  IF pack = 0 THEN q ELSE ((q + pack - 1) \div pack) * pack

(* _suggested_purchase. *)
Suggested(l) ==
  LET p    == Policy(l)
      need == IF p.max > 0 THEN p.max - Projected(l)
              ELSE IF p.qty > 0 THEN p.qty ELSE p.reorder - Projected(l)
  IN  IF p.reorder = 0 \/ Projected(l) >= p.reorder \/ need <= 0 THEN 0
      ELSE RoundOrderQty(need, p.moq, p.pack)

(* The transfer the plan proposes instead: from the place with the most to spare. *)
Excess(l) == IF Policy(l).max > 0 THEN stock[l].onhand - Policy(l).max ELSE 0
SpareFor(l) == {k \in Places \ {l} : Excess(k) > 0 /\ \A m \in Places \ {l} : Excess(m) <= Excess(k)}

(* open_requisition_product_ids has the product. *)
OnRequisition == \E i \in Slots : order[i].status = "REQ"

(* What is on its way and the plan does not show, or shows elsewhere. *)
Unseen ==
  \E i \in Slots :
    \/ order[i].status \in {"REQ", "DRAFT"}
    \/ order[i].status \in {"OPEN", "PARTIAL"} /\ order[i].at = Nowhere
         /\ ~(Inferred = {FirstLocation} /\ order[i].for \in {FirstLocation, Nowhere})

Free == {i \in Slots : order[i].status = "NONE" /\ \A k \in Slots : order[k].status = "NONE" => i <= k}

Request(for, qty) ==
  \E i \in Free : order' = [order EXCEPT ![i] =
    [status |-> "REQ", for |-> for, at |-> Nowhere, left |-> qty]]

-----------------------------------------------------------------------------
(* replenishment_plan is shown with its suggestions ... *)
ShowPlan(c) ==
  /\ req[c] = Idle /\ \E l \in Places : Suggested(l) > 0
  /\ req' = [req EXCEPT ![c] = [op |-> "plan", ask |-> [l \in Places |-> Suggested(l)]]]
  /\ Start
  /\ UNCHANGED replenishment

(* ... and lines of it are posted: replenishment_reorder skips a product that is on an
   open requisition, and takes the first line of a product only. *)
PostReorder(c, l) ==
  /\ req[c] # Idle /\ req[c].op = "plan" /\ req[c].ask[l] > 0
  /\ req' = [req EXCEPT ![c] = IF OnRequisition THEN Idle
                               ELSE [op |-> "reorder", for |-> l, qty |-> req[c].ask[l]]]
  /\ UNCHANGED <<stock, order, lapse, overlaps>>

(* The requisition is written. *)
WriteReorder(c) ==
  /\ req[c] # Idle /\ req[c].op = "reorder"
  /\ Request(req[c].for, req[c].qty)
  /\ lapse' = (lapse \/ Unseen \/ req[c].for # FirstLocation \/ req[c].qty > Suggested(req[c].for))
  /\ req' = [req EXCEPT ![c] = Idle]
  /\ UNCHANGED <<stock, overlaps>>

(* low_stock: the list shows what is on hand anywhere short of the product's own level,
   whatever is on order ... *)
Shortfall == ReorderLevel - SumFunction([l \in Places |-> stock[l].onhand])

ShowLowStock(c) ==
  /\ req[c] = Idle /\ Shortfall > 0
  /\ req' = [req EXCEPT ![c] = [op |-> "low", qty |-> Shortfall]]
  /\ Start
  /\ UNCHANGED replenishment

(* ... and low_stock_reorder asks for the quantity of the form, however old it is. *)
LowStockReorder(c) ==
  /\ req[c] # Idle /\ req[c].op = "low"
  /\ Request(Nowhere, req[c].qty)
  /\ lapse' = \/ lapse \/ req[c].qty > Shortfall
              \/ \E i \in Slots : order[i].status \notin {"NONE", "DONE"}
              \/ \E l \in Places : stock[l].transit > 0 \/ stock[l].onhand < 0
  /\ req' = [req EXCEPT ![c] = Idle]
  /\ UNCHANGED <<stock, overlaps>>

(* The buyer orders what the plan suggests with po_create, for the working site. *)
OrderDirect(l) ==
  /\ Suggested(l) > 0
  /\ \E i \in Free : order' = [order EXCEPT ![i] =
       [status |-> "DRAFT", for |-> l, at |-> l, left |-> Suggested(l)]]
  /\ lapse' = (lapse \/ Unseen)
  /\ Start
  /\ UNCHANGED <<stock, req>>

-----------------------------------------------------------------------------
(* requisition_reject, requisition_cancel, and po_cancel of an order, which keeps what
   has come. *)
Withdraw(i) ==
  /\ order[i].status \in {"REQ", "DRAFT", "OPEN", "PARTIAL"}
  /\ order' = [order EXCEPT ![i] = Done]
  /\ UNCHANGED <<stock, lapse, req, overlaps>>

(* requisition_convert: a draft without a location. *)
Convert(i) ==
  /\ order[i].status = "REQ"
  /\ order' = [order EXCEPT ![i].status = "DRAFT"]
  /\ UNCHANGED <<stock, lapse, req, overlaps>>

ApproveOrder(i) ==
  /\ order[i].status = "DRAFT"
  /\ order' = [order EXCEPT ![i].status = "OPEN"]
  /\ UNCHANGED <<stock, lapse, req, overlaps>>

(* po_amend: the new version is a draft, and has no receiving location. *)
AmendOrder(i) ==
  /\ order[i].status \in {"OPEN", "PARTIAL"}
  /\ order' = [order EXCEPT ![i].status = "DRAFT", ![i].at = Nowhere]
  /\ lapse' = (lapse \/ order[i].at \notin {Nowhere, FirstLocation})
  /\ UNCHANGED <<stock, req, overlaps>>

Destination(i) == IF order[i].at = Nowhere THEN FirstLocation ELSE order[i].at

(* receive_po: all that is left, or one of it. *)
ReceiveGoods(i) ==
  /\ order[i].status \in {"OPEN", "PARTIAL"} /\ order[i].left > 0
  /\ \E n \in {1, order[i].left} :
       /\ stock' = [stock EXCEPT ![Destination(i)].onhand = @ + n]
       /\ order' = [order EXCEPT ![i] = IF n = order[i].left THEN Done
                      ELSE [order[i] EXCEPT !.left = order[i].left - n, !.status = "PARTIAL"]]
  /\ UNCHANGED <<lapse, req, overlaps>>

(* The proposed transfer is dispatched and received; nothing looks at what is ordered. *)
DispatchSpare(l) ==
  /\ Suggested(l) > 0
  /\ \E k \in SpareFor(l) :
       LET n == Min({Suggested(l), Excess(k)})
       IN  stock' = [stock EXCEPT ![k].onhand = @ - n, ![l].transit = @ + n]
  /\ lapse' = (lapse \/ Unseen)
  /\ UNCHANGED <<order, req, overlaps>>

ReceiveSpare(l) ==
  /\ stock[l].transit > 0
  /\ stock' = [stock EXCEPT ![l].onhand = @ + stock[l].transit, ![l].transit = 0]
  /\ UNCHANGED <<order, lapse, req, overlaps>>

(* A customer order holds one, and one that is held ships. *)
Sell(l) ==
  /\ stock[l].onhand > stock[l].reserved /\ stock[l].reserved < MaxHeld
  /\ stock' = [stock EXCEPT ![l].reserved = @ + 1]
  /\ UNCHANGED <<order, lapse, req, overlaps>>
Ship(l) ==
  /\ stock[l].reserved > 0
  /\ stock' = [stock EXCEPT ![l].onhand = @ - 1, ![l].reserved = @ - 1]
  /\ UNCHANGED <<order, lapse, req, overlaps>>

-----------------------------------------------------------------------------
Coming(l) == SumFunction([i \in Slots |-> IF Destination(i) = l THEN order[i].left ELSE 0])

Position(l) == stock[l].onhand - stock[l].reserved + stock[l].transit + Coming(l)

(* What a place may reach: the target of its policy, or the minimum order on top of one
   less than the reorder point, and part of a pack. *)
Ceiling(l) ==
  LET p == Policy(l)
  IN  Max({Supply[l], p.max, p.reorder - 1 + Max({p.qty, p.moq, 1}), p.reorder, ReorderLevel})
      + IF p.pack = 0 THEN 0 ELSE p.pack - 1

(* Replenishment does not pile up stock: as long as nothing was ordered from a page gone
   stale, for another place than the goods will go to, while the plan could not see what
   was on its way, or from the low-stock list over such goods or an overdrawn place, what a
   place has and is getting stays within what its policy aims at, however requests race and
   orders are withdrawn, amended and received in parts. *)
NotOverordered == ~lapse => \A l \in Places : Position(l) <= Ceiling(l)
=============================================================================
