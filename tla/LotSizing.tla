------------------------------ MODULE LotSizing ------------------------------
(***************************************************************************)
(* The quantity of a planned order (services/mrp/lot_sizing.py) and of a   *)
(* component's requirement (bom_explosion.py).  Quantities are whole, in   *)
(* the smallest unit a quantity field holds.                               *)
(***************************************************************************)
EXTENDS Integers

(* The lot-sizing fields of ItemSitePlanning; 0 stands for "not set".  MIN_MAX
   and PERIOD_ORDER_QTY are treated as LOT_FOR_LOT. *)
LotRules == [method : {"LOT_FOR_LOT", "FIXED_QTY"}, fixed : Nat, moq : Nat, multiple : Nat,
             max : Nat]

(* to_integral_value(rounding=ROUND_CEILING) of n/d, for 0 < d. *)
CeilDiv(n, d) == (n + d - 1) \div d

(* Slip: rounds down to the multiple. *)
RoundDownToMultiple(qty, multiple) ==
  IF multiple > 0 THEN multiple * (qty \div multiple) ELSE qty

(* _round_up_to_multiple *)
RoundUpToMultiple(qty, multiple) ==
  IF multiple > 0 THEN multiple * CeilDiv(qty, multiple) ELSE qty

(* size_order before the cap: the method, then the minimum, then the multiple. *)
Uncapped(rules, net) ==
  LET lots == IF rules.method = "FIXED_QTY" THEN RoundUpToMultiple(net, rules.fixed) ELSE net
  IN  RoundUpToMultiple(IF lots < rules.moq THEN rules.moq ELSE lots, rules.multiple)

Capped(rules, net) == rules.max > 0 /\ Uncapped(rules, net) > rules.max

(* size_order: the quantity ordered for a net requirement. *)
SizeOrder(rules, net) == IF Capped(rules, net) THEN rules.max ELSE Uncapped(rules, net)

(* component_required_qty: what parentQty of the parent takes of one BOM line,
   rounded up.  A scrap of 100 % or more is ignored. *)
RequiredQty(line, output, parentQty) ==
  LET per  == IF output > 0 THEN output ELSE 1
      good == IF line.scrap < 100 THEN 100 - line.scrap ELSE 100
  IN  CeilDiv((parentQty * line.qty + line.fixed * per) * 100, per * good)
=============================================================================
