---------------------------- MODULE MCBackOffice ----------------------------
(* A small instance of BackOffice, for every desk: one requisition, one access      *)
(* request and one expense, below the threshold; two people, three roles and two     *)
(* permissions; two channel orders for a kit and its parts; two places to replenish; *)
(* three companies; two tenants with three sites; one mailed report; three lines of  *)
(* a statement and three records; two count sheets; two forecast versions.           *)
EXTENDS BackOffice

Symmetry == Permutations(Clients) \cup Permutations(Versions)

CONSTANTS e1, clerk, buyer, o1, o2, bolt, nut, kit, each, box, depot, shop, A, B, a1, a2, b1, la, p1, p2, x1

MCVat == (e1 :> 1)
MCPeriod == [e \in Expenses |-> CHOOSE p \in Periods : TRUE]
MCBaseline ==
  [r \in Roles |-> IF r = Admin THEN Permissions
                 ELSE IF r = clerk THEN {CHOOSE p \in Permissions : TRUE} ELSE {}]

(* A kit of a bolt and two nuts; half-packed boxes of bolts by the bolt's own rule, of
   anything else by the tenant's, which nobody made for kits sold in pairs. *)
MCBom == (kit :> <<[part |-> bolt, qty |-> 1], [part |-> nut, qty |-> 2]>>)
MCBaseUom == (kit :> each) @@ (bolt :> each) @@ (nut :> box)
MCConversions ==
  {[item |-> bolt, from |-> each, to |-> box, num |-> 1, den |-> 3],
   [item |-> AnyItem, from |-> box, to |-> each, num |-> 2, den |-> 1]}
MCLines ==
  (o1 :> <<[item |-> kit, qty |-> 1, uom |-> each], [item |-> bolt, qty |-> 1, uom |-> box]>>) @@
  (o2 :> <<[item |-> nut, qty |-> 1, uom |-> each], [item |-> kit, qty |-> 1, uom |-> box]>>)
MCUnitCost == (bolt :> 5) @@ (nut :> 2)
MCShelf == (bolt :> 2) @@ (nut :> 4)

(* The depot orders by the pack, the shop one at a time, and has stock for it. *)
MCSiteAt == [l \in Places |-> l]
MCProductPolicy == [reorder |-> 0, max |-> 2, qty |-> 0, moq |-> 1, pack |-> 2]
MCOverrides == (shop :> [reorder |-> 1, max |-> 1, qty |-> 0, moq |-> 0, pack |-> 0])
MCSupply == (depot :> 0) @@ (shop :> 1)

(* Two companies, the first with two sites. *)
MCOrgOf == (a1 :> A) @@ (a2 :> A) @@ (b1 :> B) @@ (la :> A)
MCHome == (la :> a1)
MCPreferred == [ms \in (SUBSET Tenants) \ {{}} |-> IF A \in ms THEN A ELSE B]

(* A day of two ticks, weeks of two days, months of three or of two. *)
MCCadences == {[freq |-> "DAILY", day |-> 0, at |-> 1], [freq |-> "WEEKLY", day |-> 1, at |-> 0],
               [freq |-> "MONTHLY", day |-> 2, at |-> 1]}

(* Two payments of one amount. *)
MCSignedAmount == (p1 :> 1) @@ (p2 :> 1) @@ (x1 :> 2)
=============================================================================
