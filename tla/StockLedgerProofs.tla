-------------------------- MODULE StockLedgerProofs --------------------------
(***************************************************************************)
(* What holds of StockLedger for every set of locations, lots, bins,       *)
(* quantities and costs, and for any number of movements.                  *)
(*                                                                         *)
(* A movement changes the balances exactly as Rebalance does               *)
(* (ValuationProofs), and is only taken when Accepts allows the balances   *)
(* it leads to: NeverOverdrawn and SerialsAreUnits are inductive once the  *)
(* balances are known to be integers (IInv).  Costed adds the costs and    *)
(* the layers, which an issue draws down by a loop whose invariant is      *)
(* proved step by step (ConsumeDraws).  From it follow what the layers     *)
(* cover (LayersMatchStock) and, with the slack each movement's rounding   *)
(* adds, that the ledger tracks the stock's value (Priced).                *)
(***************************************************************************)
EXTENDS MCStockLedger, ValuationProofs

-----------------------------------------------------------------------------
(* The inductive invariant: NeverOverdrawn and SerialsAreUnits are inductive
   once the balances are known to be integers. *)
IInv == Balanced(stock) /\ NeverOverdrawn /\ SerialsAreUnits

(* A new product has no stock. *)
LEMMA InitIInv == Init => IInv
<1> SUFFICES ASSUME Init PROVE IInv OBVIOUS
<1>1. PICK m \in Methods0, std \in StandardCosts : stock = NoStock(m, std) BY DEF Init
<1>2. Balanced(stock) BY <1>1 DEF Balanced, Fields, NoStock
<1>3. /\ \A l \in Locations : stock.onhand[l] = 0
      /\ \A l \in Locations, k \in Lots : stock.lots[l][k] = 0
      /\ \A l \in Locations, b \in Bins : stock.bins[l][b] = 0
  BY <1>1 DEF NoStock
<1>4. QED BY <1>2, <1>3 DEF IInv, NeverOverdrawn, SerialsAreUnits

(* An accepted movement keeps what the balances must satisfy. *)
LEMMA AcceptedKeepsIInv ==
  ASSUME IInv, NEW loc \in Locations, NEW lot \in LotsOf, NEW bin \in BinsOf,
         NEW delta \in Int \ {0}, Accepts(stock, loc, lot, bin, delta),
         SameBalances(stock', Rebalance(stock, loc, lot, bin, delta))
  PROVE  IInv'
<1> DEFINE moved == Rebalance(stock, loc, lot, bin, delta)
<1>1. /\ Balanced(moved)
      /\ \A l \in Locations : moved.onhand[l] =
           IF l = loc THEN stock.onhand[l] + delta ELSE stock.onhand[l]
      /\ \A l \in Locations, k \in Lots : moved.lots[l][k] =
           IF l = loc /\ k = lot THEN stock.lots[l][k] + delta ELSE stock.lots[l][k]
      /\ \A l \in Locations, b \in Bins : moved.bins[l][b] =
           IF l = loc /\ b = bin THEN stock.bins[l][b] + delta ELSE stock.bins[l][b]
  BY RebalanceMoves DEF IInv
<1> HIDE DEF moved
<1>2. stock'.onhand = moved.onhand /\ stock'.lots = moved.lots /\ stock'.bins = moved.bins
      /\ DOMAIN stock' = Fields
  BY DEF SameBalances, moved
<1>3. Balanced(stock)' BY <1>1, <1>2 DEF Balanced
<1>4. /\ stock.onhand \in [Locations -> Int]
      /\ stock.lots \in [Locations -> [Lots -> Int]]
      /\ stock.bins \in [Locations -> [Bins -> Int]]
  BY DEF IInv, Balanced
<1>5. NeverOverdrawn'
  <2> SUFFICES ASSUME BlockNegative, NEW l \in Locations
               PROVE  /\ moved.onhand[l] >= 0
                      /\ \A k \in Lots : moved.lots[l][k] >= 0
                      /\ \A b \in Bins : moved.bins[l][b] >= 0
    BY <1>2 DEF NeverOverdrawn
  <2>1. moved.onhand[l] >= 0
    <3>1. stock.onhand[l] \in Int /\ stock.onhand[l] >= 0 BY <1>4 DEF IInv, NeverOverdrawn
    <3>2. l = loc /\ delta < 0 => stock.onhand[l] + delta >= 0 BY DEF Accepts, BalancesAllow
    <3>3. moved.onhand[l] = IF l = loc THEN stock.onhand[l] + delta ELSE stock.onhand[l]
      BY <1>1
    <3>4. QED BY <3>1, <3>2, <3>3
  <2>2. ASSUME NEW k \in Lots PROVE moved.lots[l][k] >= 0
    BY <1>1, <1>4, LotAssumption DEF IInv, NeverOverdrawn, Accepts, BalancesAllow
  <2>3. ASSUME NEW b \in Bins PROVE moved.bins[l][b] >= 0
    BY <1>1, <1>4, LotAssumption DEF IInv, NeverOverdrawn, Accepts, BalancesAllow
  <2>4. QED BY <2>1, <2>2, <2>3
<1>6. SerialsAreUnits'
  <2> SUFFICES ASSUME TrackSerial, NEW l \in Locations, NEW k \in Lots
               PROVE  moved.lots[l][k] \in {0, 1}
    BY <1>2 DEF SerialsAreUnits
  <2>1. stock.lots[l][k] \in {0, 1} BY DEF IInv, SerialsAreUnits
  <2>2. CASE l = loc /\ k = lot
    <3>1. /\ delta > 0 => stock.lots[l][k] + delta <= 1
          /\ delta < 0 => stock.lots[l][k] + delta >= 0
      BY <2>2 DEF Accepts, SerialAllows
    <3>2. stock.lots[l][k] + delta \in {0, 1} BY <2>1, <3>1
    <3>3. QED BY <1>1, <2>2, <3>2
  <2>3. CASE ~(l = loc /\ k = lot) BY <1>1, <2>1, <2>3
  <2>4. QED BY <2>2, <2>3
<1>7. QED BY <1>3, <1>5, <1>6 DEF IInv

(* Every step keeps the invariant: movements are accepted ones, and saving the
   product form moves no stock. *)
LEMMA NextIInv == IInv /\ [Next]_vars => IInv'
<1> SUFFICES ASSUME IInv, [Next]_vars PROVE IInv' OBVIOUS
<1>1. ASSUME NEW loc \in Locations, NEW lot \in LotsOf, NEW bin \in BinsOf,
             NEW qty \in Quantities, NEW cost \in UnitCosts \cup {NoCost},
             Receive(loc, lot, bin, qty, cost)
      PROVE  IInv'
  <2>1. qty \in Int \ {0} BY QuantityAssumption
  <2>2. SameBalances(stock', Rebalance(stock, loc, lot, bin, qty))
    BY <1>1, <2>1, InboundBalances DEF Receive, IInv
  <2>3. QED BY <1>1, <2>1, <2>2, AcceptedKeepsIInv DEF Receive
<1>2. ASSUME NEW loc \in Locations, NEW lot \in LotsOf, NEW bin \in BinsOf,
             NEW qty \in Quantities, Issue(loc, lot, bin, qty)
      PROVE  IInv'
  <2>1. qty \in Int /\ -qty \in Int \ {0} BY QuantityAssumption
  <2>2. SameBalances(stock', Rebalance(stock, loc, lot, bin, -qty))
    BY <1>2, <2>1, OutboundBalances DEF Issue, IInv
  <2>3. QED BY <1>2, <2>1, <2>2, AcceptedKeepsIInv DEF Issue
<1>3. ASSUME NEW method, NEW std, SaveEdit(method, std) PROVE IInv'
  <2>1. SameBalances(stock', stock)
    BY <1>3 DEF SaveEdit, IInv, Balanced, SameBalances, Fields
  <2>2. QED BY <2>1 DEF SameBalances, IInv, Balanced, NeverOverdrawn, SerialsAreUnits
<1>4. CASE OpenEdit
  BY <1>4 DEF OpenEdit, IInv, Balanced, NeverOverdrawn, SerialsAreUnits
<1>5. CASE UNCHANGED vars
  BY <1>5 DEF vars, IInv, Balanced, NeverOverdrawn, SerialsAreUnits
<1>6. QED BY <1>1, <1>2, <1>3, <1>4, <1>5 DEF Next

(* IInv holds in every state. *)
LEMMA Invariance == Spec => []IInv
<1>1. QED BY InitIInv, NextIInv, PTL DEF Spec

(* Under block_negative_stock no location, lot or bin balance is ever below
   zero, for every mixture of movements and however many there are. *)
THEOREM StrictStockNeverOverdrawn == Spec => []NeverOverdrawn
<1>1. IInv => NeverOverdrawn BY DEF IInv
<1>2. QED BY Invariance, <1>1, PTL

(* The serial guard alone, whatever the tenant's stock policy, keeps a serial
   in a location at most once. *)
THEOREM SerialsStayUnits == Spec => []SerialsAreUnits
<1>1. IInv => SerialsAreUnits BY DEF IInv
<1>2. QED BY Invariance, <1>1, PTL

(* The balances of every level stay integers per location, lot and bin. *)
LEMMA QuantitiesStayTyped == Spec => []QuantitiesTyped
<1>1. IInv => QuantitiesTyped BY DEF IInv, Balanced, QuantitiesTyped
<1>2. QED BY Invariance, <1>1, PTL

-----------------------------------------------------------------------------
(* Costs are amounts, a layer holds a part of what it received, and one that has given
   some is the oldest of its lot: inductive together, since a movement only takes from
   the oldest layer that can give. *)
Costed ==
  /\ stock.method \in Methods /\ stock.std \in Nat
  /\ stock.avg \in Int /\ stock.value \in Int
  /\ LayersTyped(stock.layers) /\ OldestFirst(stock.layers)
  /\ moves \in 0 .. MaxMoves + 1 /\ short \in Nat
  /\ edit # NoEdit => edit.avg \in Int /\ moves <= MaxMoves

(* A new product has no layer and nothing booked. *)
LEMMA InitCosted == Init => Costed
<1> SUFFICES ASSUME Init PROVE Costed
  OBVIOUS
<1>1. PICK m \in Methods0, std \in StandardCosts : stock = NoStock(m, std)
  BY DEF Init
<1>2. stock.method = m /\ stock.std = std /\ stock.avg = 0 /\ stock.value = 0 /\ stock.layers = <<>>
  BY <1>1 DEF NoStock
<1>3. <<>> \in Seq(Layer) /\ Len(<<>>) = 0
  OBVIOUS
<1> QED BY <1>2, <1>3, MethodAssumption, CostAssumption, BoundAssumption
    DEF Init, Costed, LayersTyped, OldestFirst

(* What a receipt does to the costs and layers. *)
LEMMA ReceiptCosted ==
  ASSUME IInv, Costed, NEW loc \in Locations, NEW lot \in LotsOf, NEW bin \in BinsOf,
         NEW qty \in Quantities, NEW cost \in UnitCosts \cup {NoCost},
         Receive(loc, lot, bin, qty, cost)
  PROVE  /\ Costed' /\ stock'.method = stock.method /\ stock'.std = stock.std
         /\ TotalOnHand(stock)' = TotalOnHand(stock) + qty
         /\ \A l \in Locations : stock'.onhand[l] =
              IF l = loc THEN stock.onhand[l] + qty ELSE stock.onhand[l]
         /\ moves' = moves + 1 /\ short' = short /\ edit' = edit
<1>1. qty \in Nat \ {0} /\ (cost # NoCost => cost \in Nat)
  BY QuantityAssumption, CostAssumption
<1>2. Balanced(stock) /\ DOMAIN stock = Fields
  BY DEF IInv, Balanced
<1> DEFINE in == Inbound(stock, loc, lot, bin, qty, cost)
<1>3. stock' = in.stock /\ moves < MaxMoves /\ moves' = moves + 1 /\ short' = short /\ edit' = edit
  BY DEF Receive
<1>4. SameBalances(in.stock, Rebalance(stock, loc, lot, bin, qty))
  BY <1>1, <1>2, InboundBalances
<1>5. /\ \A l \in Locations : in.stock.onhand[l] =
           IF l = loc THEN stock.onhand[l] + qty ELSE stock.onhand[l]
      /\ TotalOnHand(in.stock) = TotalOnHand(stock) + qty
  BY <1>1, <1>2, <1>4, RebalanceTotal
<1>6. TotalOnHand(stock) \in Int
  BY <1>2, TotalTyped
<1>7. /\ in.stock.method = stock.method /\ in.stock.std = stock.std
      /\ in.stock.value = stock.value + in.value
      /\ stock.method = "STANDARD" =>
           in.stock.avg = stock.std /\ in.value = HalfUp(qty * stock.std, Scale)
      /\ stock.method # "STANDARD" =>
           /\ in.stock.avg = IF cost = NoCost THEN stock.avg ELSE MovingAverage(stock, qty, cost)
           /\ in.value = HalfUp(qty * (IF cost = NoCost THEN stock.avg ELSE cost), Scale)
  BY <1>2, InboundCosting
<1> DEFINE paid == IF cost = NoCost THEN stock.avg ELSE cost
           layer == [loc |-> loc, lot |-> lot, got |-> qty, left |-> qty, cost |-> paid]
<1>8. in.stock.layers = IF stock.method = "FIFO" THEN Append(stock.layers, layer) ELSE stock.layers
  <2>1. in = Inbound(stock, loc, lot, bin, qty, cost) /\ paid = (IF cost = NoCost THEN stock.avg ELSE cost)
        /\ layer = [loc |-> loc, lot |-> lot, got |-> qty, left |-> qty, cost |-> paid]
    OBVIOUS
  <2> HIDE DEF in, layer, paid
  <2>2. /\ stock.method = "FIFO" => in.stock.layers = Append(stock.layers, layer)
        /\ stock.method # "FIFO" => in.stock.layers = stock.layers
    BY <1>2, <2>1, InboundLayers
  <2> QED BY <2>2
<1>9. paid \in Int /\ stock.avg \in Int /\ stock.std \in Nat /\ stock.value \in Int
  BY <1>1 DEF Costed
<1>10. layer \in Layer /\ layer.left = layer.got /\ layer.left \in 1 .. layer.got
  BY <1>1, <1>9, NamedAssumption DEF Layer
<1> HIDE DEF in, paid, layer
<1>11. in.stock.avg \in Int
  <2>1. cost # NoCost => MovingAverage(stock, qty, cost) \in Int
    BY <1>1, <1>6, <1>9, AverageInteger
  <2> QED BY <1>7, <1>9, <2>1
<1>12. in.value \in Int
  <2>1. Scale \in Nat \ {0} /\ qty * stock.std \in Int /\ qty * paid \in Int
    BY <1>1, <1>9, ScaleAssumption
  <2>2. HalfUp(qty * stock.std, Scale) \in Int /\ HalfUp(qty * paid, Scale) \in Int
    BY <2>1, HalfUpInteger
  <2> QED BY <1>7, <2>2 DEF paid
<1>13. LayersTyped(in.stock.layers) /\ OldestFirst(in.stock.layers)
  <2> DEFINE s == stock.layers
  <2>1. LayersTyped(s) /\ OldestFirst(s)
    BY DEF Costed
  <2> HIDE DEF s
  <2>2. CASE stock.method = "FIFO"
    <3> DEFINE t == Append(s, layer)
    <3>1. in.stock.layers = t
      BY <1>8, <2>2 DEF s
    <3> HIDE DEF t
    <3>2. LayersTyped(t) /\ OldestFirst(t)
      BY <2>1, <1>10, LayerAdded DEF t
    <3> QED BY <3>1, <3>2
  <2>3. CASE stock.method # "FIFO"
    BY <1>8, <2>1, <2>3 DEF s
  <2> QED BY <2>2, <2>3
<1>14. Costed'
  BY <1>3, <1>7, <1>9, <1>11, <1>12, <1>13, BoundAssumption DEF Costed
<1> QED BY <1>3, <1>5, <1>7, <1>14

(* What an issue does to them. *)
LEMMA IssueCosted ==
  ASSUME IInv, Costed, NEW loc \in Locations, NEW lot \in LotsOf, NEW bin \in BinsOf,
         NEW qty \in Quantities, Issue(loc, lot, bin, qty)
  PROVE  /\ Costed' /\ stock'.method = stock.method /\ stock'.std = stock.std
         /\ TotalOnHand(stock)' = TotalOnHand(stock) - qty
         /\ \A l \in Locations : stock'.onhand[l] =
              IF l = loc THEN stock.onhand[l] - qty ELSE stock.onhand[l]
         /\ moves' = moves + 1 /\ edit' = edit
<1>1. qty \in Nat \ {0} /\ -qty \in Int
  BY QuantityAssumption
<1>2. Balanced(stock) /\ DOMAIN stock = Fields
  BY DEF IInv, Balanced
<1> DEFINE out == Outbound(stock, loc, lot, bin, qty)
           taken == ConsumeLayers(stock.layers, loc, lot, qty)
<1>3. stock' = out.stock /\ moves < MaxMoves /\ moves' = moves + 1 /\ edit' = edit
      /\ short' = IF stock.method = "FIFO" THEN short + taken.short ELSE short
  BY DEF Issue
<1>4. SameBalances(out.stock, Rebalance(stock, loc, lot, bin, -qty))
  BY <1>1, <1>2, OutboundBalances
<1>5. /\ \A l \in Locations : out.stock.onhand[l] =
           IF l = loc THEN stock.onhand[l] + (-qty) ELSE stock.onhand[l]
      /\ TotalOnHand(out.stock) = TotalOnHand(stock) + (-qty)
  BY <1>1, <1>2, <1>4, RebalanceTotal
<1>6. TotalOnHand(stock) \in Int /\ \A l \in Locations : stock.onhand[l] \in Int
  BY <1>2, TotalTyped DEF Balanced
<1>7. LayersTyped(stock.layers) /\ OldestFirst(stock.layers) /\ stock.avg \in Int /\ stock.std \in Nat
      /\ stock.value \in Int /\ short \in Nat
  BY DEF Costed
<1>8. /\ out.stock.method = stock.method /\ out.stock.std = stock.std /\ out.stock.avg = stock.avg
      /\ out.stock.value = stock.value + out.value
      /\ stock.method = "FIFO" =>
           /\ out.stock.layers = taken.layers
           /\ out.value = -HalfUp(taken.cost + taken.short * stock.avg, Scale)
      /\ stock.method # "FIFO" => out.stock.layers = stock.layers
  BY <1>2, OutboundLayers
<1>9. stock.method # "FIFO" =>
        /\ out.unit = IF stock.method = "STANDARD" /\ stock.std # 0 THEN stock.std ELSE stock.avg
        /\ out.value = -HalfUp(qty * out.unit, Scale)
  BY <1>2, OutboundCosting
<1> HIDE DEF out, taken
<1>10. /\ taken.short \in Nat /\ taken.cost \in Int
       /\ LayersTyped(taken.layers) /\ OldestFirst(taken.layers)
  <2>1. qty \in Nat /\ taken = ConsumeLayers(stock.layers, loc, lot, qty)
    BY <1>1 DEF taken
  <2>2. Drawn(stock.layers, loc, lot, qty, Len(stock.layers), taken)
    BY <1>7, <2>1, ConsumeDraws
  <2> QED BY <2>2, <2>1 DEF Drawn
<1>11. out.value \in Int
  <2>1. Scale \in Nat \ {0}
    BY ScaleAssumption
  <2>2. CASE stock.method = "FIFO"
    <3> DEFINE n == taken.cost + taken.short * stock.avg
    <3>1. n \in Int
      BY <1>7, <1>10
    <3> HIDE DEF n
    <3>2. HalfUp(n, Scale) \in Int
      BY <2>1, <3>1, HalfUpInteger
    <3> QED BY <1>8, <2>2, <3>2 DEF n
  <2>3. CASE stock.method # "FIFO"
    <3> DEFINE n == qty * out.unit
    <3>1. out.unit \in Int
      BY <1>7, <1>9, <2>3
    <3>2. n \in Int
      BY <1>1, <3>1
    <3> HIDE DEF n
    <3>3. HalfUp(n, Scale) \in Int
      BY <2>1, <3>2, HalfUpInteger
    <3> QED BY <1>9, <2>3, <3>3 DEF n
  <2> QED BY <2>2, <2>3
<1>12. LayersTyped(out.stock.layers) /\ OldestFirst(out.stock.layers)
  BY <1>7, <1>8, <1>10
<1>13. short' \in Nat
  BY <1>3, <1>7, <1>10
<1>14. Costed'
  BY <1>3, <1>7, <1>8, <1>11, <1>12, <1>13, BoundAssumption DEF Costed
<1>15. \A l \in Locations : out.stock.onhand[l] =
         IF l = loc THEN stock.onhand[l] - qty ELSE stock.onhand[l]
  BY <1>1, <1>5, <1>6
<1>16. TotalOnHand(out.stock) = TotalOnHand(stock) - qty
  BY <1>1, <1>5, <1>6
<1> QED BY <1>3, <1>8, <1>14, <1>15, <1>16

(* The product form writes amounts back. *)
LEMMA SaveCosted ==
  ASSUME IInv, Costed, NEW method \in Methods0, NEW std \in StandardCosts, SaveEdit(method, std)
  PROVE  Costed'
<1>1. DOMAIN stock = Fields
  BY DEF IInv, Balanced
<1>2. /\ stock'.method = method /\ stock'.std = std /\ stock'.avg = edit.avg
      /\ stock'.value = stock.value /\ stock'.layers = stock.layers
  BY <1>1 DEF SaveEdit, Fields
<1> QED BY <1>2, MethodAssumption, CostAssumption, BoundAssumption DEF SaveEdit, Costed

(* Every movement keeps the costs amounts and the layers in order ... *)
LEMMA NextCosted == IInv /\ Costed /\ [Next]_vars => Costed'
<1> SUFFICES ASSUME IInv, Costed, [Next]_vars PROVE Costed'
  OBVIOUS
<1>1. CASE \E loc \in Locations, lot \in LotsOf, bin \in BinsOf, qty \in Quantities,
              cost \in UnitCosts \cup {NoCost} : Receive(loc, lot, bin, qty, cost)
  BY <1>1, ReceiptCosted
<1>2. CASE \E loc \in Locations, lot \in LotsOf, bin \in BinsOf, qty \in Quantities :
              Issue(loc, lot, bin, qty)
  BY <1>2, IssueCosted
<1>3. CASE OpenEdit
  <2>1. edit' # NoEdit => edit'.avg \in Int /\ moves' <= MaxMoves
    BY <1>3, BoundAssumption DEF OpenEdit, Costed
  <2> QED BY <1>3, <2>1 DEF OpenEdit, Costed
<1>4. CASE \E method \in Methods0, std \in StandardCosts : SaveEdit(method, std)
  BY <1>4, SaveCosted
<1>5. CASE UNCHANGED vars
  BY <1>5 DEF vars, Costed
<1> QED BY <1>1, <1>2, <1>3, <1>4, <1>5 DEF Next

(* ... so they are in every state. *)
LEMMA CostsInvariance == Spec => []Costed
BY InitCosted, NextCosted, Invariance, PTL DEF Spec

(* Every column of the stock record, and every layer, keeps its type. *)
THEOREM StockStaysTyped == Spec => []TypeOK
<1>1. IInv /\ Costed => TypeOK
  <2> SUFFICES ASSUME IInv, Costed PROVE TypeOK
    OBVIOUS
  <2>1. QuantitiesTyped
    BY DEF IInv, Balanced, QuantitiesTyped
  <2>2. ASSUME NEW i \in DOMAIN stock.layers
        PROVE  stock.layers[i] \in Layer /\ stock.layers[i].left \in 1 .. stock.layers[i].got
    BY DEF Costed, LayersTyped
  <2> QED BY <2>1, <2>2 DEF Costed, TypeOK
<1> QED BY <1>1, Invariance, CostsInvariance, PTL

(* First in, first out: whatever tagged and untagged issues take in between, a cost
   layer is drawn on only when every older one of its lot at its location is gone. *)
THEOREM FirstInFirstOut == Spec => []OldestLayerFirst
<1>1. Costed => OldestLayerFirst
  BY SMTT(30) DEF Costed, LayersTyped, OldestFirst, OldestLayerFirst
<1> QED BY <1>1, CostsInvariance, PTL

-----------------------------------------------------------------------------
(* What the layers of a FIFO product add up to, by index. *)
LEMMA Tallies ==
  ASSUME Costed
  PROVE  /\ \A l : LeftAt(l) = LeftUpTo(stock.layers, l, Len(stock.layers)) /\ LeftAt(l) \in Int
         /\ LayerValue = WorthUpTo(stock.layers, Len(stock.layers)) /\ LayerValue \in Int
<1>1. stock.layers \in Seq(Layer) /\ DOMAIN stock.layers = 1 .. Len(stock.layers)
      /\ Len(stock.layers) \in 0 .. Len(stock.layers)
  BY DEF Costed, LayersTyped
<1>2. /\ \A l : LeftAt(l) = LeftUpTo(stock.layers, l, Len(stock.layers))
      /\ LayerValue = WorthUpTo(stock.layers, Len(stock.layers))
  BY <1>1 DEF LeftAt, LayerValue, LeftUpTo, WorthUpTo
<1>3. \A l : LeftUpTo(stock.layers, l, Len(stock.layers)) \in Int
             /\ WorthUpTo(stock.layers, Len(stock.layers)) \in Int
  BY <1>1, SumsTyped
<1> QED BY <1>2, <1>3

(* The tallies of the properties are running totals over the layers, after a step too. *)
LEMMA TalliesNext ==
  ASSUME Costed'
  PROVE  /\ \A l : LeftAt(l)' = LeftUpTo(stock'.layers, l, Len(stock'.layers))
         /\ LayerValue' = WorthUpTo(stock'.layers, Len(stock'.layers))
<1>1. stock'.layers \in Seq(Layer) /\ DOMAIN stock'.layers = 1 .. Len(stock'.layers)
  BY DEF Costed, LayersTyped
<1> QED BY <1>1 DEF LeftAt, LayerValue, LeftUpTo, WorthUpTo

(* Costs that were paid. *)
PaidCosts == \A a \in 1 .. Len(stock.layers) : stock.layers[a].cost \in Nat

(* A receipt of a FIFO product adds a layer of its quantity at its cost. *)
LEMMA ReceiptLayers ==
  ASSUME IInv, Costed, NEW loc \in Locations, NEW lot \in LotsOf, NEW bin \in BinsOf,
         NEW qty \in Quantities, NEW cost \in UnitCosts \cup {NoCost},
         Receive(loc, lot, bin, qty, cost), stock.method = "FIFO",
         NEW paid, paid = IF cost = NoCost THEN stock.avg ELSE cost
  PROVE  /\ \A l : LeftAt(l)' = LeftAt(l) + IF l = loc THEN qty ELSE 0
         /\ LayerValue' = LayerValue + qty * paid
         /\ PaidCosts /\ paid \in Nat => PaidCosts'
<1>1. Costed'
  BY ReceiptCosted
<1>2. DOMAIN stock = Fields
  BY DEF IInv, Balanced
<1> DEFINE layer == [loc |-> loc, lot |-> lot, got |-> qty, left |-> qty, cost |-> paid]
           s == stock.layers
           t == stock'.layers
           in == Inbound(stock, loc, lot, bin, qty, cost)
<1>3. t = Append(s, layer)
  <2>1. in = Inbound(stock, loc, lot, bin, qty, cost)
        /\ layer = [loc |-> loc, lot |-> lot, got |-> qty, left |-> qty, cost |-> paid]
    OBVIOUS
  <2>2. stock' = in.stock
    BY DEF Receive
  <2> HIDE DEF in, layer
  <2>3. in.stock.layers = Append(s, layer)
    BY <1>2, <2>1, InboundLayers
  <2> QED BY <2>2, <2>3
<1>4. s \in Seq(Layer)
  BY DEF Costed, LayersTyped
<1>5. layer \in Layer /\ layer.loc = loc /\ layer.left = qty /\ layer.cost = paid
      /\ layer.left = layer.got /\ layer.left \in 1 .. layer.got
  <2>1. qty \in Nat \ {0} /\ paid \in Int
    BY QuantityAssumption, CostAssumption DEF Costed
  <2> QED BY <2>1, NamedAssumption DEF Layer
<1> HIDE DEF layer, in
<1>6. \A l : /\ LeftUpTo(Append(s, layer), l, Len(s) + 1)
                 = LeftUpTo(s, l, Len(s)) + IF layer.loc = l THEN layer.left ELSE 0
             /\ WorthUpTo(Append(s, layer), Len(s) + 1)
                 = WorthUpTo(s, Len(s)) + layer.left * layer.cost
  BY <1>4, <1>5, SumsAppend
<1>7. Len(Append(s, layer)) = Len(s) + 1 /\ Append(s, layer)[Len(s) + 1] = layer /\ Len(s) \in Nat
      /\ \A a \in 1 .. Len(s) : Append(s, layer)[a] = s[a]
  BY <1>4, <1>5
<1>8. /\ \A l : LeftAt(l) = LeftUpTo(s, l, Len(s))
      /\ LayerValue = WorthUpTo(s, Len(s))
  BY Tallies
<1>9. /\ \A l : LeftAt(l)' = LeftUpTo(t, l, Len(t))
      /\ LayerValue' = WorthUpTo(t, Len(t))
  BY <1>1, TalliesNext
<1> HIDE DEF s, t
<1>10. \A l : LeftAt(l)' = LeftAt(l) + IF l = loc THEN qty ELSE 0
  BY <1>3, <1>5, <1>6, <1>7, <1>8, <1>9
<1>11. LayerValue' = LayerValue + qty * paid
  BY <1>3, <1>5, <1>6, <1>7, <1>8, <1>9
<1>12. PaidCosts /\ paid \in Nat => PaidCosts'
  <2>1. LayersTyped(s) /\ OldestFirst(s)
    BY DEF Costed, s
  <2>2. PaidLayers(s) /\ paid \in Nat => PaidLayers(t)
    BY <1>3, <1>5, <2>1, LayerAdded
  <2> QED BY <2>2 DEF PaidCosts, PaidLayers, s, t
<1> QED BY <1>10, <1>11, <1>12

(* An issue of a FIFO product takes its quantity from the layers, but for what none of
   them covers, and is valued at what it took. *)
LEMMA IssueLayers ==
  ASSUME IInv, Costed, NEW loc \in Locations, NEW lot \in LotsOf, NEW bin \in BinsOf,
         NEW qty \in Quantities, Issue(loc, lot, bin, qty), stock.method = "FIFO"
  PROVE  \E missing \in 0 .. qty, spent \in Int :
           /\ short' = short + missing
           /\ \A l : LeftAt(l)' = LeftAt(l) - IF l = loc THEN qty - missing ELSE 0
           /\ LayerValue' = LayerValue - spent
           /\ stock'.value = stock.value - HalfUp(spent + missing * stock.avg, Scale)
           /\ PaidCosts => spent \in Nat /\ PaidCosts'
<1>1. Costed'
  BY IssueCosted
<1>2. DOMAIN stock = Fields
  BY DEF IInv, Balanced
<1> DEFINE out == Outbound(stock, loc, lot, bin, qty)
           taken == ConsumeLayers(stock.layers, loc, lot, qty)
           s == stock.layers
           t == stock'.layers
<1>3. stock' = out.stock /\ short' = short + taken.short
  BY DEF Issue
<1>4. /\ out.stock.value = stock.value + out.value
      /\ out.stock.layers = taken.layers
      /\ out.value = -HalfUp(taken.cost + taken.short * stock.avg, Scale)
  BY <1>2, OutboundLayers
<1>5. LayersTyped(s) /\ OldestFirst(s) /\ stock.avg \in Int /\ stock.value \in Int
  BY DEF Costed
<1>6. qty \in Nat
  BY QuantityAssumption
<1>7. taken = ConsumeLayers(s, loc, lot, qty)
  OBVIOUS
<1> HIDE DEF out, taken
<1>8. Drawn(s, loc, lot, qty, Len(s), taken) /\ Accounted(s, loc, qty, Len(s), taken)
  BY <1>5, <1>6, <1>7, ConsumeDraws
<1>9. t = taken.layers
  BY <1>3, <1>4
<1>10. taken.short \in 0 .. qty /\ taken.cost \in Int
  BY <1>8 DEF Drawn
<1>11. /\ \A l : LeftAt(l) = LeftUpTo(s, l, Len(s))
       /\ LayerValue = WorthUpTo(s, Len(s))
  BY Tallies
<1>12. /\ \A l : LeftAt(l)' = LeftUpTo(t, l, Len(t))
       /\ LayerValue' = WorthUpTo(t, Len(t))
  BY <1>1, TalliesNext
<1>13. PaidCosts => taken.cost \in Nat /\ PaidCosts'
  <2>1. PaidCosts => \A k \in 1 .. Len(s) : s[k].cost \in Nat
    BY DEF PaidCosts
  <2>2. PaidCosts => taken.cost \in Nat /\ \A a \in 1 .. Len(t) : t[a].cost \in Nat
    BY <2>1, <1>8, <1>9 DEF Accounted
  <2> QED BY <2>2 DEF PaidCosts
<1>14. stock'.value = stock.value - HalfUp(taken.cost + taken.short * stock.avg, Scale)
  <2> DEFINE n == taken.cost + taken.short * stock.avg
  <2>1. n \in Int /\ Scale \in Nat \ {0}
    BY <1>5, <1>10, ScaleAssumption
  <2> HIDE DEF n
  <2>2. HalfUp(n, Scale) \in Int
    BY <2>1, HalfUpInteger
  <2>3. stock'.value = stock.value + (-HalfUp(n, Scale))
    BY <1>3, <1>4 DEF n
  <2>4. stock'.value = stock.value - HalfUp(n, Scale)
    BY <2>2, <2>3, <1>5
  <2> QED BY <2>4 DEF n
<1> HIDE DEF s, t
<1>15. /\ \A l : LeftAt(l)' = LeftAt(l) - IF l = loc THEN qty - taken.short ELSE 0
       /\ LayerValue' = LayerValue - taken.cost
  BY <1>8, <1>9, <1>11, <1>12 DEF Accounted
<1> QED BY <1>3, <1>10, <1>13, <1>14, <1>15

-----------------------------------------------------------------------------
(* Until a product form is opened there are receipts and issues only. *)
Forms == edits \in Nat /\ (unedited => edit = NoEdit)

(* The checked specification is one of the ledger's behaviours. *)
LEMMA MCRefines == MCSpec => Spec
<1>1. MCInit => Init
  BY DEF MCInit
<1>2. [MCNext]_<<vars, edits>> => [Next]_vars
  BY DEF MCNext, vars
<1> QED BY <1>1, <1>2, PTL DEF MCSpec, Spec

(* Until its first edit no form of the checked specification is open. *)
LEMMA FormsStep == Forms /\ [MCNext]_<<vars, edits>> => Forms' /\ (unedited' => unedited)
<1> SUFFICES ASSUME Forms, [MCNext]_<<vars, edits>> PROVE Forms' /\ (unedited' => unedited)
  OBVIOUS
<1>1. CASE UNCHANGED <<vars, edits>>
  BY <1>1 DEF vars, Forms, unedited
<1>2. CASE MCNext
  <2>1. edits' = edits + IF edit = NoEdit /\ edit' # NoEdit THEN 1 ELSE 0
    BY <1>2 DEF MCNext
  <2>2. edits \in Nat
    BY DEF Forms
  <2>3. CASE edit = NoEdit /\ edit' # NoEdit
    BY <2>1, <2>2, <2>3 DEF Forms, unedited
  <2>4. CASE ~ (edit = NoEdit /\ edit' # NoEdit)
    BY <2>1, <2>2, <2>4 DEF Forms, unedited
  <2> QED BY <2>3, <2>4
<1> QED BY <1>1, <1>2

(* A step before that. *)
LEMMA Movements ==
  ASSUME Forms, [MCNext]_<<vars, edits>>, unedited'
  PROVE  \/ \E loc \in Locations, lot \in LotsOf, bin \in BinsOf, qty \in Quantities,
               cost \in UnitCosts \cup {NoCost} : Receive(loc, lot, bin, qty, cost)
         \/ \E loc \in Locations, lot \in LotsOf, bin \in BinsOf, qty \in Quantities :
               Issue(loc, lot, bin, qty)
         \/ UNCHANGED vars
<1>1. Forms' /\ unedited
  BY FormsStep
<1>2. edit = NoEdit /\ edit' = NoEdit
  BY <1>1 DEF Forms
<1>3. OpenEdit => UNCHANGED vars
  BY <1>2 DEF OpenEdit, vars
<1>4. \A method, std : ~ SaveEdit(method, std)
  BY <1>2 DEF SaveEdit
<1> QED BY <1>3, <1>4 DEF MCNext, Next

(* What was proved of the ledger, and the forms. *)
LEMMA MCInvariance == MCSpec => [](IInv /\ Costed /\ Forms)
<1>1. MCInit => Forms
  BY DEF MCInit, Init, Forms
<1>2. MCSpec => []Forms
  BY <1>1, FormsStep, PTL DEF MCSpec
<1> QED BY <1>2, MCRefines, Invariance, CostsInvariance, PTL

-----------------------------------------------------------------------------
(* The layers at the locations are a sum over them. *)
LEMMA LeftMoves ==
  ASSUME Costed, Costed', NEW loc \in Locations, NEW d \in Int,
         \A l : LeftAt(l)' = LeftAt(l) + IF l = loc THEN d ELSE 0
  PROVE  SumFunction([l \in Locations |-> LeftAt(l)])'
           = SumFunction([l \in Locations |-> LeftAt(l)]) + d
<1> DEFINE f == [l \in Locations |-> LeftAt(l)]
           h == [l \in Locations |-> LeftAt(l)']
<1>1. \A l : LeftAt(l) \in Int
  BY Tallies
<1>2. \A l : LeftAt(l)' \in Int
  BY <1>1
<1>3. f \in [Locations -> Int] /\ h \in [Locations -> Int]
      /\ h[loc] = f[loc] + d /\ \A l \in Locations \ {loc} : h[l] = f[l]
  BY <1>1, <1>2
<1>4. SumFunction(f)' = SumFunction(h)
  OBVIOUS
<1> HIDE DEF h
<1>5. f[loc] \in Int
  BY <1>3
<1> HIDE DEF f
<1>6. SumFunction(f) \in Int
  BY <1>3, SumInteger, LocationAssumption
<1>7. SumFunction(h) = SumFunction(f) + h[loc] - f[loc]
  BY <1>3, SumUpdate, LocationAssumption
<1>8. SumFunction(h) = SumFunction(f) + d
  BY <1>3, <1>5, <1>6, <1>7
<1> QED BY <1>4, <1>8 DEF f

(* Nothing else moves them. *)
LEMMA NothingMoves ==
  ASSUME UNCHANGED vars
  PROVE  /\ stock' = stock /\ moves' = moves /\ short' = short
         /\ (LayersMatchStock <=> LayersMatchStock')
BY DEF vars, LayersMatchStock, LeftAt, TotalOnHand

(* Until a form edits a balance, every movement keeps the layers in step with the
   balances ... *)
LEMMA CoverStep ==
  ASSUME IInv, Costed, Forms, [MCNext]_<<vars, edits>>, unedited', LayersMatchStock
  PROVE  LayersMatchStock'
<1> DEFINE all == SumFunction([l \in Locations |-> LeftAt(l)])
<1>1. CASE UNCHANGED vars
  BY <1>1, NothingMoves
<1>2. ASSUME NEW loc \in Locations, NEW lot \in LotsOf, NEW bin \in BinsOf,
             NEW qty \in Quantities, NEW cost \in UnitCosts \cup {NoCost},
             Receive(loc, lot, bin, qty, cost)
      PROVE  LayersMatchStock'
  <2>1. /\ Costed' /\ stock'.method = stock.method
        /\ TotalOnHand(stock)' = TotalOnHand(stock) + qty
        /\ \A l \in Locations : stock'.onhand[l] =
             IF l = loc THEN stock.onhand[l] + qty ELSE stock.onhand[l]
        /\ short' = short
    BY <1>2, ReceiptCosted
  <2> SUFFICES ASSUME stock.method = "FIFO"
               PROVE  /\ all' = TotalOnHand(stock)' + short'
                      /\ \A l \in Locations : LeftAt(l)' >= stock'.onhand[l]
    BY <2>1 DEF LayersMatchStock
  <2>2. all = TotalOnHand(stock) + short /\ \A l \in Locations : LeftAt(l) >= stock.onhand[l]
    BY DEF LayersMatchStock
  <2>3. \A l : LeftAt(l)' = LeftAt(l) + IF l = loc THEN qty ELSE 0
    BY <1>2, ReceiptLayers
  <2>4. qty \in Int /\ qty \in Nat
    BY QuantityAssumption
  <2>5. all' = all + qty
    BY <2>1, <2>3, <2>4, LeftMoves
  <2>6. Balanced(stock)
    BY DEF IInv
  <2>7. TotalOnHand(stock) \in Int /\ short \in Int
    BY <2>6, TotalTyped DEF Costed
  <2>8. all' = TotalOnHand(stock)' + short'
    <3> DEFINE x == TotalOnHand(stock)
    <3>1. all = x + short /\ TotalOnHand(stock)' = x + qty /\ x \in Int
      BY <2>1, <2>2, <2>7
    <3> HIDE DEF all, x
    <3> QED BY <3>1, <2>1, <2>4, <2>5, <2>7
  <2>9. \A l \in Locations : LeftAt(l)' >= stock'.onhand[l]
    <3> TAKE l \in Locations
    <3>1. LeftAt(l) \in Int /\ stock.onhand[l] \in Int
      BY <2>6, Tallies DEF Balanced
    <3> QED BY <3>1, <2>1, <2>2, <2>3, <2>4
  <2> QED BY <2>8, <2>9
<1>3. ASSUME NEW loc \in Locations, NEW lot \in LotsOf, NEW bin \in BinsOf,
             NEW qty \in Quantities, Issue(loc, lot, bin, qty)
      PROVE  LayersMatchStock'
  <2>1. /\ Costed' /\ stock'.method = stock.method
        /\ TotalOnHand(stock)' = TotalOnHand(stock) - qty
        /\ \A l \in Locations : stock'.onhand[l] =
             IF l = loc THEN stock.onhand[l] - qty ELSE stock.onhand[l]
    BY <1>3, IssueCosted
  <2> SUFFICES ASSUME stock.method = "FIFO"
               PROVE  /\ all' = TotalOnHand(stock)' + short'
                      /\ \A l \in Locations : LeftAt(l)' >= stock'.onhand[l]
    BY <2>1 DEF LayersMatchStock
  <2>2. all = TotalOnHand(stock) + short /\ \A l \in Locations : LeftAt(l) >= stock.onhand[l]
    BY DEF LayersMatchStock
  <2>3. PICK missing \in 0 .. qty :
          /\ short' = short + missing
          /\ \A l : LeftAt(l)' = LeftAt(l) - IF l = loc THEN qty - missing ELSE 0
    BY <1>3, IssueLayers
  <2>4. qty \in Int /\ missing \in Nat /\ missing <= qty
    BY QuantityAssumption
  <2> DEFINE d == missing - qty
  <2>5. d \in Int /\ \A l : LeftAt(l)' = LeftAt(l) + IF l = loc THEN d ELSE 0
    <3>1. \A l : LeftAt(l) \in Int
      BY Tallies
    <3> QED BY <3>1, <2>3, <2>4
  <2>6. all' = all + d
    <3> HIDE DEF d
    <3> QED BY <2>1, <2>5, LeftMoves
  <2>7. Balanced(stock)
    BY DEF IInv
  <2>8. TotalOnHand(stock) \in Int /\ short \in Int
    BY <2>7, TotalTyped DEF Costed
  <2>9. all' = TotalOnHand(stock)' + short'
    <3> DEFINE x == TotalOnHand(stock)
    <3>1. all = x + short /\ TotalOnHand(stock)' = x - qty /\ x \in Int
      BY <2>1, <2>2, <2>8
    <3> HIDE DEF all, x
    <3> QED BY <3>1, <2>3, <2>4, <2>6, <2>8
  <2>10. \A l \in Locations : LeftAt(l)' >= stock'.onhand[l]
    <3> TAKE l \in Locations
    <3>1. LeftAt(l) \in Int /\ stock.onhand[l] \in Int
      BY <2>7, Tallies DEF Balanced
    <3> QED BY <3>1, <2>1, <2>2, <2>4, <2>5
  <2> QED BY <2>9, <2>10
<1> QED BY <1>1, <1>2, <1>3, Movements

(* ... as they are to begin with. *)
LEMMA CoverBegins == MCInit => LayersMatchStock
<1> SUFFICES ASSUME MCInit PROVE LayersMatchStock
  OBVIOUS
<1>1. PICK m \in Methods0, std \in StandardCosts : stock = NoStock(m, std)
  BY DEF MCInit, Init
<1>2. Costed /\ short = 0
  BY InitCosted DEF MCInit, Init
<1>3. stock.layers = <<>> /\ stock.onhand = [l \in Locations |-> 0]
  BY <1>1 DEF NoStock
<1>4. <<>> \in Seq(Layer) /\ 0 \in 0 .. Len(<<>>) /\ Len(<<>>) = 0
  OBVIOUS
<1>5. \A l : LeftAt(l) = 0
  <2>1. \A l : LeftAt(l) = LeftUpTo(<<>>, l, 0)
    BY <1>2, <1>3, <1>4, Tallies
  <2>2. \A l : LeftUpTo(<<>>, l, 0) = 0
    BY <1>4, SumsTyped
  <2> QED BY <2>1, <2>2
<1> DEFINE f == [l \in Locations |-> LeftAt(l)]
<1>6. f \in [Locations -> Int] /\ \A l \in Locations : f[l] = 0
  BY <1>5
<1>7. stock.onhand \in [Locations -> Int] /\ \A l \in Locations : stock.onhand[l] = 0
  BY <1>3
<1>8. SumFunction(f) = 0
  <2> HIDE DEF f
  <2> QED BY <1>6, SumZero, LocationAssumption
<1>9. TotalOnHand(stock) = 0
  BY <1>7, SumZero, LocationAssumption DEF TotalOnHand
<1> QED BY <1>2, <1>5, <1>7, <1>8, <1>9 DEF LayersMatchStock

(* Until a product form is opened, every unit a FIFO product has at a location is covered
   by a cost layer there, and the layers cover what is on hand and what was issued
   without one, and no more. *)
THEOREM LayersKeepCovering == MCSpec => []LayersCoverStock
<1>1. LayersCoverStock /\ IInv /\ Costed /\ Forms /\ [MCNext]_<<vars, edits>> => LayersCoverStock'
  BY CoverStep, FormsStep DEF LayersCoverStock
<1>2. MCInit => LayersCoverStock
  BY CoverBegins DEF LayersCoverStock
<1> QED BY <1>1, <1>2, MCInvariance, PTL DEF MCSpec
-----------------------------------------------------------------------------
(* The largest quantity of a movement. *)
LEMMA LargestQuantity == MaxQuantity \in Nat /\ \A q \in Quantities : q <= MaxQuantity
<1> DEFINE id == [q \in Quantities |-> q]
           Bounds == {n \in Nat : \A q \in Quantities : q <= n}
<1>1. id \in [Quantities -> Nat] /\ \A q \in Quantities : id[q] = q
  BY QuantityAssumption
<1>2. SumFunction(id) \in Nat /\ \A q \in Quantities : id[q] <= SumFunction(id)
  <2> HIDE DEF id
  <2> QED BY <1>1, SumNatural, QuantityAssumption
<1>3. SumFunction(id) \in Bounds
  BY <1>1, <1>2
<1>4. PICK n \in Bounds : \A k \in Bounds : n <= k
  BY <1>3, SmallestNumber
<1>5. n \in Quantities
  <2> SUFFICES ASSUME n \notin Quantities PROVE FALSE
    OBVIOUS
  <2>1. \A q \in Quantities : q \in Nat /\ q < n
    BY <1>4, QuantityAssumption
  <2>2. PICK q \in Quantities : TRUE
    BY QuantityAssumption
  <2>3. n \in Nat /\ n - 1 \in Nat
    BY <2>1, <2>2, <1>4
  <2>4. \A k \in Quantities : k <= n - 1
    BY <2>1, <2>3
  <2>5. n - 1 \in Bounds
    BY <2>3, <2>4
  <2> QED BY <2>3, <2>5, <1>4
<1>6. \E q \in Quantities : \A k \in Quantities : k <= q
  BY <1>4, <1>5
<1>7. MaxQuantity \in Quantities /\ \A k \in Quantities : k <= MaxQuantity
  BY <1>6 DEF MaxQuantity
<1> QED BY <1>7, QuantityAssumption

(* The slack grows by the rounding of one movement, and for a moving average by that of
   the units on hand. *)
LEMMA SlackGrows ==
  ASSUME Costed, moves' = moves + 1, stock'.method = stock.method, NEW r \in Nat,
         r <= IF stock.method = "AVERAGE" THEN (moves + 1) * MaxQuantity ELSE 0
  PROVE  /\ RoundingSlack \in Int /\ RoundingSlack' \in Int
         /\ RoundingSlack + Scale + r <= RoundingSlack'
<1> DEFINE Q == MaxQuantity
<1>1. moves \in Nat /\ Scale \in Nat /\ Q \in Nat
  BY ScaleAssumption, LargestQuantity, BoundAssumption DEF Costed
<1>2. /\ RoundingSlack = moves * (Scale + IF stock.method = "AVERAGE" THEN moves * Q ELSE 0)
      /\ RoundingSlack' = (moves + 1)
            * (Scale + IF stock.method = "AVERAGE" THEN (moves + 1) * Q ELSE 0)
  BY DEF RoundingSlack, MaxQuantity
<1> HIDE DEF Q
<1>3. CASE stock.method = "AVERAGE"
  <2> DEFINE a == moves * Q  b == (moves + 1) * Q
  <2>1. a \in Nat /\ b \in Nat /\ b = a + Q
    BY <1>1
  <2>2. RoundingSlack = moves * (Scale + a) /\ RoundingSlack' = (moves + 1) * (Scale + b) /\ r <= b
    BY <1>2, <1>3 DEF Q
  <2> HIDE DEF a, b
  <2>3. (moves + 1) * (Scale + b) = moves * (Scale + b) + (Scale + b)
    BY <1>1, <2>1
  <2>4. moves * (Scale + b) = moves * (Scale + a) + moves * Q /\ moves * Q \in Nat
    BY <1>1, <2>1
  <2>5. moves * (Scale + a) \in Nat
    BY <1>1, <2>1
  <2> DEFINE x == moves * (Scale + a)  y == moves * Q
  <2>6. RoundingSlack = x /\ RoundingSlack' = x + y + Scale + b /\ x \in Nat /\ y \in Nat
    BY <1>1, <2>1, <2>2, <2>3, <2>4, <2>5
  <2> HIDE DEF x, y
  <2> QED BY <1>1, <2>1, <2>2, <2>6
<1>4. CASE stock.method # "AVERAGE"
  <2>1. RoundingSlack = moves * Scale /\ RoundingSlack' = (moves + 1) * Scale /\ r = 0
    BY <1>1, <1>2, <1>4
  <2>2. (moves + 1) * Scale = moves * Scale + Scale /\ moves * Scale \in Nat
    BY <1>1
  <2> QED BY <1>1, <2>1, <2>2
<1> QED BY <1>3, <1>4

(* A movement worth w that is booked as h, within half a cent, keeps the ledger within
   rounding of books that change by w, give or take half of r. *)
LEMMA BookedMoves ==
  ASSUME Costed, moves' = moves + 1, stock'.method = stock.method, LedgerMatchesBooks,
         BookCost \in Int, BookCost' \in Int, NEW w \in Int, NEW h \in Int, NEW r \in Nat,
         r <= IF stock.method = "AVERAGE" THEN (moves + 1) * MaxQuantity ELSE 0,
         stock'.value = stock.value + h,
         2 * (Scale * h - w) <= Scale, 2 * (w - Scale * h) <= Scale,
         2 * (BookCost' - BookCost - w) <= r, 2 * (BookCost + w - BookCost') <= r
  PROVE  LedgerMatchesBooks'
<1> DEFINE v == stock.value  b == BookCost  c == BookCost'
           s == RoundingSlack  t == RoundingSlack'  z == stock'.value
<1>1. s \in Int /\ t \in Int /\ s + Scale + r <= t
  BY SlackGrows
<1>2. v \in Int /\ Scale \in Nat /\ b \in Int /\ c \in Int
  BY ScaleAssumption DEF Costed
<1>3. 2 * (Scale * v - b) <= s /\ -2 * (Scale * v - b) <= s
  BY DEF LedgerMatchesBooks
<1>4. /\ 2 * (Scale * h - w) <= Scale /\ 2 * (w - Scale * h) <= Scale
      /\ 2 * (c - b - w) <= r /\ 2 * (b + w - c) <= r
      /\ z = v + h
  OBVIOUS
<1>5. LedgerMatchesBooks' <=> 2 * (Scale * z - c) <= t /\ -2 * (Scale * z - c) <= t
  BY DEF LedgerMatchesBooks
<1> HIDE DEF v, b, c, s, t, z
<1> DEFINE x == Scale * v  y == Scale * h
<1>6. x \in Int /\ y \in Int /\ Scale * (v + h) = x + y
  BY <1>2
<1>7. /\ 2 * (x - b) <= s /\ -2 * (x - b) <= s
      /\ 2 * (y - w) <= Scale /\ 2 * (w - y) <= Scale
      /\ Scale * z = x + y
  BY <1>3, <1>4, <1>6
<1> HIDE DEF x, y
<1>8. 2 * (x + y - c) <= t /\ -2 * (x + y - c) <= t
  BY <1>1, <1>2, <1>4, <1>6, <1>7
<1>9. z \in Int /\ Scale * z - c = x + y - c
  BY <1>2, <1>4, <1>6, <1>7
<1> DEFINE m == Scale * z - c  n == x + y - c
<1>10. (LedgerMatchesBooks' <=> 2 * m <= t /\ -2 * m <= t) /\ m = n /\ 2 * n <= t /\ -2 * n <= t
  BY <1>5, <1>8, <1>9
<1> HIDE DEF m, n
<1> QED BY <1>10

(* What is on hand is worth, by costing method. *)
LEMMA BooksByMethod ==
  /\ stock.method = "FIFO" => BookCost = LayerValue
  /\ stock.method = "AVERAGE" => BookCost = TotalOnHand(stock) * stock.avg
  /\ stock.method = "STANDARD" => BookCost = TotalOnHand(stock) * stock.std
BY DEF BookCost

(* What a receipt is booked at, and the average it leaves. *)
LEMMA ReceiptBooked ==
  ASSUME IInv, NEW loc \in Locations, NEW lot \in LotsOf, NEW bin \in BinsOf,
         NEW qty \in Quantities, NEW cost \in UnitCosts \cup {NoCost},
         Receive(loc, lot, bin, qty, cost),
         NEW paid, paid = IF cost = NoCost THEN stock.avg ELSE cost
  PROVE  /\ stock.method = "STANDARD" =>
              /\ stock'.avg = stock.std
              /\ stock'.value = stock.value + HalfUp(qty * stock.std, Scale)
         /\ stock.method # "STANDARD" =>
              /\ stock'.avg = IF cost = NoCost THEN stock.avg ELSE MovingAverage(stock, qty, cost)
              /\ stock'.value = stock.value + HalfUp(qty * paid, Scale)
<1> DEFINE in == Inbound(stock, loc, lot, bin, qty, cost)
<1>1. DOMAIN stock = Fields /\ stock' = in.stock
  BY DEF IInv, Balanced, Receive
<1>2. /\ in.stock.value = stock.value + in.value
      /\ stock.method = "STANDARD" =>
           in.stock.avg = stock.std /\ in.value = HalfUp(qty * stock.std, Scale)
      /\ stock.method # "STANDARD" =>
           /\ in.stock.avg = IF cost = NoCost THEN stock.avg ELSE MovingAverage(stock, qty, cost)
           /\ in.value = HalfUp(qty * (IF cost = NoCost THEN stock.avg ELSE cost), Scale)
  BY <1>1, InboundCosting
<1> HIDE DEF in
<1> QED BY <1>1, <1>2

(* The moving average is worth what was there and what came in, to half a cost unit
   for each unit. *)
LEMMA AverageNear ==
  ASSUME NEW st, TotalOnHand(st) \in Nat, st.avg \in Nat, NEW qty \in Nat \ {0}, NEW cost \in Nat,
         NEW n, n = TotalOnHand(st), NEW old, old = st.avg,
         NEW new, new = MovingAverage(st, qty, cost)
  PROVE  /\ new \in Nat
         /\ 2 * ((n + qty) * new - (n * old + qty * cost)) <= n + qty
         /\ 2 * ((n * old + qty * cost) - (n + qty) * new) <= n + qty
<1> DEFINE spent == n * old + qty * cost  total == n + qty
<1>1. n \in Nat /\ old \in Nat
  OBVIOUS
<1>2. n * old \in Nat /\ qty * cost \in Nat
  BY <1>1
<1>3. spent \in Nat /\ total \in Nat \ {0}
  BY <1>1, <1>2
<1>4. total > 0 /\ new = HalfUp(spent, total)
  BY <1>3 DEF MovingAverage
<1> HIDE DEF spent, total
<1>5. /\ HalfUp(spent, total) \in Nat
      /\ 2 * (total * HalfUp(spent, total) - spent) <= total
      /\ 2 * (spent - total * HalfUp(spent, total)) <= total
  BY <1>3, HalfUpNear
<1>6. new \in Nat /\ 2 * (total * new - spent) <= total /\ 2 * (spent - total * new) <= total
  BY <1>4, <1>5
<1> QED BY <1>6 DEF spent, total

(* A receipt changes what the books should say by what it brings. *)
LEMMA ReceiptBooks ==
  ASSUME IInv, Costed, NEW loc \in Locations, NEW lot \in LotsOf, NEW bin \in BinsOf,
         NEW qty \in Quantities, NEW cost \in UnitCosts \cup {NoCost},
         Receive(loc, lot, bin, qty, cost),
         TotalOnHand(stock) \in Nat, stock.avg \in Nat,
         NEW paid, paid = (IF stock.method = "STANDARD" THEN stock.std
                           ELSE IF cost = NoCost THEN stock.avg ELSE cost),
         NEW r, r = IF stock.method = "AVERAGE" THEN TotalOnHand(stock) + qty ELSE 0
  PROVE  /\ paid \in Nat /\ stock'.avg \in Nat
         /\ BookCost \in Int /\ BookCost' \in Int
         /\ stock'.value = stock.value + HalfUp(qty * paid, Scale)
         /\ 2 * (BookCost' - BookCost - qty * paid) <= r
         /\ 2 * (BookCost + qty * paid - BookCost') <= r
<1> DEFINE n == TotalOnHand(stock)
           price == IF cost = NoCost THEN stock.avg ELSE cost
<1>0. qty \in Nat \ {0} /\ n \in Nat /\ stock.std \in Nat /\ stock.avg \in Nat
      /\ (cost # NoCost => cost \in Nat)
  BY QuantityAssumption, CostAssumption DEF Costed
<1>1. /\ Costed' /\ stock'.method = stock.method /\ stock'.std = stock.std
      /\ TotalOnHand(stock)' = n + qty
  BY ReceiptCosted
<1>2. price \in Nat /\ paid \in Nat
  BY <1>0
<1>3. /\ stock.method = "STANDARD" =>
           stock'.avg = stock.std /\ stock'.value = stock.value + HalfUp(qty * stock.std, Scale)
      /\ stock.method # "STANDARD" =>
           /\ stock'.avg = IF cost = NoCost THEN stock.avg ELSE MovingAverage(stock, qty, cost)
           /\ stock'.value = stock.value + HalfUp(qty * price, Scale)
  BY ReceiptBooked
<1>4. stock'.value = stock.value + HalfUp(qty * paid, Scale)
  BY <1>3
<1>5. cost # NoCost =>
        /\ MovingAverage(stock, qty, cost) \in Nat
        /\ 2 * ((n + qty) * MovingAverage(stock, qty, cost) - (n * stock.avg + qty * cost)) <= n + qty
        /\ 2 * ((n * stock.avg + qty * cost) - (n + qty) * MovingAverage(stock, qty, cost)) <= n + qty
  BY <1>0, AverageNear
<1>6. stock'.avg \in Nat
  BY <1>0, <1>3, <1>5
<1>7. qty * paid \in Nat
  BY <1>0, <1>2
<1>8. CASE stock.method = "FIFO"
  <2>1. BookCost = LayerValue /\ BookCost' = LayerValue' /\ paid = price /\ r = 0
    BY <1>1, <1>8, BooksByMethod DEF BookCost
  <2>2. LayerValue' = LayerValue + qty * price
    BY <1>8, ReceiptLayers
  <2>3. LayerValue \in Int
    BY Tallies
  <2>4. BookCost \in Int /\ BookCost' = BookCost + qty * paid
    BY <2>1, <2>2, <2>3
  <2> DEFINE w == qty * paid  b == BookCost
  <2>5. w \in Nat /\ b \in Int /\ BookCost' = b + w
    BY <1>7, <2>4
  <2> HIDE DEF w, b
  <2>6. BookCost' \in Int /\ 2 * (BookCost' - b - w) <= 0 /\ 2 * (b + w - BookCost') <= 0
    BY <2>5
  <2> QED BY <1>2, <1>4, <1>6, <2>1, <2>4, <2>6 DEF w, b
<1>9. CASE stock.method = "STANDARD"
  <2>1. BookCost = n * stock.std /\ BookCost' = (n + qty) * stock.std /\ paid = stock.std /\ r = 0
    BY <1>1, <1>9 DEF BookCost
  <2>2. n * stock.std \in Nat /\ (n + qty) * stock.std = n * stock.std + qty * stock.std
    BY <1>0
  <2>3. BookCost \in Int /\ BookCost' = BookCost + qty * paid
    BY <2>1, <2>2
  <2> DEFINE w == qty * paid  b == BookCost
  <2>5. w \in Nat /\ b \in Int /\ BookCost' = b + w
    BY <1>7, <2>3
  <2> HIDE DEF w, b
  <2>6. BookCost' \in Int /\ 2 * (BookCost' - b - w) <= 0 /\ 2 * (b + w - BookCost') <= 0
    BY <2>5
  <2> QED BY <1>2, <1>4, <1>6, <2>1, <2>3, <2>6 DEF w, b
<1>10. CASE stock.method = "AVERAGE"
  <2> DEFINE a == stock'.avg  old == stock.avg
  <2>1. BookCost = n * old /\ BookCost' = (n + qty) * a /\ paid = price /\ r = n + qty
    BY <1>1, <1>10 DEF BookCost
  <2>2. a \in Nat /\ old \in Nat
    BY <1>0, <1>6
  <2>3. /\ 2 * ((n + qty) * a - (n * old + qty * price)) <= n + qty
        /\ 2 * ((n * old + qty * price) - (n + qty) * a) <= n + qty
    <3>1. CASE cost = NoCost
      <4>1. a = old /\ price = old
        BY <3>1, <1>3, <1>10
      <4> HIDE DEF a, n, old, price
      <4>2. (n + qty) * a = n * old + qty * price
        BY <4>1, <1>0, <2>2
      <4>3. n * old \in Nat /\ qty * price \in Nat
        BY <4>1, <1>0, <2>2
      <4>4. n * old + qty * price \in Nat
        BY <4>3
      <4> DEFINE x == n * old + qty * price
      <4>5. x \in Nat /\ (n + qty) * a = x
        BY <4>2, <4>4
      <4> HIDE DEF x
      <4>6. 2 * ((n + qty) * a - x) <= n + qty /\ 2 * (x - (n + qty) * a) <= n + qty
        BY <4>5, <1>0
      <4> QED BY <4>6 DEF x
    <3>2. CASE cost # NoCost
      <4>1. a = MovingAverage(stock, qty, cost) /\ price = cost
        BY <3>2, <1>3, <1>10
      <4> QED BY <4>1, <3>2, <1>5
    <3> QED BY <3>1, <3>2
  <2> DEFINE w == qty * paid  b == BookCost  c == (n + qty) * a
  <2>4. w \in Nat /\ b = n * old /\ b \in Int /\ w = qty * price /\ BookCost' = c /\ c \in Int
    BY <1>0, <1>7, <2>1, <2>2
  <2>5. 2 * (c - (b + w)) <= n + qty /\ 2 * ((b + w) - c) <= n + qty
    BY <2>3, <2>4
  <2> HIDE DEF w, b, c
  <2>6. 2 * (c - b - w) <= r /\ 2 * (b + w - c) <= r
    BY <2>1, <2>4, <2>5, <1>0
  <2> QED BY <1>2, <1>4, <1>6, <2>4, <2>6 DEF w, b, c
<1> QED BY <1>8, <1>9, <1>10 DEF Costed, Methods

(* An issue relieves the books of what it is booked at, while every layer it needs is there. *)
LEMMA IssueBooks ==
  ASSUME IInv, Costed, NEW loc \in Locations, NEW lot \in LotsOf, NEW bin \in BinsOf,
         NEW qty \in Quantities, Issue(loc, lot, bin, qty), short' = 0,
         TotalOnHand(stock) \in Nat, stock.avg \in Nat,
         stock.method = "FIFO" => PaidCosts,
         stock.method = "STANDARD" => stock.avg \in {0, stock.std}
  PROVE  /\ short = 0 /\ stock'.avg = stock.avg /\ (stock.method = "FIFO" => PaidCosts')
         /\ \E w \in Nat : /\ BookCost \in Int /\ BookCost' = BookCost - w
                           /\ stock'.value = stock.value - HalfUp(w, Scale)
<1> DEFINE n == TotalOnHand(stock)
           out == Outbound(stock, loc, lot, bin, qty)
<1>0. qty \in Nat \ {0} /\ n \in Nat /\ stock.std \in Nat /\ stock.avg \in Nat /\ short \in Nat
      /\ stock.value \in Int /\ Scale \in Nat \ {0}
  BY QuantityAssumption, ScaleAssumption DEF Costed
<1>1. /\ Costed' /\ stock'.method = stock.method /\ stock'.std = stock.std
      /\ TotalOnHand(stock)' = n - qty
  BY IssueCosted
<1>2. DOMAIN stock = Fields /\ stock' = out.stock
      /\ (stock.method # "FIFO" => short' = short)
  BY DEF IInv, Balanced, Issue
<1>3. stock'.avg = stock.avg
  <2>1. out.stock.avg = stock.avg
    BY <1>2, OutboundLayers
  <2> QED BY <1>2, <2>1
<1>4. CASE stock.method = "FIFO"
  <2>1. PICK missing \in 0 .. qty, spent \in Int :
           /\ short' = short + missing
           /\ LayerValue' = LayerValue - spent
           /\ stock'.value = stock.value - HalfUp(spent + missing * stock.avg, Scale)
           /\ PaidCosts => spent \in Nat /\ PaidCosts'
    BY <1>4, IssueLayers
  <2>2. missing = 0 /\ short = 0
    BY <2>1, <1>0
  <2>3. spent + missing * stock.avg = spent
    BY <2>1, <2>2, <1>0
  <2>4. BookCost = LayerValue /\ BookCost' = LayerValue'
    BY <1>1, <1>4 DEF BookCost
  <2>5. LayerValue \in Int
    BY Tallies
  <2>6. spent \in Nat /\ PaidCosts'
    BY <2>1, <1>4
  <2>7. BookCost \in Int /\ BookCost' = BookCost - spent
        /\ stock'.value = stock.value - HalfUp(spent, Scale)
    BY <2>1, <2>3, <2>4, <2>5
  <2> QED BY <1>3, <2>2, <2>6, <2>7
<1>5. CASE stock.method # "FIFO"
  <2> DEFINE unit == IF stock.method = "STANDARD" THEN stock.std ELSE stock.avg
             w == qty * unit
  <2>1. /\ out.stock.value = stock.value + out.value
        /\ out.unit = IF stock.method = "STANDARD" /\ stock.std # 0 THEN stock.std ELSE stock.avg
        /\ out.value = -HalfUp(qty * out.unit, Scale)
    BY <1>2, <1>5, OutboundCosting
  <2> HIDE DEF out
  <2>2. out.unit = unit /\ unit \in Nat
    BY <2>1, <1>0
  <2>3. w \in Nat
    BY <1>0, <2>2
  <2>4. stock'.value = stock.value + (-HalfUp(w, Scale))
    BY <1>2, <2>1, <2>2
  <2>5. BookCost = n * unit /\ BookCost' = (n - qty) * unit
    <3>1. stock.method = "AVERAGE" \/ stock.method = "STANDARD"
      BY <1>5 DEF Costed, Methods
    <3>2. CASE stock.method = "AVERAGE"
      BY <3>2, <1>1, <1>3 DEF BookCost
    <3>3. CASE stock.method = "STANDARD"
      BY <3>3, <1>1 DEF BookCost
    <3> QED BY <3>1, <3>2, <3>3
  <2> HIDE DEF unit
  <2>6. BookCost \in Int /\ BookCost' = BookCost - w
    BY <1>0, <2>2, <2>5
  <2> HIDE DEF w
  <2>7. HalfUp(w, Scale) \in Nat
    BY <1>0, <2>3, HalfUpNear
  <2>8. stock'.value = stock.value - HalfUp(w, Scale)
    BY <1>0, <2>4, <2>7
  <2>9. short = 0
    BY <1>2, <1>5
  <2> QED BY <1>3, <1>5, <2>3, <2>6, <2>8, <2>9
<1> QED BY <1>4, <1>5

(* On a tenant that blocks negative stock no more is on hand than was moved. *)
LEMMA NoneOwed ==
  ASSUME IInv, BlockNegative
  PROVE  TotalOnHand(stock) \in Nat
<1>1. stock.onhand \in [Locations -> Nat]
  <2>1. stock.onhand \in [Locations -> Int] /\ \A l \in Locations : stock.onhand[l] >= 0
    BY DEF IInv, Balanced, NeverOverdrawn
  <2> QED BY <2>1
<1> QED BY <1>1, SumNatural, LocationAssumption DEF TotalOnHand

(* Costs that were paid or set, no more on hand than moved, and the ledger near the
   books: inductive together. *)
Priced ==
  /\ stock.avg \in Nat
  /\ stock.method = "FIFO" => PaidCosts
  /\ stock.method = "STANDARD" => stock.avg \in {0, stock.std}
  /\ TotalOnHand(stock) <= moves * MaxQuantity
  /\ LedgerMatchesBooks

(* What one more movement may add to what is on hand. *)
LEMMA MovedQuantity ==
  ASSUME NEW m \in Nat, NEW q \in Nat, NEW n \in Nat, n <= m * MaxQuantity, q <= MaxQuantity
  PROVE  n + q <= (m + 1) * MaxQuantity /\ n - q <= (m + 1) * MaxQuantity
<1> DEFINE k == MaxQuantity
<1>1. k \in Nat
  BY LargestQuantity
<1>2. n <= m * k /\ q <= k
  OBVIOUS
<1> HIDE DEF k
<1>3. (m + 1) * k = m * k + k /\ m * k \in Nat
  BY <1>1
<1>4. n + q <= (m + 1) * k /\ n - q <= (m + 1) * k
  BY <1>1, <1>2, <1>3
<1> QED BY <1>4 DEF k

(* A receipt moves the booked value by what it adds to the stock's, to its rounding ... *)
LEMMA ReceiptPriced ==
  ASSUME IInv, Costed, BlockNegative, Priced,
         NEW loc \in Locations, NEW lot \in LotsOf, NEW bin \in BinsOf,
         NEW qty \in Quantities, NEW cost \in UnitCosts \cup {NoCost},
         Receive(loc, lot, bin, qty, cost)
  PROVE  Priced'
<1> DEFINE n == TotalOnHand(stock)
           price == IF cost = NoCost THEN stock.avg ELSE cost
           paid == IF stock.method = "STANDARD" THEN stock.std
                   ELSE IF cost = NoCost THEN stock.avg ELSE cost
           r == IF stock.method = "AVERAGE" THEN n + qty ELSE 0
           w == qty * paid
<1>1. qty \in Nat \ {0} /\ moves \in Nat /\ Scale \in Nat \ {0} /\ qty <= MaxQuantity
  BY QuantityAssumption, ScaleAssumption, LargestQuantity, BoundAssumption DEF Costed
<1>2. n \in Nat /\ stock.avg \in Nat /\ n <= moves * MaxQuantity /\ LedgerMatchesBooks
  BY NoneOwed DEF Priced
<1>3. /\ Costed' /\ stock'.method = stock.method /\ stock'.std = stock.std
      /\ TotalOnHand(stock)' = n + qty /\ moves' = moves + 1
  BY ReceiptCosted
<1>4. /\ paid \in Nat /\ stock'.avg \in Nat
      /\ BookCost \in Int /\ BookCost' \in Int
      /\ stock'.value = stock.value + HalfUp(qty * paid, Scale)
      /\ 2 * (BookCost' - BookCost - qty * paid) <= r
      /\ 2 * (BookCost + qty * paid - BookCost') <= r
  BY <1>2, ReceiptBooks
<1>5. n + qty <= (moves + 1) * MaxQuantity
  BY <1>1, <1>2, MovedQuantity
<1>6. w \in Nat
  BY <1>1, <1>4
<1>7. r \in Nat /\ r <= IF stock.method = "AVERAGE" THEN (moves + 1) * MaxQuantity ELSE 0
  BY <1>1, <1>2, <1>5
<1>8. LedgerMatchesBooks'
  <2> DEFINE h == HalfUp(w, Scale)
  <2>1. stock'.value = stock.value + h /\ 2 * (BookCost' - BookCost - w) <= r
        /\ 2 * (BookCost + w - BookCost') <= r
    BY <1>4
  <2> HIDE DEF w, r, paid
  <2>2. h \in Nat /\ 2 * (Scale * h - w) <= Scale /\ 2 * (w - Scale * h) <= Scale
    BY <1>1, <1>6, HalfUpNear
  <2> HIDE DEF h
  <2>3. w \in Int /\ h \in Int
    BY <1>6, <2>2
  <2> QED BY <1>2, <1>3, <1>4, <1>7, <2>1, <2>2, <2>3, BookedMoves
<1>9. stock.method = "FIFO" => PaidCosts'
  <2> SUFFICES ASSUME stock.method = "FIFO" PROVE PaidCosts'
    OBVIOUS
  <2>1. PaidCosts /\ price \in Nat
    BY <1>2, CostAssumption DEF Priced
  <2> QED BY <2>1, ReceiptLayers
<1>10. stock.method = "STANDARD" => stock'.avg = stock.std
  BY ReceiptBooked
<1>11. TotalOnHand(stock)' <= moves' * MaxQuantity
  <2>1. MaxQuantity' = MaxQuantity
    BY DEF MaxQuantity
  <2> QED BY <1>3, <1>5
<1> QED BY <1>3, <1>4, <1>8, <1>9, <1>10, <1>11 DEF Priced, MaxQuantity

(* ... and so does an issue of what there is. *)
LEMMA IssuePriced ==
  ASSUME IInv, Costed, BlockNegative, Priced, short' = 0,
         NEW loc \in Locations, NEW lot \in LotsOf, NEW bin \in BinsOf,
         NEW qty \in Quantities, Issue(loc, lot, bin, qty)
  PROVE  Priced'
<1> DEFINE n == TotalOnHand(stock)
<1>1. qty \in Nat \ {0} /\ moves \in Nat /\ Scale \in Nat \ {0} /\ qty <= MaxQuantity
      /\ MaxQuantity \in Nat /\ stock.value \in Int
  BY QuantityAssumption, ScaleAssumption, LargestQuantity, BoundAssumption DEF Costed
<1>2. n \in Nat /\ stock.avg \in Nat /\ n <= moves * MaxQuantity /\ LedgerMatchesBooks
  BY NoneOwed DEF Priced
<1>3. /\ Costed' /\ stock'.method = stock.method /\ stock'.std = stock.std
      /\ TotalOnHand(stock)' = n - qty /\ moves' = moves + 1
  BY IssueCosted
<1>4. /\ stock'.avg = stock.avg /\ (stock.method = "FIFO" => PaidCosts')
      /\ \E w \in Nat : /\ BookCost \in Int /\ BookCost' = BookCost - w
                        /\ stock'.value = stock.value - HalfUp(w, Scale)
  BY <1>2, IssueBooks DEF Priced
<1>5. PICK w \in Nat : /\ BookCost \in Int /\ BookCost' = BookCost - w
                       /\ stock'.value = stock.value - HalfUp(w, Scale)
  BY <1>4
<1>6. n - qty <= (moves + 1) * MaxQuantity
  BY <1>1, <1>2, MovedQuantity
<1>7. LedgerMatchesBooks'
  <2> DEFINE g == HalfUp(w, Scale)
             h == -g
             u == -w
             r == 0
  <2>1. g \in Nat /\ 2 * (Scale * g - w) <= Scale /\ 2 * (w - Scale * g) <= Scale
    BY <1>1, HalfUpNear
  <2>2. stock'.value = stock.value - g
    BY <1>5
  <2> HIDE DEF g
  <2>3. h \in Int /\ u \in Int /\ stock'.value = stock.value + h
        /\ 2 * (Scale * h - u) <= Scale /\ 2 * (u - Scale * h) <= Scale
    <3> DEFINE x == Scale * g
    <3>1. x \in Nat /\ Scale * h = -x
      BY <1>1, <2>1
    <3>2. 2 * (x - w) <= Scale /\ 2 * (w - x) <= Scale
      BY <2>1
    <3> HIDE DEF x
    <3>3. 2 * (-x - u) <= Scale /\ 2 * (u - (-x)) <= Scale
      BY <1>1, <3>1, <3>2
    <3>4. stock'.value = stock.value + h
      BY <1>1, <2>1, <2>2
    <3> QED BY <2>1, <3>1, <3>3, <3>4
  <2>4. BookCost \in Int /\ BookCost' \in Int
        /\ 2 * (BookCost' - BookCost - u) <= r /\ 2 * (BookCost + u - BookCost') <= r
    BY <1>5
  <2>5. r \in Nat /\ r <= IF stock.method = "AVERAGE" THEN (moves + 1) * MaxQuantity ELSE 0
    BY <1>1
  <2> HIDE DEF h, u, r
  <2> QED BY <1>2, <1>3, <2>3, <2>4, <2>5, BookedMoves
<1>8. TotalOnHand(stock)' <= moves' * MaxQuantity
  BY <1>3, <1>6
<1>9. stock.method = "STANDARD" => stock'.avg \in {0, stock'.std}
  BY <1>3, <1>4 DEF Priced
<1> QED BY <1>2, <1>3, <1>4, <1>7, <1>8, <1>9 DEF Priced, MaxQuantity

(* What was issued without a layer is never forgotten. *)
LEMMA ShortGrows ==
  ASSUME IInv, Costed, NEW loc \in Locations, NEW lot \in LotsOf, NEW bin \in BinsOf,
         NEW qty \in Quantities, Issue(loc, lot, bin, qty), short' = 0
  PROVE  short = 0
<1>1. short \in Nat
  BY DEF Costed
<1>2. CASE stock.method = "FIFO"
  <2>1. \E missing \in 0 .. qty : short' = short + missing
    BY <1>2, IssueLayers
  <2> QED BY <1>1, <2>1
<1>3. CASE stock.method # "FIFO"
  BY <1>3 DEF Issue
<1> QED BY <1>2, <1>3

Tracks == BlockNegative /\ unedited /\ short = 0 => Priced

(* A new product is worth nothing and has nothing booked. *)
LEMMA PricedBegins == MCInit => Tracks
<1> SUFFICES ASSUME MCInit PROVE Priced
  BY DEF Tracks
<1>1. PICK m \in Methods0, std \in StandardCosts : stock = NoStock(m, std)
  BY DEF MCInit, Init
<1>2. Costed /\ moves = 0 /\ stock.method \in Methods
  BY InitCosted DEF MCInit, Init, Costed
<1>3. stock.layers = <<>> /\ stock.onhand = [l \in Locations |-> 0] /\ stock.avg = 0
      /\ stock.value = 0 /\ stock.std \in Nat
  BY <1>1, CostAssumption DEF NoStock
<1>4. stock.onhand \in [Locations -> Int] /\ \A l \in Locations : stock.onhand[l] = 0
  BY <1>3
<1>5. TotalOnHand(stock) = 0
  BY <1>4, SumZero, LocationAssumption DEF TotalOnHand
<1>6. LayerValue = 0
  <2>1. <<>> \in Seq(Layer) /\ 0 \in 0 .. Len(<<>>) /\ Len(<<>>) = 0
    OBVIOUS
  <2>2. LayerValue = WorthUpTo(<<>>, 0)
    BY <1>2, <1>3, <2>1, Tallies
  <2>3. WorthUpTo(<<>>, 0) = 0
    BY <2>1, SumsTyped
  <2> QED BY <2>2, <2>3
<1>7. BookCost = 0
  BY <1>2, <1>3, <1>5, <1>6, BooksByMethod DEF Methods
<1>8. LedgerMatchesBooks
  <2>1. RoundingSlack = 0
    BY <1>2, ScaleAssumption, LargestQuantity DEF RoundingSlack
  <2>2. Scale * stock.value - BookCost = 0
    BY <1>3, <1>7, ScaleAssumption
  <2> QED BY <2>1, <2>2 DEF LedgerMatchesBooks
<1>9. 0 * MaxQuantity = 0 /\ Len(stock.layers) = 0
  BY <1>3, LargestQuantity
<1> QED BY <1>2, <1>3, <1>5, <1>8, <1>9 DEF Priced, PaidCosts

(* Every step keeps the ledger on the track of the stock. *)
LEMMA TracksStep ==
  IInv /\ Costed /\ Forms /\ Tracks /\ [MCNext]_<<vars, edits>> => Tracks'
<1> SUFFICES ASSUME IInv, Costed, Forms, Tracks, [MCNext]_<<vars, edits>>,
                    BlockNegative, unedited', short' = 0
             PROVE  Priced'
  BY DEF Tracks
<1>1. unedited
  BY FormsStep
<1>2. short = 0 => Priced
  BY <1>1 DEF Tracks
<1>3. CASE UNCHANGED vars
  BY <1>2, <1>3 DEF vars, Priced, PaidCosts, LedgerMatchesBooks, BookCost, LayerValue,
                    RoundingSlack, TotalOnHand, MaxQuantity
<1>4. ASSUME NEW loc \in Locations, NEW lot \in LotsOf, NEW bin \in BinsOf,
             NEW qty \in Quantities, NEW cost \in UnitCosts \cup {NoCost},
             Receive(loc, lot, bin, qty, cost)
      PROVE  Priced'
  <2>1. short = 0
    BY <1>4 DEF Receive
  <2> QED BY <1>2, <1>4, <2>1, ReceiptPriced
<1>5. ASSUME NEW loc \in Locations, NEW lot \in LotsOf, NEW bin \in BinsOf,
             NEW qty \in Quantities, Issue(loc, lot, bin, qty)
      PROVE  Priced'
  <2>1. short = 0
    BY <1>5, ShortGrows
  <2> QED BY <1>2, <1>5, <2>1, IssuePriced
<1> QED BY <1>3, <1>4, <1>5, Movements

(* Until a product form is opened, and unless an issue outran the layers of its lot, the
   sum of movement values is what the stock on hand costs, to the rounding of each
   movement, for each costing method on a tenant that blocks negative stock: for any
   number of movements of any quantities at any costs. *)
THEOREM LedgerKeepsTrack == MCSpec => []LedgerTracksStock
<1>1. MCSpec => []Tracks
  BY PricedBegins, TracksStep, MCInvariance, PTL DEF MCSpec
<1>2. Tracks => LedgerTracksStock
  BY DEF Tracks, Priced, LedgerTracksStock
<1> QED BY <1>1, <1>2, PTL
=============================================================================
