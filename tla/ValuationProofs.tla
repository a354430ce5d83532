--------------------------- MODULE ValuationProofs ---------------------------
(***************************************************************************)
(* Lemmas about Rounding and Valuation, cited by the proofs of the state   *)
(* machines that move stock.                                               *)
(*                                                                         *)
(* A stock record is built by EXCEPT from another one, so the facts that   *)
(* matter are which fields a movement keeps, how it moves the total on     *)
(* hand (a sum over locations, SumTheorems) and what its rounded value is. *)
(* The loop of a FIFO issue over its layers is a fold: what it has drawn   *)
(* after each layer is an invariant of the fold's steps, proved by         *)
(* induction over the indices (Drawn, Accounted, ConsumeDraws).            *)
(***************************************************************************)
EXTENDS Valuation, SumTheorems, TLAPS

(* The columns of a stock record. *)
Fields == {"method", "std", "avg", "onhand", "lots", "bins", "layers", "value"}

(* A record whose balances are whole quantities. *)
Balanced(st) ==
  /\ DOMAIN st = Fields
  /\ st.onhand \in [Locations -> Int]
  /\ st.lots \in [Locations -> [Lots -> Int]]
  /\ st.bins \in [Locations -> [Bins -> Int]]

(* new differs from st in costing only. *)
SameBalances(new, st) ==
  /\ DOMAIN new = Fields
  /\ new.onhand = st.onhand /\ new.lots = st.lots /\ new.bins = st.bins

(* Recording the value of a movement leaves the balances alone. *)
LEMMA MovementKeepsBalances ==
  ASSUME NEW st, DOMAIN st = Fields, NEW unit, NEW value
  PROVE  SameBalances(Movement(st, unit, value).stock, st)
BY DEF Movement, Fields, SameBalances

(* So does a new average or a new list of layers. *)
LEMMA CostingKeepsBalances ==
  ASSUME NEW st, DOMAIN st = Fields, NEW avg, NEW layers
  PROVE  /\ SameBalances([st EXCEPT !.avg = avg, !.layers = layers], st)
         /\ SameBalances([st EXCEPT !.layers = layers], st)
BY DEF Fields, SameBalances

(* A movement adds its quantity to the rows it names, and to no other. *)
LEMMA RebalanceMoves ==
  ASSUME NEW st, Balanced(st),
         NEW loc \in Locations, NEW lot, NEW bin, NEW delta \in Int
  PROVE  LET new == Rebalance(st, loc, lot, bin, delta)
         IN  /\ Balanced(new)
             /\ \A l \in Locations : new.onhand[l] =
                  IF l = loc THEN st.onhand[l] + delta ELSE st.onhand[l]
             /\ \A l \in Locations, k \in Lots : new.lots[l][k] =
                  IF l = loc /\ k = lot THEN st.lots[l][k] + delta ELSE st.lots[l][k]
             /\ \A l \in Locations, b \in Bins : new.bins[l][b] =
                  IF l = loc /\ b = bin THEN st.bins[l][b] + delta ELSE st.bins[l][b]
BY DEF Rebalance, Fields, Balanced

(* An inbound movement moves the balances as Rebalance does: whatever the costing
   method, valuation never touches a quantity. *)
LEMMA InboundBalances ==
  ASSUME NEW st, Balanced(st),
         NEW loc \in Locations, NEW lot, NEW bin, NEW qty \in Int, NEW cost
  PROVE  SameBalances(Inbound(st, loc, lot, bin, qty, cost).stock,
                      Rebalance(st, loc, lot, bin, qty))
<1> DEFINE moved == Rebalance(st, loc, lot, bin, qty)
<1>1. DOMAIN moved = Fields BY RebalanceMoves DEF Balanced
<1> HIDE DEF moved
<1>2. \A avg, layers, unit, value : 
         SameBalances(Movement([moved EXCEPT !.avg = avg, !.layers = layers], unit, value).stock, moved)
  <2> TAKE avg, layers, unit, value
  <2> DEFINE costed == [moved EXCEPT !.avg = avg, !.layers = layers]
  <2>1. SameBalances(costed, moved) BY <1>1, CostingKeepsBalances
  <2> HIDE DEF costed
  <2>2. SameBalances(Movement(costed, unit, value).stock, costed)
    BY <2>1, MovementKeepsBalances DEF SameBalances
  <2>3. SameBalances(Movement(costed, unit, value).stock, moved)
    BY <2>1, <2>2 DEF SameBalances
  <2> QED BY <2>3 DEF costed
<1>3. QED BY <1>2 DEF Inbound, moved

(* The same of an outbound movement. *)
LEMMA OutboundBalances ==
  ASSUME NEW st, Balanced(st),
         NEW loc \in Locations, NEW lot, NEW bin, NEW qty \in Int
  PROVE  SameBalances(Outbound(st, loc, lot, bin, qty).stock,
                      Rebalance(st, loc, lot, bin, -qty))
<1> DEFINE moved == Rebalance(st, loc, lot, bin, -qty)
<1>1. DOMAIN moved = Fields BY RebalanceMoves DEF Balanced
<1> HIDE DEF moved
<1>2. \A layers, unit, value :
        SameBalances(Movement([moved EXCEPT !.layers = layers], unit, value).stock, moved)
  <2> TAKE layers, unit, value
  <2> DEFINE costed == [moved EXCEPT !.layers = layers]
  <2>1. SameBalances(costed, moved) BY <1>1, CostingKeepsBalances
  <2> HIDE DEF costed
  <2>2. SameBalances(Movement(costed, unit, value).stock, costed)
    BY <2>1, MovementKeepsBalances DEF SameBalances
  <2>3. SameBalances(Movement(costed, unit, value).stock, moved)
    BY <2>1, <2>2 DEF SameBalances
  <2> QED BY <2>3 DEF costed
<1>3. \A unit, value : SameBalances(Movement(moved, unit, value).stock, moved)
  BY <1>1, MovementKeepsBalances
<1>4. QED BY <1>2, <1>3 DEF Outbound, moved

(* The total on hand of a product is a sum of integers. *)
LEMMA TotalTyped ==
  ASSUME NEW st, Balanced(st)
  PROVE  /\ TotalOnHand(st) \in Int
         /\ (\A l \in Locations : st.onhand[l] >= 0) => TotalOnHand(st) \in Nat
<1>1. st.onhand \in [Locations -> Int] BY DEF Balanced
<1>2. (\A l \in Locations : st.onhand[l] >= 0) => st.onhand \in [Locations -> Nat] BY <1>1
<1>3. QED BY <1>1, <1>2, SumInteger, SumNatural, LocationAssumption DEF TotalOnHand

(* A movement of delta units changes it by delta, wherever it moves them. *)
LEMMA RebalanceTotal ==
  ASSUME NEW st, Balanced(st), NEW loc \in Locations, NEW lot, NEW bin, NEW delta \in Int,
         NEW new, SameBalances(new, Rebalance(st, loc, lot, bin, delta))
  PROVE  /\ Balanced(new)
         /\ \A l \in Locations : new.onhand[l] =
              IF l = loc THEN st.onhand[l] + delta ELSE st.onhand[l]
         /\ TotalOnHand(new) = TotalOnHand(st) + delta
<1> DEFINE moved == Rebalance(st, loc, lot, bin, delta)
<1>1. /\ Balanced(moved)
      /\ \A l \in Locations : moved.onhand[l] =
           IF l = loc THEN st.onhand[l] + delta ELSE st.onhand[l]
  BY RebalanceMoves
<1> HIDE DEF moved
<1>2. /\ Balanced(new)
      /\ \A l \in Locations : new.onhand[l] =
           IF l = loc THEN st.onhand[l] + delta ELSE st.onhand[l]
  BY <1>1 DEF SameBalances, Balanced, moved
<1>3. st.onhand \in [Locations -> Int] /\ new.onhand \in [Locations -> Int]
  BY <1>2 DEF Balanced
<1>4. \A l \in Locations \ {loc} : new.onhand[l] = st.onhand[l] BY <1>2
<1>5. TotalOnHand(new) = TotalOnHand(st) + new.onhand[loc] - st.onhand[loc]
  BY <1>3, <1>4, SumUpdate, LocationAssumption DEF TotalOnHand
<1>6. TotalOnHand(st) \in Int /\ st.onhand[loc] \in Int BY <1>3, TotalTyped
<1>7. new.onhand[loc] = st.onhand[loc] + delta BY <1>2
<1>8. QED BY <1>2, <1>5, <1>6, <1>7
-----------------------------------------------------------------------------
(* ROUND_HALF_UP of an amount is an amount within half a unit of it. *)
LEMMA HalfUpNear ==
  ASSUME NEW n \in Nat, NEW d \in Nat \ {0}
  PROVE  /\ HalfUp(n, d) \in Nat
         /\ 2 * (d * HalfUp(n, d) - n) <= d
         /\ 2 * (n - d * HalfUp(n, d)) <= d
<1> DEFINE q == (2 * n + d) \div (2 * d)
<1>1. HalfUp(n, d) = q BY DEF HalfUp, Nearest
<1>2. 2 * n + d \in Nat /\ 2 * d \in Nat \ {0} OBVIOUS
<1>3. \A a \in Nat, b \in Nat \ {0} :
        a \div b \in Nat /\ b * (a \div b) <= a /\ a < b * (a \div b) + b
  OBVIOUS
<1>4. q \in Nat /\ (2 * d) * q <= 2 * n + d /\ 2 * n + d < (2 * d) * q + 2 * d
  BY <1>2, <1>3
<1> HIDE DEF q
<1>5. (2 * d) * q = 2 * (d * q) BY <1>4
<1>6. d * q \in Nat BY <1>4
<1>7. QED BY <1>1, <1>4, <1>5, <1>6

(* So is ROUND_HALF_EVEN. *)
LEMMA HalfEvenNear ==
  ASSUME NEW n \in Nat, NEW d \in Nat \ {0}
  PROVE  /\ HalfEven(n, d) \in Nat
         /\ 2 * (d * HalfEven(n, d) - n) <= d
         /\ 2 * (n - d * HalfEven(n, d)) <= d
<1> DEFINE q == n \div d
<1> DEFINE r == n - q * d
<1>1. q \in Nat /\ d * q <= n /\ n < d * q + d OBVIOUS
<1>2. HalfEven(n, d) = IF 2 * r > d \/ (2 * r = d /\ q % 2 = 1) THEN q + 1 ELSE q
  BY DEF HalfEven
<1> HIDE DEF q
<1>3. d * q \in Nat /\ q * d = d * q /\ d * (q + 1) = d * q + d BY <1>1
<1>4. r \in Nat /\ r = n - d * q BY <1>1, <1>3
<1> HIDE DEF r
<1>5. CASE 2 * r > d \/ (2 * r = d /\ q % 2 = 1)
  <2>1. HalfEven(n, d) = q + 1 BY <1>2, <1>5
  <2>2. 2 * r >= d BY <1>5, <1>4
  <2>3. QED BY <2>1, <2>2, <1>1, <1>3, <1>4
<1>6. CASE ~(2 * r > d \/ (2 * r = d /\ q % 2 = 1))
  <2>1. HalfEven(n, d) = q BY <1>2, <1>6
  <2>2. 2 * r <= d BY <1>6, <1>4
  <2>3. QED BY <2>1, <2>2, <1>1, <1>3, <1>4
<1>7. QED BY <1>5, <1>6

-----------------------------------------------------------------------------
(* new differs from st in its balances only. *)
SameCosting(new, st) ==
  /\ DOMAIN new = Fields
  /\ new.method = st.method /\ new.std = st.std /\ new.avg = st.avg /\ new.value = st.value

(* Balances move without touching the costing of the product. *)
LEMMA RebalanceKeepsCosting ==
  ASSUME NEW st, DOMAIN st = Fields, NEW loc, NEW lot, NEW bin, NEW delta
  PROVE  SameCosting(Rebalance(st, loc, lot, bin, delta), st)
BY DEF Rebalance, Fields, SameCosting

(* The moving average of amounts is an amount, while no more is owed than is on
   hand in total. *)
LEMMA AverageTyped ==
  ASSUME NEW st, TotalOnHand(st) \in Nat, st.avg \in Nat, NEW qty \in Nat, NEW cost \in Nat
  PROVE  MovingAverage(st, qty, cost) \in Nat
<1> DEFINE prior == TotalOnHand(st)
           spent == prior * st.avg + qty * cost
<1>1. MovingAverage(st, qty, cost) = IF prior + qty > 0 THEN HalfUp(spent, prior + qty) ELSE st.avg
  BY DEF MovingAverage
<1>2. prior * st.avg \in Nat /\ qty * cost \in Nat /\ prior + qty \in Nat OBVIOUS
<1>3. spent \in Nat BY <1>2
<1> DEFINE total == prior + qty
<1> HIDE DEF prior, spent
<1>4. total > 0 => HalfUp(spent, total) \in Nat
  <2>1. total > 0 => total \in Nat \ {0} BY <1>2
  <2> HIDE DEF total
  <2>2. QED BY <1>3, <2>1, HalfUpNear
<1>5. QED BY <1>1, <1>4

(* An inbound movement adds its value to the subledger.  It is valued at the
   standard cost of a STANDARD product, whose average becomes that cost, and at
   the given unit cost of any other. *)
LEMMA InboundCosting ==
  ASSUME NEW st, DOMAIN st = Fields, NEW loc, NEW lot, NEW bin, NEW qty, NEW cost
  PROVE  LET in == Inbound(st, loc, lot, bin, qty, cost)
         IN  /\ DOMAIN in.stock = Fields
             /\ in.stock.method = st.method /\ in.stock.std = st.std
             /\ in.stock.value = st.value + in.value
             /\ st.method = "STANDARD" =>
                  in.stock.avg = st.std /\ in.value = HalfUp(qty * st.std, Scale)
             /\ st.method # "STANDARD" =>
                  /\ in.stock.avg = IF cost = NoCost THEN st.avg ELSE MovingAverage(st, qty, cost)
                  /\ in.value = HalfUp(qty * (IF cost = NoCost THEN st.avg ELSE cost), Scale)
<1> DEFINE moved == Rebalance(st, loc, lot, bin, qty)
<1>1. SameCosting(moved, st) BY RebalanceKeepsCosting
<1> HIDE DEF moved
<1> DEFINE costIn == IF st.method = "STANDARD" THEN st.std
                     ELSE IF cost = NoCost THEN st.avg ELSE cost
           newAvg == IF st.method = "STANDARD" THEN st.std
                     ELSE IF cost = NoCost THEN st.avg ELSE MovingAverage(st, qty, cost)
           layer  == [loc |-> loc, lot |-> lot, got |-> qty, left |-> qty, cost |-> costIn]
           layers == IF st.method = "FIFO" THEN Append(st.layers, layer) ELSE st.layers
           value  == HalfUp(qty * costIn, Scale)
           costed == [moved EXCEPT !.avg = newAvg, !.layers = layers]
           in     == Inbound(st, loc, lot, bin, qty, cost)
<1>2. in = Movement(costed, costIn, value) BY DEF Inbound, moved
<1>3. /\ st.method = "STANDARD" => newAvg = st.std /\ value = HalfUp(qty * st.std, Scale)
      /\ st.method # "STANDARD" =>
            /\ newAvg = IF cost = NoCost THEN st.avg ELSE MovingAverage(st, qty, cost)
            /\ value = HalfUp(qty * (IF cost = NoCost THEN st.avg ELSE cost), Scale)
  OBVIOUS
<1> HIDE DEF newAvg, layers, costIn, value, in
<1>4. /\ DOMAIN costed = Fields /\ costed.method = st.method /\ costed.std = st.std
      /\ costed.avg = newAvg /\ costed.value = st.value
  BY <1>1 DEF SameCosting, Fields
<1> HIDE DEF costed
<1>5. /\ DOMAIN in.stock = Fields
      /\ in.stock.method = st.method /\ in.stock.std = st.std
      /\ in.stock.avg = newAvg /\ in.value = value
      /\ in.stock.value = st.value + value
  BY <1>2, <1>4 DEF Movement, Fields
<1>6. /\ DOMAIN in.stock = Fields
      /\ in.stock.method = st.method /\ in.stock.std = st.std
      /\ in.stock.value = st.value + in.value
      /\ st.method = "STANDARD" =>
           in.stock.avg = st.std /\ in.value = HalfUp(qty * st.std, Scale)
      /\ st.method # "STANDARD" =>
           /\ in.stock.avg = IF cost = NoCost THEN st.avg ELSE MovingAverage(st, qty, cost)
           /\ in.value = HalfUp(qty * (IF cost = NoCost THEN st.avg ELSE cost), Scale)
  BY <1>3, <1>5
<1>7. QED BY <1>6 DEF in

(* An outbound movement of a product that is not FIFO: it keeps the average and
   is valued at standard cost, or at the average of an AVERAGE product. *)
LEMMA OutboundCosting ==
  ASSUME NEW st, DOMAIN st = Fields, st.method # "FIFO",
         NEW loc, NEW lot, NEW bin, NEW qty
  PROVE  LET out == Outbound(st, loc, lot, bin, qty)
         IN  /\ DOMAIN out.stock = Fields
             /\ out.stock.method = st.method /\ out.stock.std = st.std
             /\ out.stock.avg = st.avg
             /\ out.stock.value = st.value + out.value
             /\ out.unit = IF st.method = "STANDARD" /\ st.std # 0 THEN st.std ELSE st.avg
             /\ out.value = -HalfUp(qty * out.unit, Scale)
<1> DEFINE moved == Rebalance(st, loc, lot, bin, -qty)
<1>1. SameCosting(moved, st) BY RebalanceKeepsCosting
<1> HIDE DEF moved
<1>2. ASSUME NEW unit, NEW value
      PROVE  LET out == Movement(moved, unit, value)
             IN  /\ DOMAIN out.stock = Fields
                 /\ out.stock.method = st.method /\ out.stock.std = st.std
                 /\ out.stock.avg = st.avg /\ out.stock.value = st.value + value
                 /\ out.unit = unit /\ out.value = value
  BY <1>1 DEF Movement, Fields, SameCosting
<1>3. QED BY <1>2 DEF Outbound, moved

-----------------------------------------------------------------------------
(* The layers of a FIFO product hold a part of what they received. *)
LayersTyped(layers) ==
  /\ layers \in Seq(Layer)
  /\ \A i \in 1 .. Len(layers) : layers[i].left \in 1 .. layers[i].got

(* A layer is whole while an older one of its lot is there. *)
OldestFirst(layers) ==
  \A i, j \in 1 .. Len(layers) :
    (i < j /\ layers[i].loc = layers[j].loc /\ layers[i].lot = layers[j].lot)
      => layers[j].left = layers[j].got

(* What the first n layers hold at a location, and what they are worth. *)
LeftUpTo(layers, l, n) ==
  SumFunction([i \in 1 .. n |-> IF layers[i].loc = l THEN layers[i].left ELSE 0])
WorthUpTo(layers, n) == SumFunction([i \in 1 .. n |-> layers[i].left * layers[i].cost])

(* The loop of _consume_fifo_layers, with what taken gives for one layer less. *)
TakeStep(taken, layers, loc, lot, qty, i) ==
  IF i = 0 THEN [short |-> qty, cost |-> 0, layers |-> <<>>]
  ELSE TakeFromLayer(taken[i - 1], layers[i], loc, lot)

(* The loop has a solution. *)
LEMMA TakenExists ==
  ASSUME NEW layers, NEW loc, NEW lot, NEW qty, NEW n \in Nat
  PROVE  \E t : t = [i \in 0 .. n |-> TakeStep(t, layers, loc, lot, qty, i)]
<1> DEFINE T(t, i) == TakeStep(t, layers, loc, lot, qty, i)
           Q == {m \in 0 .. n : \E t : t = [i \in 0 .. m |-> T(t, i)]}
<1>1. 0 \in Q
  <2> DEFINE base == [short |-> qty, cost |-> 0, layers |-> <<>>]
             t == [i \in 0 .. 0 |-> base]
  <2>1. \A i \in 0 .. 0 : i = 0
    OBVIOUS
  <2>2. \A i \in 0 .. 0 : T(t, i) = base
    BY <2>1 DEF TakeStep
  <2> HIDE DEF base
  <2>3. t = [i \in 0 .. 0 |-> T(t, i)]
    BY <2>2
  <2> QED BY <2>3
<1>2. ASSUME NEW m \in 1 .. n, m - 1 \in Q PROVE m \in Q
  <2>1. PICK t : t = [i \in 0 .. (m - 1) |-> T(t, i)]
    BY <1>2
  <2> DEFINE u == [i \in 0 .. m |-> IF i = m THEN T(t, m) ELSE t[i]]
  <2>2. ASSUME NEW i \in 0 .. m PROVE u[i] = T(u, i)
    <3>1. CASE i = 0
      <4>1. u[i] = t[i] /\ i \in 0 .. (m - 1)
        BY <3>1
      <4>2. t[i] = T(t, i)
        BY <2>1, <4>1
      <4> QED BY <3>1, <4>1, <4>2 DEF TakeStep
    <3>2. CASE i \in 1 .. m
      <4>1. i - 1 \in 0 .. m /\ i - 1 # m /\ i # 0
        BY <3>2
      <4>2. u[i - 1] = t[i - 1]
        BY <4>1
      <4>3. T(u, i) = T(t, i)
        BY <4>1, <4>2 DEF TakeStep
      <4>4. u[i] = T(t, i)
        <5>1. i # m => i \in 0 .. (m - 1)
          BY <3>2
        <5>2. i # m => t[i] = T(t, i)
          BY <2>1, <5>1
        <5> QED BY <5>2
      <4> QED BY <4>3, <4>4
    <3> QED BY <3>1, <3>2
  <2>3. u = [i \in 0 .. m |-> T(u, i)]
    BY <2>2
  <2> HIDE DEF u
  <2>4. m \in 0 .. n
    BY <1>2
  <2> QED BY <2>3, <2>4
<1>3. n \in Q
  <2>1. n \in 0 .. n
    OBVIOUS
  <2> HIDE DEF Q
  <2> QED BY <1>1, <1>2, <2>1, IndexInduction
<1> QED BY <1>3

(* What is consumed is the last value of the loop, and each value follows from
   the one before. *)
LEMMA ConsumeLoop ==
  ASSUME NEW layers, Len(layers) \in Nat, NEW loc, NEW lot, NEW qty
  PROVE  \E t : /\ ConsumeLayers(layers, loc, lot, qty) = t[Len(layers)]
                /\ t[0] = [short |-> qty, cost |-> 0, layers |-> <<>>]
                /\ \A i \in 1 .. Len(layers) : t[i] = TakeFromLayer(t[i - 1], layers[i], loc, lot)
<1> DEFINE n == Len(layers)
           T(t, i) == TakeStep(t, layers, loc, lot, qty, i)
           taken == CHOOSE t : t = [i \in 0 .. n |-> T(t, i)]
<1>1. ConsumeLayers(layers, loc, lot, qty) = taken[n]
  BY DEF ConsumeLayers, TakeStep
<1>2. taken = [i \in 0 .. n |-> T(taken, i)]
  BY TakenExists
<1> HIDE DEF taken
<1>3. \A i \in 0 .. n : taken[i] = T(taken, i)
  BY <1>2
<1>4. 0 \in 0 .. n /\ \A i \in 1 .. n : i \in 0 .. n /\ i # 0
  OBVIOUS
<1>5. taken[0] = [short |-> qty, cost |-> 0, layers |-> <<>>]
  BY <1>3, <1>4 DEF TakeStep
<1>6. \A i \in 1 .. n : taken[i] = TakeFromLayer(taken[i - 1], layers[i], loc, lot)
  BY <1>3, <1>4 DEF TakeStep
<1> QED BY <1>1, <1>5, <1>6

(* One layer more in the sums. *)
LEMMA SumsExtend ==
  ASSUME NEW layers \in Seq(Layer), NEW n \in Nat, n + 1 <= Len(layers), NEW l
  PROVE  /\ LeftUpTo(layers, l, n) \in Int /\ WorthUpTo(layers, n) \in Int
         /\ LeftUpTo(layers, l, n + 1)
              = LeftUpTo(layers, l, n) + IF layers[n + 1].loc = l THEN layers[n + 1].left ELSE 0
         /\ WorthUpTo(layers, n + 1)
              = WorthUpTo(layers, n) + layers[n + 1].left * layers[n + 1].cost
<1> DEFINE L(i) == IF layers[i].loc = l THEN layers[i].left ELSE 0
           W(i) == layers[i].left * layers[i].cost
<1>1. ASSUME NEW i \in 1 .. n + 1
      PROVE  layers[i].left \in Int /\ layers[i].cost \in Int /\ L(i) \in Int /\ W(i) \in Int
  <2>1. layers[i] \in Layer
    <3>1. i \in 1 .. Len(layers)
      OBVIOUS
    <3> QED BY <3>1
  <2>2. layers[i].left \in Int /\ layers[i].cost \in Int
    BY <2>1 DEF Layer
  <2> QED BY <2>2
<1> DEFINE f == [i \in 1 .. n + 1 |-> L(i)]
           h == [i \in 1 .. n |-> L(i)]
           v == [i \in 1 .. n + 1 |-> W(i)]
           w == [i \in 1 .. n |-> W(i)]
<1>2. f \in [1 .. n + 1 -> Int] /\ h \in [1 .. n -> Int] /\ (\A i \in 1 .. n : h[i] = f[i])
      /\ f[n + 1] = L(n + 1)
  BY <1>1
<1>3. v \in [1 .. n + 1 -> Int] /\ w \in [1 .. n -> Int] /\ (\A i \in 1 .. n : w[i] = v[i])
      /\ v[n + 1] = W(n + 1)
  BY <1>1, SMTT(30)
<1>4. /\ LeftUpTo(layers, l, n) = SumFunction(h) /\ LeftUpTo(layers, l, n + 1) = SumFunction(f)
      /\ WorthUpTo(layers, n) = SumFunction(w) /\ WorthUpTo(layers, n + 1) = SumFunction(v)
  BY DEF LeftUpTo, WorthUpTo
<1>5. IsFiniteSet(1 .. n)
  BY FS_Interval
<1> HIDE DEF f, h, v, w
<1>6. SumFunction(h) \in Int /\ SumFunction(w) \in Int
  BY <1>2, <1>3, <1>5, SumInteger
<1>7. SumFunction(f) = SumFunction(h) + f[n + 1]
  BY <1>2, SumExtend
<1>8. SumFunction(v) = SumFunction(w) + v[n + 1]
  BY <1>3, SumExtend
<1> QED BY <1>2, <1>3, <1>4, <1>6, <1>7, <1>8

(* Sums of nothing, and of all the layers. *)
LEMMA SumsTyped ==
  ASSUME NEW layers \in Seq(Layer), NEW n \in 0 .. Len(layers), NEW l
  PROVE  /\ LeftUpTo(layers, l, n) \in Int /\ WorthUpTo(layers, n) \in Int
         /\ n = 0 => LeftUpTo(layers, l, n) = 0 /\ WorthUpTo(layers, n) = 0
<1> DEFINE L(i) == IF layers[i].loc = l THEN layers[i].left ELSE 0
           W(i) == layers[i].left * layers[i].cost
           h == [i \in 1 .. n |-> L(i)]
           w == [i \in 1 .. n |-> W(i)]
<1>1. ASSUME NEW i \in 1 .. n
      PROVE  L(i) \in Int /\ W(i) \in Int
  <2>1. layers[i] \in Layer
    <3>1. i \in 1 .. Len(layers)
      OBVIOUS
    <3> QED BY <3>1
  <2>2. layers[i].left \in Int /\ layers[i].cost \in Int
    BY <2>1 DEF Layer
  <2> QED BY <2>2
<1>2. h \in [1 .. n -> Int] /\ w \in [1 .. n -> Int] /\ IsFiniteSet(1 .. n)
  BY <1>1, FS_Interval
<1>3. n = 0 => (\A i \in 1 .. n : h[i] = 0) /\ (\A i \in 1 .. n : w[i] = 0)
  OBVIOUS
<1>4. LeftUpTo(layers, l, n) = SumFunction(h) /\ WorthUpTo(layers, n) = SumFunction(w)
  BY DEF LeftUpTo, WorthUpTo
<1> HIDE DEF h, w
<1>5. SumFunction(h) \in Int /\ SumFunction(w) \in Int
  BY <1>2, SumInteger
<1>6. n = 0 => SumFunction(h) = 0 /\ SumFunction(w) = 0
  BY <1>2, <1>3, SumZero
<1> QED BY <1>4, <1>5, <1>6

(* Sums over the layers with one appended. *)
LEMMA SumsAppend ==
  ASSUME NEW s \in Seq(Layer), NEW y \in Layer, NEW l
  PROVE  /\ LeftUpTo(Append(s, y), l, Len(s) + 1)
              = LeftUpTo(s, l, Len(s)) + IF y.loc = l THEN y.left ELSE 0
         /\ WorthUpTo(Append(s, y), Len(s) + 1) = WorthUpTo(s, Len(s)) + y.left * y.cost
<1> DEFINE t == Append(s, y)  n == Len(s)
<1>1. t \in Seq(Layer) /\ Len(t) = n + 1 /\ n \in Nat /\ t[n + 1] = y
      /\ \A i \in 1 .. n : t[i] = s[i]
  OBVIOUS
<1> HIDE DEF t, n
<1>2. LeftUpTo(t, l, n) = LeftUpTo(s, l, n)
  BY <1>1 DEF LeftUpTo
<1>3. WorthUpTo(t, n) = WorthUpTo(s, n)
  BY <1>1 DEF WorthUpTo
<1>4. /\ LeftUpTo(t, l, n + 1)
           = LeftUpTo(t, l, n) + IF t[n + 1].loc = l THEN t[n + 1].left ELSE 0
      /\ WorthUpTo(t, n + 1) = WorthUpTo(t, n) + t[n + 1].left * t[n + 1].cost
  BY <1>1, SumsExtend
<1> QED BY <1>1, <1>2, <1>3, <1>4 DEF t, n

(* What the loop has done after i layers: taken qty - short units of loc, and kept what
   is left of the layers in their order.  While it still wants some, no layer it kept
   could have given it any. *)
Drawn(layers, loc, lot, qty, i, acc) ==
  /\ acc.short \in 0 .. qty /\ acc.cost \in Int
  /\ LayersTyped(acc.layers) /\ OldestFirst(acc.layers)
  /\ \A a \in 1 .. Len(acc.layers) : \E k \in 1 .. i :
       acc.layers[a].loc = layers[k].loc /\ acc.layers[a].lot = layers[k].lot
  /\ acc.short > 0 => \A a \in 1 .. Len(acc.layers) : ~ Feeds(acc.layers[a], loc, lot)

(* The sums it has reached. *)
Accounted(layers, loc, qty, i, acc) ==
  /\ \A l : LeftUpTo(acc.layers, l, Len(acc.layers))
             = LeftUpTo(layers, l, i) - IF l = loc THEN qty - acc.short ELSE 0
  /\ WorthUpTo(acc.layers, Len(acc.layers)) = WorthUpTo(layers, i) - acc.cost
  /\ (\A k \in 1 .. Len(layers) : layers[k].cost \in Nat) =>
       acc.cost \in Nat /\ \A a \in 1 .. Len(acc.layers) : acc.layers[a].cost \in Nat

(* What it takes of one layer. *)
Share(acc, layer, loc, lot) ==
  IF ~ Feeds(layer, loc, lot) THEN 0
  ELSE IF acc.short < layer.left THEN acc.short ELSE layer.left

(* What it leaves of one. *)
Rest(layer, take) == [layer EXCEPT !.left = layer.left - take]

(* A turn of the loop. *)
LEMMA ShareTaken ==
  ASSUME NEW acc, acc.short \in Nat, NEW layer \in Layer, layer.left \in 1 .. layer.got,
         NEW loc, NEW lot, NEW take, take = Share(acc, layer, loc, lot),
         NEW next, next = TakeFromLayer(acc, layer, loc, lot)
  PROVE  /\ take \in 0 .. layer.left /\ take <= acc.short
         /\ take > 0 => Feeds(layer, loc, lot)
         /\ Feeds(layer, loc, lot) /\ take # layer.left => take = acc.short
         /\ next.short = acc.short - take
         /\ next.cost = acc.cost + take * layer.cost
         /\ take = layer.left => next.layers = acc.layers
         /\ take # layer.left =>
              next.layers = Append(acc.layers, Rest(layer, take))
<1>1. layer.left \in Nat
  BY DEF Layer
<1> QED BY <1>1 DEF TakeFromLayer, Share, Rest

(* A layer the loop has looked at. *)
LEMMA DrawnStep ==
  ASSUME NEW layers, LayersTyped(layers), OldestFirst(layers), NEW loc, NEW lot, NEW qty \in Nat,
         NEW i \in 1 .. Len(layers), NEW acc, Drawn(layers, loc, lot, qty, i - 1, acc)
  PROVE  Drawn(layers, loc, lot, qty, i, TakeFromLayer(acc, layers[i], loc, lot))
<1> SUFFICES ASSUME NEW layer, layer = layers[i], NEW take, take = Share(acc, layer, loc, lot),
                    NEW next, next = TakeFromLayer(acc, layer, loc, lot)
             PROVE  Drawn(layers, loc, lot, qty, i, next)
  OBVIOUS
<1> DEFINE rest == Rest(layer, take)
           s == acc.layers
<1>0. Len(layers) \in Nat /\ i \in Nat
  BY DEF LayersTyped
<1>1. layer \in Layer /\ layer.left \in 1 .. layer.got /\ layer.left \in Nat /\ layer.got \in Nat
      /\ layer.cost \in Int
  <2>1. layer \in Layer /\ layer.left \in 1 .. layer.got
    BY DEF LayersTyped
  <2> QED BY <2>1 DEF Layer
<1>2. acc.short \in Nat /\ acc.short <= qty /\ acc.cost \in Int /\ s \in Seq(Layer)
      /\ (\A a \in 1 .. Len(s) : s[a].left \in 1 .. s[a].got)
  BY DEF Drawn, LayersTyped
<1>3. /\ take \in 0 .. layer.left /\ take <= acc.short
      /\ take > 0 => Feeds(layer, loc, lot)
      /\ Feeds(layer, loc, lot) /\ take # layer.left => take = acc.short
      /\ next.short = acc.short - take
      /\ next.cost = acc.cost + take * layer.cost
      /\ take = layer.left => next.layers = s
      /\ take # layer.left => next.layers = Append(s, rest)
  <2>1. acc.short \in Nat /\ layer \in Layer /\ layer.left \in 1 .. layer.got
    BY <1>1, <1>2
  <2> QED BY <2>1, ShareTaken, SMTT(30)
<1>4. \A a \in 1 .. Len(s) : \E k \in 1 .. (i - 1) :
        s[a].loc = layers[k].loc /\ s[a].lot = layers[k].lot
  BY DEF Drawn
<1>5. OldestFirst(s) /\ (acc.short > 0 => \A a \in 1 .. Len(s) : ~ Feeds(s[a], loc, lot))
  BY DEF Drawn
<1>6. rest \in Layer /\ rest.loc = layer.loc /\ rest.lot = layer.lot /\ rest.got = layer.got
      /\ rest.left = layer.left - take /\ (take # layer.left => rest.left \in 1 .. rest.got)
      /\ (Feeds(rest, loc, lot) <=> Feeds(layer, loc, lot))
  BY <1>1, <1>3 DEF Layer, Feeds, Rest
<1>7. \A a \in 1 .. Len(s) : s[a].loc = layer.loc /\ s[a].lot = layer.lot =>
        layer.left = layer.got /\ take = 0
  <2> SUFFICES ASSUME NEW a \in 1 .. Len(s), s[a].loc = layer.loc, s[a].lot = layer.lot
               PROVE  layer.left = layer.got /\ take = 0
    OBVIOUS
  <2>1. PICK k \in 1 .. (i - 1) : s[a].loc = layers[k].loc /\ s[a].lot = layers[k].lot
    BY <1>4
  <2>2. layer.left = layer.got
    <3>1. k \in 1 .. Len(layers) /\ k < i
      BY <1>0
    <3> QED BY <2>1, <3>1 DEF OldestFirst
  <2>3. acc.short = 0 \/ ~ Feeds(layer, loc, lot)
    BY <1>2, <1>5 DEF Feeds
  <2>4. take = 0
    BY <2>3, <1>1, <1>2 DEF Share
  <2> QED BY <2>2, <2>4
<1>8. \A a \in 1 .. Len(s) : \E k \in 1 .. i :
        s[a].loc = layers[k].loc /\ s[a].lot = layers[k].lot
  <2> TAKE a \in 1 .. Len(s)
  <2>1. PICK k \in 1 .. (i - 1) : s[a].loc = layers[k].loc /\ s[a].lot = layers[k].lot
    BY <1>4
  <2>2. k \in 1 .. i
    OBVIOUS
  <2> QED BY <2>1, <2>2
<1>9. next.short \in 0 .. qty /\ next.cost \in Int
  <2>1. take \in Int /\ take * layer.cost \in Int
    BY <1>1, <1>3
  <2> QED BY <1>2, <1>3, <2>1
<1>10. CASE take = layer.left
  <2>1. next.layers = s
    BY <1>3, <1>10
  <2>2. LayersTyped(s)
    BY DEF Drawn
  <2>3. next.short > 0 => acc.short > 0
    BY <1>2, <1>3
  <2> HIDE DEF s
  <2> QED BY <2>1, <2>2, <2>3, <1>5, <1>8, <1>9 DEF Drawn
<1>11. CASE take # layer.left
  <2> DEFINE t == Append(s, rest)
  <2>1. next.layers = t
    BY <1>3, <1>11
  <2> HIDE DEF rest, s
  <2>2. t \in Seq(Layer) /\ Len(t) = Len(s) + 1 /\ Len(s) \in Nat /\ t[Len(s) + 1] = rest
        /\ \A a \in 1 .. Len(s) : t[a] = s[a]
    BY <1>2, <1>6
  <2> HIDE DEF t
  <2>3. LayersTyped(t)
    BY <2>2, <1>2, <1>6, <1>11, SMTT(30) DEF LayersTyped
  <2>4. OldestFirst(t)
    <3> SUFFICES ASSUME NEW a \in 1 .. Len(t), NEW b \in 1 .. Len(t),
                        a < b, t[a].loc = t[b].loc, t[a].lot = t[b].lot
                 PROVE  t[b].left = t[b].got
      BY DEF OldestFirst
    <3>1. a \in 1 .. Len(s) /\ t[a] = s[a]
      BY <2>2
    <3>2. CASE b \in 1 .. Len(s)
      <4>1. t[b] = s[b]
        BY <2>2, <3>2
      <4> QED BY <3>1, <3>2, <4>1, <1>5 DEF OldestFirst
    <3>3. CASE b = Len(s) + 1
      <4>1. t[b] = rest
        BY <2>2, <3>3
      <4>2. s[a].loc = layer.loc /\ s[a].lot = layer.lot
        BY <3>1, <4>1, <1>6
      <4>3. layer.left = layer.got /\ take = 0
        BY <4>2, <3>1, <1>7, <1>11
      <4>4. layer.left - take = layer.left
        BY <4>3, <1>1
      <4> QED BY <4>1, <4>3, <4>4, <1>6
    <3> QED BY <2>2, <3>2, <3>3
  <2>5. \A a \in 1 .. Len(t) : \E k \in 1 .. i :
          t[a].loc = layers[k].loc /\ t[a].lot = layers[k].lot
    <3> TAKE a \in 1 .. Len(t)
    <3>1. CASE a \in 1 .. Len(s)
      BY <3>1, <2>2, <1>8
    <3>2. CASE a = Len(s) + 1
      <4>1. t[a].loc = layers[i].loc /\ t[a].lot = layers[i].lot
        BY <3>2, <2>2, <1>6
      <4>2. i \in 1 .. i
        OBVIOUS
      <4> QED BY <4>1, <4>2
    <3> QED BY <3>1, <3>2, <2>2
  <2>6. next.short > 0 => \A a \in 1 .. Len(t) : ~ Feeds(t[a], loc, lot)
    <3> SUFFICES ASSUME next.short > 0, NEW a \in 1 .. Len(t)
                 PROVE  ~ Feeds(t[a], loc, lot)
      OBVIOUS
    <3>1. acc.short > 0 /\ take # acc.short
      <4>1. next.short = acc.short - take /\ take \in 0 .. layer.left
        BY <1>3
      <4>2. acc.short \in Nat /\ layer.left \in Nat
        BY <1>1, <1>2
      <4> QED BY <4>1, <4>2
    <3>2. ~ Feeds(layer, loc, lot)
      BY <3>1, <1>3, <1>11
    <3>3. CASE a \in 1 .. Len(s)
      BY <3>1, <3>3, <2>2, <1>5
    <3>4. CASE a = Len(s) + 1
      BY <3>2, <3>4, <2>2, <1>6
    <3> QED BY <3>3, <3>4, <2>2
  <2> QED BY <2>1, <2>3, <2>4, <2>5, <2>6, <1>9 DEF Drawn
<1> QED BY <1>10, <1>11

(* The sums move with it. *)
LEMMA AccountedStep ==
  ASSUME NEW layers, LayersTyped(layers), NEW loc, NEW lot, NEW qty \in Nat,
         NEW i \in 1 .. Len(layers), NEW acc, Drawn(layers, loc, lot, qty, i - 1, acc),
         Accounted(layers, loc, qty, i - 1, acc)
  PROVE  Accounted(layers, loc, qty, i, TakeFromLayer(acc, layers[i], loc, lot))
<1> SUFFICES ASSUME NEW layer, layer = layers[i], NEW take, take = Share(acc, layer, loc, lot),
                    NEW next, next = TakeFromLayer(acc, layer, loc, lot)
             PROVE  Accounted(layers, loc, qty, i, next)
  OBVIOUS
<1> DEFINE rest == Rest(layer, take)
           s == acc.layers
           m == i - 1
<1>0. layers \in Seq(Layer) /\ Len(layers) \in Nat /\ i \in Nat /\ m \in Nat
      /\ i = m + 1 /\ m + 1 <= Len(layers)
  BY DEF LayersTyped
<1>1. layer \in Layer /\ layer.left \in 1 .. layer.got /\ layer.left \in Nat /\ layer.got \in Nat
      /\ layer.cost \in Int
  <2>1. layer \in Layer /\ layer.left \in 1 .. layer.got
    BY DEF LayersTyped
  <2> QED BY <2>1 DEF Layer
<1>2. acc.short \in Nat /\ acc.cost \in Int /\ s \in Seq(Layer)
  BY DEF Drawn, LayersTyped
<1>3. /\ take \in 0 .. layer.left /\ take <= acc.short
      /\ take > 0 => Feeds(layer, loc, lot)
      /\ Feeds(layer, loc, lot) /\ take # layer.left => take = acc.short
      /\ next.short = acc.short - take
      /\ next.cost = acc.cost + take * layer.cost
      /\ take = layer.left => next.layers = s
      /\ take # layer.left => next.layers = Append(s, rest)
  <2>1. acc.short \in Nat /\ layer \in Layer /\ layer.left \in 1 .. layer.got
    BY <1>1, <1>2
  <2> QED BY <2>1, ShareTaken, SMTT(30)
<1>4. rest \in Layer /\ rest.loc = layer.loc /\ rest.cost = layer.cost
      /\ rest.left = layer.left - take
  BY <1>1, <1>3 DEF Layer, Rest
<1>5. take \in Nat /\ take <= layer.left /\ (layer.loc # loc => take = 0)
  BY <1>1, <1>3 DEF Feeds
<1>6. /\ \A l : LeftUpTo(s, l, Len(s)) = LeftUpTo(layers, l, m) - IF l = loc THEN qty - acc.short ELSE 0
      /\ WorthUpTo(s, Len(s)) = WorthUpTo(layers, m) - acc.cost
      /\ (\A k \in 1 .. Len(layers) : layers[k].cost \in Nat) =>
           acc.cost \in Nat /\ \A a \in 1 .. Len(s) : s[a].cost \in Nat
  BY DEF Accounted
<1> HIDE DEF rest, s, m
<1> DEFINE u == next.layers
<1>7. /\ \A l : LeftUpTo(u, l, Len(u))
                 = LeftUpTo(s, l, Len(s)) + IF layer.loc = l THEN layer.left - take ELSE 0
      /\ WorthUpTo(u, Len(u)) = WorthUpTo(s, Len(s)) + (layer.left - take) * layer.cost
  <2>0. \A l : LeftUpTo(s, l, Len(s)) \in Int /\ WorthUpTo(s, Len(s)) \in Int
    <3>1. Len(s) \in 0 .. Len(s)
      BY <1>2
    <3> QED BY <1>2, <3>1, SumsTyped
  <2>1. CASE take = layer.left
    <3>1. u = s /\ layer.left - take = 0 /\ (layer.left - take) * layer.cost = 0
      BY <2>1, <1>1, <1>3
    <3> HIDE DEF u
    <3> QED BY <3>1, <2>0
  <2>2. CASE take # layer.left
    <3>1. u = Append(s, rest) /\ Len(Append(s, rest)) = Len(s) + 1
      BY <2>2, <1>2, <1>3, <1>4
    <3> HIDE DEF u
    <3>2. \A l : /\ LeftUpTo(Append(s, rest), l, Len(s) + 1)
                      = LeftUpTo(s, l, Len(s)) + IF rest.loc = l THEN rest.left ELSE 0
                 /\ WorthUpTo(Append(s, rest), Len(s) + 1)
                      = WorthUpTo(s, Len(s)) + rest.left * rest.cost
      BY <1>2, <1>4, SumsAppend
    <3> QED BY <3>1, <3>2, <1>4
  <2> QED BY <2>1, <2>2
<1>8. \A l : /\ LeftUpTo(layers, l, m) \in Int /\ WorthUpTo(layers, m) \in Int
             /\ LeftUpTo(layers, l, i) = LeftUpTo(layers, l, m) + IF layer.loc = l THEN layer.left ELSE 0
             /\ WorthUpTo(layers, i) = WorthUpTo(layers, m) + layer.left * layer.cost
  BY <1>0, SumsExtend
<1>9. \A l : LeftUpTo(u, l, Len(u)) = LeftUpTo(layers, l, i) - IF l = loc THEN qty - next.short ELSE 0
  <2> TAKE l
  <2> DEFINE x == LeftUpTo(layers, l, m)
  <2>1. x \in Int /\ LeftUpTo(layers, l, i) = x + IF layer.loc = l THEN layer.left ELSE 0
    BY <1>8
  <2>2. LeftUpTo(u, l, Len(u)) = (x - IF l = loc THEN qty - acc.short ELSE 0)
                                   + IF layer.loc = l THEN layer.left - take ELSE 0
    BY <1>6, <1>7
  <2>3. next.short = acc.short - take
    BY <1>3
  <2> DEFINE left == layer.left  wanted == acc.short
  <2>4. left \in Nat /\ take \in Nat /\ wanted \in Nat
    BY <1>1, <1>2, <1>5
  <2> HIDE DEF x, u, left, wanted
  <2>5. CASE layer.loc = l /\ l = loc
    BY <2>1, <2>2, <2>3, <2>4, <2>5 DEF left, wanted
  <2>6. CASE layer.loc = l /\ l # loc
    BY <2>1, <2>2, <2>3, <2>4, <2>6, <1>5 DEF left, wanted
  <2>7. CASE layer.loc # l
    <3>1. l = loc => take = 0
      BY <2>7, <1>5
    <3> QED BY <2>1, <2>2, <2>3, <2>4, <2>7, <3>1 DEF left, wanted
  <2> QED BY <2>5, <2>6, <2>7
<1>10. WorthUpTo(u, Len(u)) = WorthUpTo(layers, i) - next.cost
  <2> DEFINE x == WorthUpTo(layers, m)  c == layer.cost
  <2>1. x \in Int /\ WorthUpTo(layers, i) = x + layer.left * c
    BY <1>8
  <2>2. WorthUpTo(u, Len(u)) = (x - acc.cost) + (layer.left - take) * c
    BY <1>6, <1>7
  <2>3. next.cost = acc.cost + take * c
    BY <1>3
  <2>4. (layer.left - take) * c = layer.left * c - take * c /\ layer.left * c \in Int /\ take * c \in Int
    BY <1>1, <1>5
  <2> HIDE DEF x, u, c
  <2> QED BY <2>1, <2>2, <2>3, <2>4, <1>2
<1>11. ASSUME \A k \in 1 .. Len(layers) : layers[k].cost \in Nat
       PROVE  next.cost \in Nat /\ \A a \in 1 .. Len(u) : u[a].cost \in Nat
  <2>1. layer.cost \in Nat /\ acc.cost \in Nat /\ \A a \in 1 .. Len(s) : s[a].cost \in Nat
    BY <1>6, <1>11
  <2>2. next.cost \in Nat
    <3>1. take * layer.cost \in Nat
      BY <1>5, <2>1
    <3> QED BY <1>3, <2>1, <3>1
  <2>3. CASE take = layer.left
    BY <2>1, <2>2, <2>3, <1>3
  <2>4. CASE take # layer.left
    <3>1. u = Append(s, rest)
      BY <2>4, <1>3
    <3> HIDE DEF u
    <3>2. Len(u) = Len(s) + 1 /\ u[Len(s) + 1] = rest /\ \A a \in 1 .. Len(s) : u[a] = s[a]
      BY <3>1, <1>2, <1>4
    <3>3. Len(s) \in Nat
      BY <1>2
    <3>4. rest.cost \in Nat
      BY <2>1, <1>4
    <3>5. ASSUME NEW a \in 1 .. Len(u) PROVE u[a].cost \in Nat
      <4>1. a \in 1 .. Len(s) \/ a = Len(s) + 1
        BY <3>2, <3>3
      <4> QED BY <4>1, <3>2, <3>4, <2>1
    <3> QED BY <3>5, <2>2
  <2> QED BY <2>3, <2>4
<1> HIDE DEF u
<1>12. u = next.layers
  BY DEF u
<1> QED BY <1>9, <1>10, <1>11, <1>12 DEF Accounted

(* What a call of _consume_fifo_layers leaves. *)
THEOREM ConsumeDraws ==
  ASSUME NEW layers, LayersTyped(layers), NEW loc, NEW lot, NEW qty \in Nat,
         NEW taken, taken = ConsumeLayers(layers, loc, lot, qty)
  PROVE  /\ OldestFirst(layers) => Drawn(layers, loc, lot, qty, Len(layers), taken)
         /\ OldestFirst(layers) => Accounted(layers, loc, qty, Len(layers), taken)
<1> SUFFICES ASSUME OldestFirst(layers)
             PROVE  /\ Drawn(layers, loc, lot, qty, Len(layers), taken)
                    /\ Accounted(layers, loc, qty, Len(layers), taken)
  OBVIOUS
<1>1. Len(layers) \in Nat /\ layers \in Seq(Layer)
  BY DEF LayersTyped
<1>2. PICK t : /\ ConsumeLayers(layers, loc, lot, qty) = t[Len(layers)]
               /\ t[0] = [short |-> qty, cost |-> 0, layers |-> <<>>]
               /\ \A i \in 1 .. Len(layers) : t[i] = TakeFromLayer(t[i - 1], layers[i], loc, lot)
  BY <1>1, ConsumeLoop
<1> DEFINE Q == {i \in 0 .. Len(layers) : /\ Drawn(layers, loc, lot, qty, i, t[i])
                                          /\ Accounted(layers, loc, qty, i, t[i])}
<1>3. 0 \in Q
  <2> DEFINE base == t[0]
  <2>1. base.short = qty /\ base.cost = 0 /\ base.layers = <<>>
    BY <1>2
  <2>2. <<>> \in Seq(Layer) /\ Len(<<>>) = 0 /\ 0 \in 0 .. Len(<<>>) /\ 0 \in 0 .. Len(layers)
    BY <1>1
  <2> HIDE DEF base
  <2>3. Drawn(layers, loc, lot, qty, 0, base)
    BY <2>1, <2>2 DEF Drawn, LayersTyped, OldestFirst
  <2>4. \A l : LeftUpTo(<<>>, l, 0) = 0 /\ WorthUpTo(<<>>, 0) = 0
               /\ LeftUpTo(layers, l, 0) = 0 /\ WorthUpTo(layers, 0) = 0
    BY <1>1, <2>2, SumsTyped
  <2>5. Accounted(layers, loc, qty, 0, base)
    BY <2>1, <2>2, <2>4 DEF Accounted
  <2> QED BY <2>2, <2>3, <2>5 DEF base
<1>4. ASSUME NEW i \in 1 .. Len(layers), i - 1 \in Q PROVE i \in Q
  <2> DEFINE acc == t[i - 1]  next == t[i]
  <2>1. Drawn(layers, loc, lot, qty, i - 1, acc) /\ Accounted(layers, loc, qty, i - 1, acc)
    BY <1>4
  <2>2. next = TakeFromLayer(acc, layers[i], loc, lot)
    BY <1>2
  <2> HIDE DEF acc, next
  <2>3. Drawn(layers, loc, lot, qty, i, next)
    BY <2>1, <2>2, DrawnStep
  <2>4. Accounted(layers, loc, qty, i, next)
    BY <2>1, <2>2, AccountedStep
  <2>5. i \in 0 .. Len(layers)
    BY <1>1
  <2> QED BY <2>3, <2>4, <2>5 DEF next
<1>5. Len(layers) \in Q
  <2>1. Len(layers) \in 0 .. Len(layers)
    BY <1>1
  <2> HIDE DEF Q
  <2> QED BY <1>1, <1>3, <1>4, <2>1, IndexInduction
<1> QED BY <1>2, <1>5

-----------------------------------------------------------------------------
(* Amounts stay amounts, below zero too. *)
LEMMA HalfUpInteger == ASSUME NEW n \in Int, NEW d \in Nat \ {0} PROVE HalfUp(n, d) \in Int
<1>1. \A a \in Int, b \in Nat \ {0} : a \div b \in Int
  OBVIOUS
<1>2. 2 * d \in Nat \ {0} /\ 2 * n + d \in Int /\ 2 * (-n) + d \in Int
  OBVIOUS
<1>3. (2 * n + d) \div (2 * d) \in Int /\ (2 * (-n) + d) \div (2 * d) \in Int
  BY <1>1, <1>2
<1> QED BY <1>3 DEF HalfUp, Nearest

(* The moving average is an amount whatever is owed. *)
LEMMA AverageInteger ==
  ASSUME NEW st, TotalOnHand(st) \in Int, st.avg \in Int, NEW qty \in Int, NEW cost \in Int
  PROVE  MovingAverage(st, qty, cost) \in Int
<1> DEFINE prior == TotalOnHand(st)
           spent == prior * st.avg + qty * cost
           total == prior + qty
<1>1. MovingAverage(st, qty, cost) = IF total > 0 THEN HalfUp(spent, total) ELSE st.avg
  BY DEF MovingAverage
<1>2. prior * st.avg \in Int /\ qty * cost \in Int /\ total \in Int
  OBVIOUS
<1>3. spent \in Int
  BY <1>2
<1> HIDE DEF prior, spent, total
<1>4. total > 0 => HalfUp(spent, total) \in Int
  <2>1. total > 0 => total \in Nat \ {0}
    BY <1>2
  <2> QED BY <1>3, <2>1, HalfUpInteger
<1> QED BY <1>1, <1>4

(* A layer that came in whole joins the others as the newest. *)
PaidLayers(layers) == \A i \in 1 .. Len(layers) : layers[i].cost \in Nat

(* A receipt appends a whole layer, younger than the others. *)
LEMMA LayerAdded ==
  ASSUME NEW s, LayersTyped(s), OldestFirst(s),
         NEW layer \in Layer, layer.left = layer.got, layer.left \in 1 .. layer.got,
         NEW t, t = Append(s, layer)
  PROVE  /\ LayersTyped(t) /\ OldestFirst(t)
         /\ PaidLayers(s) /\ layer.cost \in Nat => PaidLayers(t)
<1>1. s \in Seq(Layer)
  BY DEF LayersTyped
<1>2. t \in Seq(Layer) /\ Len(t) = Len(s) + 1 /\ Len(s) \in Nat /\ t[Len(s) + 1] = layer
      /\ \A a \in 1 .. Len(s) : t[a] = s[a]
  BY <1>1
<1>3. \A a \in 1 .. Len(t) : a \in 1 .. Len(s) \/ a = Len(s) + 1
  BY <1>2
<1>4. LayersTyped(t)
  BY <1>2 DEF LayersTyped
<1>5. OldestFirst(t)
  <2> SUFFICES ASSUME NEW a \in 1 .. Len(t), NEW b \in 1 .. Len(t),
                      a < b, t[a].loc = t[b].loc, t[a].lot = t[b].lot
               PROVE  t[b].left = t[b].got
    BY DEF OldestFirst
  <2>1. CASE b = Len(s) + 1
    BY <2>1, <1>2
  <2>2. CASE b # Len(s) + 1
    <3>1. a \in 1 .. Len(s) /\ b \in 1 .. Len(s)
      BY <2>2, <1>2
    <3> QED BY <3>1, <1>2 DEF OldestFirst
  <2> QED BY <2>1, <2>2
<1>6. ASSUME PaidLayers(s), layer.cost \in Nat PROVE PaidLayers(t)
  BY <1>2, <1>3, <1>6 DEF PaidLayers
<1> QED BY <1>4, <1>5, <1>6

(* The layers after a receipt: a FIFO product has one more, whole. *)
LEMMA InboundLayers ==
  ASSUME NEW st, DOMAIN st = Fields, NEW loc, NEW lot, NEW bin, NEW qty, NEW cost,
         NEW paid, paid = IF cost = NoCost THEN st.avg ELSE cost,
         NEW layer,
         layer = [loc |-> loc, lot |-> lot, got |-> qty, left |-> qty, cost |-> paid],
         NEW in, in = Inbound(st, loc, lot, bin, qty, cost)
  PROVE  /\ st.method = "FIFO" => in.stock.layers = Append(st.layers, layer)
         /\ st.method # "FIFO" => in.stock.layers = st.layers
<1> DEFINE moved == Rebalance(st, loc, lot, bin, qty)
<1>1. DOMAIN moved = Fields
  BY DEF Rebalance, Fields
<1> HIDE DEF moved
<1> DEFINE costIn == IF st.method = "STANDARD" THEN st.std
                     ELSE IF cost = NoCost THEN st.avg ELSE cost
           newAvg == IF st.method = "STANDARD" THEN st.std
                     ELSE IF cost = NoCost THEN st.avg ELSE MovingAverage(st, qty, cost)
           new    == [loc |-> loc, lot |-> lot, got |-> qty, left |-> qty, cost |-> costIn]
           layers == IF st.method = "FIFO" THEN Append(st.layers, new) ELSE st.layers
           value  == HalfUp(qty * costIn, Scale)
<1>2. in = Movement([moved EXCEPT !.avg = newAvg, !.layers = layers], costIn, value)
  BY DEF Inbound, moved
<1>3. /\ st.method = "FIFO" => layers = Append(st.layers, layer)
      /\ st.method # "FIFO" => layers = st.layers
  OBVIOUS
<1> HIDE DEF newAvg, layers, value, costIn
<1> DEFINE costed == [moved EXCEPT !.avg = newAvg, !.layers = layers]
<1>4. DOMAIN costed = Fields /\ costed.layers = layers
  BY <1>1 DEF Fields
<1>5. in = Movement(costed, costIn, value)
  BY <1>2
<1> HIDE DEF costed
<1>6. in.stock.layers = layers
  BY <1>4, <1>5 DEF Movement, Fields
<1> QED BY <1>3, <1>6

(* An outbound movement of a FIFO product: its layers are what the loop leaves, and it
   is valued at what the loop took, the rest at the average. *)
LEMMA OutboundLayers ==
  ASSUME NEW st, DOMAIN st = Fields, NEW loc, NEW lot, NEW bin, NEW qty,
         NEW out, out = Outbound(st, loc, lot, bin, qty),
         NEW taken, taken = ConsumeLayers(st.layers, loc, lot, qty)
  PROVE  /\ DOMAIN out.stock = Fields
         /\ out.stock.method = st.method /\ out.stock.std = st.std /\ out.stock.avg = st.avg
         /\ out.stock.value = st.value + out.value
         /\ st.method = "FIFO" =>
              /\ out.stock.layers = taken.layers
              /\ out.unit = HalfUp(taken.cost + taken.short * st.avg, qty)
              /\ out.value = -HalfUp(taken.cost + taken.short * st.avg, Scale)
         /\ st.method # "FIFO" => out.stock.layers = st.layers
<1> DEFINE moved == Rebalance(st, loc, lot, bin, -qty)
<1>1. SameCosting(moved, st) /\ moved.layers = st.layers
  <2>1. SameCosting(moved, st)
    BY RebalanceKeepsCosting
  <2>2. moved.layers = st.layers
    BY DEF Rebalance, Fields
  <2> QED BY <2>1, <2>2
<1> HIDE DEF moved
<1>2. ASSUME NEW unit, NEW value, NEW made, made = Movement(moved, unit, value)
      PROVE  /\ DOMAIN made.stock = Fields
             /\ made.stock.method = st.method /\ made.stock.std = st.std
             /\ made.stock.avg = st.avg /\ made.stock.value = st.value + made.value
             /\ made.stock.layers = st.layers
  BY <1>1, <1>2 DEF Movement, Fields, SameCosting
<1>3. CASE st.method = "FIFO"
  <2>1. out = Movement([moved EXCEPT !.layers = taken.layers],
                       HalfUp(taken.cost + taken.short * st.avg, qty),
                       -HalfUp(taken.cost + taken.short * st.avg, Scale))
    BY <1>3 DEF Outbound, moved
  <2> DEFINE layers == taken.layers  value == -HalfUp(taken.cost + taken.short * st.avg, Scale)
             unit == HalfUp(taken.cost + taken.short * st.avg, qty)
  <2>2. out = Movement([moved EXCEPT !.layers = layers], unit, value)
    BY <2>1
  <2> HIDE DEF layers, value, unit
  <2> DEFINE costed == [moved EXCEPT !.layers = layers]
  <2>3. /\ DOMAIN costed = Fields /\ costed.method = st.method /\ costed.std = st.std
        /\ costed.avg = st.avg /\ costed.value = st.value /\ costed.layers = layers
    BY <1>1 DEF Fields, SameCosting
  <2> HIDE DEF costed
  <2>4. out = [stock |-> [costed EXCEPT !.value = @ + value], unit |-> unit, value |-> value]
    BY <2>2 DEF Movement, costed
  <2>5. /\ DOMAIN out.stock = Fields
        /\ out.stock.method = st.method /\ out.stock.std = st.std
        /\ out.stock.avg = st.avg /\ out.stock.value = st.value + out.value
        /\ out.stock.layers = layers /\ out.unit = unit /\ out.value = value
    BY <2>3, <2>4 DEF Fields
  <2> QED BY <1>3, <2>5 DEF layers, value, unit
<1>4. CASE st.method # "FIFO"
  <2>1. \E unit, value : out = Movement(moved, unit, value)
    BY <1>4 DEF Outbound, moved
  <2> QED BY <1>2, <1>4, <2>1
<1> QED BY <1>3, <1>4
=============================================================================
