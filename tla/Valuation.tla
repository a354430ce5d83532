------------------------------ MODULE Valuation ------------------------------
(***************************************************************************)
(* services/inventory.py: what one call of apply_movement does to a        *)
(* product's stock.                                                        *)
(*                                                                         *)
(* The stock of a product is one record: the product row's costing fields, *)
(* the balance per location (InventoryBalance), per lot or serial          *)
(* (InventoryLotBalance) and per bin (InventoryBinBalance), the FIFO cost  *)
(* layers that still hold a quantity, oldest first (InventoryCostLayer),   *)
(* and the sum of the values of its movements (InventoryMovement.value),   *)
(* which is the inventory subledger the reconciliation report adds up.     *)
(* The record is what the row lock of apply_movement protects, so a        *)
(* movement is a function from one record to the next.                     *)
(***************************************************************************)
EXTENDS Rounding, SequencesExt

CONSTANTS
  Locations,      \* stock locations of the tenant
  Lots,           \* lot / serial / expiry identities of stock
  NoLot,          \* a movement that names no lot
  Bins,           \* bins within a location
  NoBin,          \* a movement that names no bin
  NoCost,         \* a movement that brings no unit cost (unit_cost=None)
  Scale,          \* cost units in a cent (100 when quantities are whole)
  BlockNegative,  \* Tenant.block_negative_stock
  TrackSerial     \* Product.track_serial: every lot identity is one unit

ASSUME ScaleAssumption == Scale \in Nat \ {0}
ASSUME LotAssumption == NoLot \notin Lots /\ NoBin \notin Bins
ASSUME CostAbsenceAssumption == NoCost \notin Int
ASSUME FlagAssumption == BlockNegative \in BOOLEAN /\ TrackSerial \in BOOLEAN
ASSUME LocationAssumption == IsFiniteSet(Locations)

Methods == {"AVERAGE", "FIFO", "STANDARD"}
Layer == [loc : Locations, lot : Lots \cup {NoLot}, got : Nat, left : Nat, cost : Int]

NoStock(method, std) ==
  [method |-> method, std |-> std, avg |-> 0,
   onhand |-> [l \in Locations |-> 0],
   lots   |-> [l \in Locations |-> [k \in Lots |-> 0]],
   bins   |-> [l \in Locations |-> [b \in Bins |-> 0]],
   layers |-> <<>>,
   value  |-> 0]

(* _total_on_hand: on hand over every location. *)
TotalOnHand(st) == SumFunction(st.onhand)

-----------------------------------------------------------------------------
(* The refusals of apply_movement: a serial must be named and its row hold 0
   or 1 (_guard_serial_movement), and a strict tenant may not drive a location,
   a lot or a bin below zero.  A refusal raises, and the caller's transaction
   is rolled back. *)
SerialAllows(st, loc, lot, delta) ==
  (TrackSerial /\ delta # 0) =>
     /\ lot # NoLot
     /\ delta > 0 => st.lots[loc][lot] + delta <= 1
     /\ delta < 0 => st.lots[loc][lot] + delta >= 0

(* Slip: the test looks at the stock before the movement, not after. *)
BalancesAllowBefore(st, loc, lot, bin, delta) ==
  (BlockNegative /\ delta < 0) => st.onhand[loc] > 0

BalancesAllow(st, loc, lot, bin, delta) ==
  (BlockNegative /\ delta < 0) =>
     /\ st.onhand[loc] + delta >= 0
     /\ lot # NoLot => st.lots[loc][lot] + delta >= 0
     /\ bin # NoBin => st.bins[loc][bin] + delta >= 0

Accepts(st, loc, lot, bin, delta) ==
  SerialAllows(st, loc, lot, delta) /\ BalancesAllow(st, loc, lot, bin, delta)

(* The balance rows a movement updates: always the location's, and the lot's
   and the bin's when it names one. *)
Rebalance(st, loc, lot, bin, delta) ==
  [st EXCEPT !.onhand[loc] = @ + delta,
             !.lots[loc] = [k \in Lots |-> IF k = lot THEN @[k] + delta ELSE @[k]],
             !.bins[loc] = [b \in Bins |-> IF b = bin THEN @[b] + delta ELSE @[b]]]

-----------------------------------------------------------------------------
(* Slip: the layer query is not scoped to the location. *)
FeedsAnyLocation(layer, loc, lot) == lot = NoLot \/ layer.lot = lot

(* _consume_fifo_layers takes qty from the oldest layers of the location, of
   the named lot only when one is named.  The result says what the layers
   covered cost, what no layer covered, and the layers that remain. *)
Feeds(layer, loc, lot) == layer.loc = loc /\ (lot = NoLot \/ layer.lot = lot)

TakeFromLayer(acc, layer, loc, lot) ==
  LET take == IF ~Feeds(layer, loc, lot) THEN 0
              ELSE IF acc.short < layer.left THEN acc.short ELSE layer.left
  IN  [short  |-> acc.short - take,
       cost   |-> acc.cost + take * layer.cost,
       layers |-> IF take = layer.left THEN acc.layers
                  ELSE Append(acc.layers, [layer EXCEPT !.left = @ - take])]

(* Slip: order_by("-received_at"), the newest layer first. *)
ConsumeNewestFirst(layers, loc, lot, qty) ==
  LET taken == FoldLeft(LAMBDA acc, layer : TakeFromLayer(acc, layer, loc, lot),
                        [short |-> qty, cost |-> 0, layers |-> <<>>], Reverse(layers))
  IN  [taken EXCEPT !.layers = Reverse(@)]

ConsumeLayers(layers, loc, lot, qty) ==
  LET Taken[i \in 0 .. Len(layers)] ==
        IF i = 0 THEN [short |-> qty, cost |-> 0, layers |-> <<>>]
        ELSE TakeFromLayer(Taken[i - 1], layers[i], loc, lot)
  IN  Taken[Len(layers)]

(* The moving average after qty units at cost join prior ones.  A receipt
   that leaves the product with nothing on hand in total keeps the old one. *)
MovingAverage(st, qty, cost) ==
  LET prior == TotalOnHand(st)
  IN  IF prior + qty > 0
        THEN HalfUp(prior * st.avg + qty * cost, prior + qty)
        ELSE st.avg

-----------------------------------------------------------------------------
(* A movement is the new stock, the unit cost it was valued at and its signed
   value in cents: the fields of the InventoryMovement row the callers use. *)
Movement(st, unit, value) ==
  [stock |-> [st EXCEPT !.value = @ + value], unit |-> unit, value |-> value]

(* qty_delta = qty > 0.  A STANDARD product is carried at standard cost and its
   average is brought to it; the others come in at the given cost, or at the
   average when none is given, and a FIFO product gets a layer. *)
Inbound(st, loc, lot, bin, qty, cost) ==
  LET moved  == Rebalance(st, loc, lot, bin, qty)
      costIn == IF st.method = "STANDARD" THEN st.std
                ELSE IF cost = NoCost THEN st.avg ELSE cost
      newAvg == IF st.method = "STANDARD" THEN st.std
                ELSE IF cost = NoCost THEN st.avg ELSE MovingAverage(st, qty, cost)
      layer  == [loc |-> loc, lot |-> lot, got |-> qty, left |-> qty, cost |-> costIn]
      layers == IF st.method = "FIFO" THEN Append(st.layers, layer) ELSE st.layers
  IN  Movement([moved EXCEPT !.avg = newAvg, !.layers = layers],
               costIn, HalfUp(qty * costIn, Scale))

(* Slip: a FIFO issue is valued at the average, though it relieves layers. *)
OutboundAtAverage(st, loc, lot, bin, qty) ==
  Movement([Rebalance(st, loc, lot, bin, -qty) EXCEPT
              !.layers = ConsumeLayers(st.layers, loc, lot, qty).layers],
           st.avg, -HalfUp(qty * st.avg, Scale))

(* qty_delta = -qty < 0.  A FIFO issue is costed from its layers, any shortfall
   at the average; a STANDARD one at standard cost, or at the average while no
   standard cost is set; an AVERAGE one at the average. *)
Outbound(st, loc, lot, bin, qty) ==
  LET moved    == Rebalance(st, loc, lot, bin, -qty)
      consumed == ConsumeLayers(st.layers, loc, lot, qty)
      fifoCost == consumed.cost + consumed.short * st.avg
      unit     == IF st.method = "STANDARD" /\ st.std # 0 THEN st.std ELSE st.avg
  IN  IF st.method = "FIFO"
        THEN Movement([moved EXCEPT !.layers = consumed.layers],
                      HalfUp(fifoCost, qty), -HalfUp(fifoCost, Scale))
        ELSE Movement(moved, unit, -HalfUp(qty * unit, Scale))
=============================================================================
