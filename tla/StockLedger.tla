----------------------------- MODULE StockLedger -----------------------------
(***************************************************************************)
(* The stock of one product under every movement services/inventory.py can *)
(* be asked for: receipts, returns, adjustments and counts in (Receive),   *)
(* sales, issues, write-offs and counts out (Issue), and the edits of the  *)
(* product row that the product form allows.  Movements of a product are   *)
(* serialised by the row lock apply_movement takes first, so each is one   *)
(* step.                                                                   *)
(***************************************************************************)
EXTENDS Valuation

CONSTANTS
  Quantities,    \* quantities a caller may move
  UnitCosts,     \* unit costs a receipt may bring
  Methods0,      \* costing methods the product may be created with
  StandardCosts, \* standard costs the product row may hold
  LotsOf,        \* lot identities a movement may name (NoLot: untagged)
  BinsOf,        \* bins a movement may name (NoBin: none)
  NoEdit,        \* no product form is being saved
  Editable,      \* may the product form change the costing of a stocked product?
  MaxMoves       \* bound: movements in a behaviour

ASSUME QuantityAssumption ==
  Quantities \subseteq Nat \ {0} /\ Quantities # {} /\ IsFiniteSet(Quantities)
ASSUME CostAssumption == UnitCosts \subseteq Nat /\ StandardCosts \subseteq Nat
ASSUME MethodAssumption == Methods0 \subseteq Methods
ASSUME BoundAssumption == MaxMoves \in Nat
ASSUME NamedAssumption == LotsOf \subseteq Lots \cup {NoLot} /\ BinsOf \subseteq Bins \cup {NoBin}

VARIABLES
  stock,   \* the product's stock record
  moves,   \* number of movements recorded so far
  short,   \* quantity issued that no cost layer covered (InventoryIssueCost, layer null)
  edit     \* the product row a product_edit request has loaded and not saved yet

vars == <<stock, moves, short, edit>>

Init ==
  /\ \E m \in Methods0, std \in StandardCosts : stock = NoStock(m, std)
  /\ moves = 0
  /\ short = 0
  /\ edit = NoEdit

(* An inbound movement, with or without a unit cost. *)
Receive(loc, lot, bin, qty, cost) ==
  /\ moves < MaxMoves
  /\ Accepts(stock, loc, lot, bin, qty)
  /\ stock' = Inbound(stock, loc, lot, bin, qty, cost).stock
  /\ moves' = moves + 1
  /\ UNCHANGED <<short, edit>>

(* An outbound movement.  A refused one raises before any row is written. *)
Issue(loc, lot, bin, qty) ==
  /\ moves < MaxMoves
  /\ Accepts(stock, loc, lot, bin, -qty)
  /\ stock' = Outbound(stock, loc, lot, bin, qty).stock
  /\ moves' = moves + 1
  /\ short' = IF stock.method = "FIFO"
                THEN short + ConsumeLayers(stock.layers, loc, lot, qty).short
                ELSE short
  /\ UNCHANGED edit

(* product_edit reads the product row without a lock ... *)
OpenEdit ==
  /\ Editable
  /\ moves < MaxMoves
  /\ edit = NoEdit
  /\ edit' = [avg |-> stock.avg]
  /\ UNCHANGED <<stock, moves, short>>

(* ... and saves every column of it: the costing method and the standard cost
   as typed, the average as it was when the row was read.  The stock already
   held is left as it is. *)
SaveEdit(method, std) ==
  /\ edit # NoEdit
  /\ stock' = [stock EXCEPT !.method = method, !.std = std, !.avg = edit.avg]
  /\ edit' = NoEdit
  /\ moves' = moves + 1
  /\ UNCHANGED short

Next ==
  \/ \E loc \in Locations, lot \in LotsOf, bin \in BinsOf, qty \in Quantities,
        cost \in UnitCosts \cup {NoCost} : Receive(loc, lot, bin, qty, cost)
  \/ \E loc \in Locations, lot \in LotsOf, bin \in BinsOf, qty \in Quantities :
        Issue(loc, lot, bin, qty)
  \/ OpenEdit
  \/ \E method \in Methods0, std \in StandardCosts : SaveEdit(method, std)

Spec == Init /\ [][Next]_vars

-----------------------------------------------------------------------------
(* The three levels of balance hold whole quantities. *)
QuantitiesTyped ==
  /\ stock.onhand \in [Locations -> Int]
  /\ stock.lots \in [Locations -> [Lots -> Int]]
  /\ stock.bins \in [Locations -> [Bins -> Int]]

(* TypeOK: balances are quantities, layers hold a positive part of what they
   received, and costs and values are amounts. *)
TypeOK ==
  /\ QuantitiesTyped
  /\ stock.method \in Methods /\ stock.std \in Nat
  /\ stock.avg \in Int /\ stock.value \in Int
  /\ \A i \in DOMAIN stock.layers :
       stock.layers[i] \in Layer /\ stock.layers[i].left \in 1..stock.layers[i].got
  /\ moves \in 0..(MaxMoves + 1) /\ short \in Nat
  /\ edit = NoEdit \/ edit.avg \in Int

(* Under block_negative_stock no location, lot or bin is ever overdrawn,
   whatever mixture of tagged and untagged movements gets there. *)
NeverOverdrawn ==
  BlockNegative =>
    \A loc \in Locations :
      /\ stock.onhand[loc] >= 0
      /\ \A k \in Lots : stock.lots[loc][k] >= 0
      /\ \A b \in Bins : stock.bins[loc][b] >= 0

(* A serial-tracked unit is in a location once or not at all, whether or not
   the tenant blocks negative stock. *)
SerialsAreUnits ==
  TrackSerial => \A loc \in Locations, k \in Lots : stock.lots[loc][k] \in {0, 1}

-----------------------------------------------------------------------------
(* What the layers of a location still cover, and what all of them are worth. *)
LeftAt(loc) ==
  SumFunction([i \in DOMAIN stock.layers |->
                 IF stock.layers[i].loc = loc THEN stock.layers[i].left ELSE 0])
LayerValue ==
  SumFunction([i \in DOMAIN stock.layers |-> stock.layers[i].left * stock.layers[i].cost])

(* The quantity the cost layers of a FIFO product still cover is the quantity
   on hand at every location, plus what issues took without a layer: no unit
   is costed twice and none is on hand without a cost. *)
LayersMatchStock ==
  stock.method = "FIFO" =>
    /\ SumFunction([l \in Locations |-> LeftAt(l)]) = TotalOnHand(stock) + short
    /\ \A loc \in Locations : LeftAt(loc) >= stock.onhand[loc]

(* First in, first out at each location: a layer is drawn on only when every
   older layer of its lot there is exhausted, whatever tagged and untagged issues
   took in between. *)
OldestLayerFirst ==
  \A i, j \in DOMAIN stock.layers :
    (i < j /\ stock.layers[i].loc = stock.layers[j].loc
           /\ stock.layers[i].lot = stock.layers[j].lot)
      => stock.layers[j].left = stock.layers[j].got

(* What the books should say the stock on hand is worth, in cost units. *)
BookCost ==
  CASE stock.method = "FIFO"     -> LayerValue
    [] stock.method = "AVERAGE"  -> TotalOnHand(stock) * stock.avg
    [] stock.method = "STANDARD" -> TotalOnHand(stock) * stock.std

MaxQuantity == CHOOSE q \in Quantities : \A p \in Quantities : p <= q

(* How far rounding may move the ledger from the books: half a cent for the
   value of each movement and, for a moving average kept to four decimals,
   half a cost unit for each unit on hand at each movement. *)
RoundingSlack ==
  moves * (Scale + IF stock.method = "AVERAGE" THEN moves * MaxQuantity ELSE 0)

(* The subledger (the sum of movement values, which the GL control account is
   reconciled with) stays within rounding of the stock on hand at its cost,
   for each costing method, on a tenant that blocks negative stock. *)
LedgerMatchesBooks ==
  LET drift == Scale * stock.value - BookCost
  IN  2 * drift <= RoundingSlack /\ -2 * drift <= RoundingSlack
=============================================================================
