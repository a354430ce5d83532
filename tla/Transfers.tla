------------------------------ MODULE Transfers ------------------------------
(***************************************************************************)
(* Inventory transfers between locations, one-step and two-step, with the  *)
(* two general ledger accounts they move value between: Inventory (1000)   *)
(* and Inventory In Transit (1010).                                        *)
(*                                                                         *)
(* A transfer has one line per product here (an untagged one).  The code   *)
(* posts one journal per operation, for the sum of its line values, when   *)
(* that sum is positive.  On a tenant that blocks negative stock no line   *)
(* value is negative, so posting line by line gives the same balances, and *)
(* the accounts are kept by product and by line.                           *)
(***************************************************************************)
EXTENDS Valuation

CONSTANTS
  Products, Transfers,
  NoLocation,    \* the route of a transfer not created yet
  MethodOf,      \* the costing method of each product
  StandardOf,    \* the standard cost of each product
  Quantities,    \* quantities a receipt or a line may have
  UnitCosts,     \* unit costs a receipt may bring
  Asked,         \* quantities a receiving form may ask for (the input is signed)
  All,           \* a receiving form without quantities: everything in transit
  AdjustLimit,   \* bound: write-offs and found stock in a behaviour
  GoodsInLimit   \* bound: goods receipts in a behaviour

ASSUME TransferAssumption == IsFiniteSet(Transfers)
ASSUME StrictAssumption == BlockNegative /\ ~TrackSerial
ASSUME CostingAssumption ==
  MethodOf \in [Products -> Methods] /\ StandardOf \in [Products -> Nat]
ASSUME InputAssumption ==
  /\ Quantities \subseteq Nat \ {0} /\ UnitCosts \subseteq Nat
  /\ Asked \subseteq Int /\ All \notin [Products -> Asked]

VARIABLES
  stock,     \* Products -> the stock record of Valuation
  doc,       \* Transfers -> the transfer and its lines
  inventory, \* Products -> balance of account 1000
  transit,   \* Transfers -> Products -> balance of account 1010
  ghost      \* history, in no table: see below

(* Per product: units brought in and lost in transit.  Per line: postings to
   1010 since dispatch.  The other counts bound the behaviours. *)
Ghost == [brought : [Products -> Int], lost : [Products -> Nat],
          posts : [Transfers -> [Products -> Nat]],
          adjusts : 0..AdjustLimit, receipts : 0..GoodsInLimit]

vars == <<stock, doc, inventory, transit, ghost>>

Line == [qty : Quantities \cup {0}, sent : Nat, got : Nat, cost : Nat]
Statuses == {"NONE", "DRAFT", "DISPATCHED", "RECEIVED", "POSTED", "CANCELLED"}

InTransit(line) == line.sent - line.got
ZeroLine == [qty |-> 0, sent |-> 0, got |-> 0, cost |-> 0]

Init ==
  /\ stock = [p \in Products |-> NoStock(MethodOf[p], StandardOf[p])]
  /\ doc = [t \in Transfers |-> [status |-> "NONE", from |-> NoLocation, to |-> NoLocation,
                                 lines |-> [p \in Products |-> ZeroLine]]]
  /\ inventory = [p \in Products |-> 0]
  /\ transit = [t \in Transfers |-> [p \in Products |-> 0]]
  /\ ghost = [brought |-> [p \in Products |-> 0], lost |-> [p \in Products |-> 0],
              posts |-> [t \in Transfers |-> [p \in Products |-> 0]],
              adjusts |-> 0, receipts |-> 0]

-----------------------------------------------------------------------------
(* receive_po: a costed receipt, capitalised at the movement's value. *)
GoodsIn(p, loc, qty, cost) ==
  LET in == Inbound(stock[p], loc, NoLot, NoBin, qty, cost)
  IN  /\ ghost.receipts < GoodsInLimit
      /\ stock' = [stock EXCEPT ![p] = in.stock]
      /\ inventory' = [inventory EXCEPT ![p] = @ + in.value]
      /\ ghost' = [ghost EXCEPT !.brought[p] = @ + qty, !.receipts = @ + 1]
      /\ UNCHANGED <<doc, transit>>

(* _post_stock_adjustment: an uncosted movement either way, its value booked
   against Inventory. *)
AdjustStock(p, loc, delta) ==
  LET move == IF delta > 0 THEN Inbound(stock[p], loc, NoLot, NoBin, delta, NoCost)
                           ELSE Outbound(stock[p], loc, NoLot, NoBin, -delta)
  IN  /\ ghost.adjusts < AdjustLimit
      /\ Accepts(stock[p], loc, NoLot, NoBin, delta)
      /\ stock' = [stock EXCEPT ![p] = move.stock]
      /\ inventory' = [inventory EXCEPT ![p] = @ + move.value]
      /\ ghost' = [ghost EXCEPT !.brought[p] = @ + delta, !.adjusts = @ + 1]
      /\ UNCHANGED <<doc, transit>>

-----------------------------------------------------------------------------
(* Every line of d can leave its source; a refused line rolls back them all. *)
CanLeave(d) ==
  \A p \in Products : d.lines[p].qty > 0 =>
     Accepts(stock[p], d.from, NoLot, NoBin, -d.lines[p].qty)

Leaving(d, p) == Outbound(stock[p], d.from, NoLot, NoBin, d.lines[p].qty)

(* One-step posting of a line: out of the source, into the destination at the
   unit cost the outbound movement was valued at.  No journal is posted. *)
Moved(d, p) ==
  LET out == Leaving(d, p)
  IN  IF d.lines[p].qty = 0 THEN stock[p]
      ELSE Inbound(out.stock, d.to, NoLot, NoBin, d.lines[p].qty, out.unit).stock

(* transfer_create, saved as a draft ... *)
Create(t, from, to, want) ==
  /\ doc[t].status = "NONE"
  /\ doc' = [doc EXCEPT ![t] =
               [status |-> "DRAFT", from |-> from, to |-> to,
                lines |-> [p \in Products |-> [ZeroLine EXCEPT !.qty = want[p]]]]]
  /\ UNCHANGED <<stock, inventory, transit, ghost>>

(* ... or posted in the same request. *)
CreatePosted(t, from, to, want) ==
  LET d == [status |-> "POSTED", from |-> from, to |-> to,
            lines |-> [p \in Products |-> [ZeroLine EXCEPT !.qty = want[p]]]]
  IN  /\ doc[t].status = "NONE"
      /\ CanLeave(d)
      /\ stock' = [p \in Products |-> Moved(d, p)]
      /\ doc' = [doc EXCEPT ![t] = d]
      /\ UNCHANGED <<inventory, transit, ghost>>

(* transfer_post: its only guard is on POSTED. *)
Post(t) ==
  /\ doc[t].status \notin {"NONE", "POSTED"}
  /\ CanLeave(doc[t])
  /\ stock' = [p \in Products |-> Moved(doc[t], p)]
  /\ doc' = [doc EXCEPT ![t].status = "POSTED"]
  /\ UNCHANGED <<inventory, transit, ghost>>

(* Slip: save(update_fields=...) leaves out the dispatched quantity ... *)
SentLineUnsaved(d, p) ==
  IF d.lines[p].qty = 0 THEN d.lines[p]
  ELSE [d.lines[p] EXCEPT !.cost = Leaving(d, p).unit]

(* ... or the dispatched cost, so goods arrive at no cost. *)
SentLineUncosted(d, p) ==
  IF d.lines[p].qty = 0 THEN d.lines[p]
  ELSE [d.lines[p] EXCEPT !.sent = d.lines[p].qty]

(* The line of a dispatched transfer: what it sent, at which unit cost. *)
SentLine(d, p) ==
  IF d.lines[p].qty = 0 THEN d.lines[p]
  ELSE [d.lines[p] EXCEPT !.sent = d.lines[p].qty, !.cost = Leaving(d, p).unit]

(* transfer_dispatch: DR In Transit / CR Inventory at the value relieved. *)
Dispatch(t) ==
  LET d == doc[t]
      value(p) == IF d.lines[p].qty = 0 THEN 0 ELSE -Leaving(d, p).value
  IN  /\ d.status = "DRAFT"
      /\ CanLeave(d)
      /\ stock' = [p \in Products |-> IF d.lines[p].qty = 0 THEN stock[p]
                                      ELSE Leaving(d, p).stock]
      /\ doc' = [doc EXCEPT ![t] =
                   [d EXCEPT !.status = "DISPATCHED",
                             !.lines = [p \in Products |-> SentLine(d, p)]]]
      /\ inventory' = [p \in Products |-> inventory[p] - value(p)]
      /\ transit' = [transit EXCEPT ![t] = [p \in Products |-> @[p] + value(p)]]
      /\ ghost' = [ghost EXCEPT !.posts[t] =
                     [p \in Products |-> IF d.lines[p].qty = 0 THEN @[p] ELSE @[p] + 1]]

(* Goods of transfer t arriving at loc, take[p] of each product: the stock, and
   DR Inventory / CR In Transit at the value of the inbound movement. *)
Arriving(t, loc, take, p) ==
  Inbound(stock[p], loc, NoLot, NoBin, take[p], doc[t].lines[p].cost)

(* Slip: the receipt is posted at the dispatched cost, quantised with the default
   rounding, and not at the value of its movement. *)
ValueInAtSentCost(t, loc, take, p) == HalfEven(take[p] * doc[t].lines[p].cost, Scale)

(* What an arriving line brings into Inventory. *)
ValueIn(t, loc, take, p) == IF take[p] = 0 THEN 0 ELSE Arriving(t, loc, take, p).value

Arrive(t, loc, take) ==
  /\ stock' = [p \in Products |-> IF take[p] = 0 THEN stock[p]
                                  ELSE Arriving(t, loc, take, p).stock]
  /\ inventory' = [p \in Products |-> inventory[p] + ValueIn(t, loc, take, p)]

(* What a receiving form takes of each line: everything in transit when it has
   no quantities, else what it asks for, capped at both ends. *)
Taken(d, asked) ==
  [p \in Products |->
     IF asked = All THEN InTransit(d.lines[p])
     ELSE IF asked[p] < 0 THEN 0
     ELSE IF asked[p] > InTransit(d.lines[p]) THEN InTransit(d.lines[p]) ELSE asked[p]]

(* The loss posted for what is still in transit when a receipt closes short. *)
Loss(line, taken) == HalfEven((InTransit(line) - taken) * line.cost, Scale)

(* transfer_receive.  A short close writes the rest off and marks it received;
   a transfer with nothing left in transit is RECEIVED. *)
Receive(t, asked, closeShort) ==
  LET d       == doc[t]
      take    == Taken(d, asked)
      rest(p) == InTransit(d.lines[p]) - take[p]
      lost(p) == IF closeShort THEN rest(p) ELSE 0
      done    == \A p \in Products : rest(p) = lost(p)
      loss(p) == IF lost(p) > 0 THEN Loss(d.lines[p], take[p]) ELSE 0
  IN  /\ d.status = "DISPATCHED"
      /\ Arrive(t, d.to, take)
      /\ transit' = [transit EXCEPT ![t] =
                       [p \in Products |-> @[p] - ValueIn(t, d.to, take, p) - loss(p)]]
      /\ doc' = [doc EXCEPT ![t] =
                   [d EXCEPT !.status = IF done THEN "RECEIVED" ELSE @,
                             !.lines = [p \in Products |->
                                [d.lines[p] EXCEPT !.got = @ + take[p] + lost(p)]]]]
      /\ ghost' = [ghost EXCEPT
                     !.lost = [p \in Products |-> @[p] + lost(p)],
                     !.posts[t] = [p \in Products |->
                        @[p] + (IF take[p] > 0 THEN 1 ELSE 0) + (IF lost(p) > 0 THEN 1 ELSE 0)]]

(* transfer_cancel of a draft ... *)
CancelDraft(t) ==
  /\ doc[t].status = "DRAFT"
  /\ doc' = [doc EXCEPT ![t].status = "CANCELLED"]
  /\ UNCHANGED <<stock, inventory, transit, ghost>>

(* ... and of a dispatched transfer: what is in transit returns to its source
   at the dispatched cost. *)
CancelDispatched(t) ==
  LET d    == doc[t]
      back == Taken(d, All)
  IN  /\ d.status = "DISPATCHED"
      /\ Arrive(t, d.from, back)
      /\ transit' = [transit EXCEPT ![t] =
                       [p \in Products |-> @[p] - ValueIn(t, d.from, back, p)]]
      /\ doc' = [doc EXCEPT ![t] =
                   [d EXCEPT !.status = "CANCELLED",
                             !.lines = [p \in Products |->
                                          [d.lines[p] EXCEPT !.got = @ + back[p]]]]]
      /\ ghost' = [ghost EXCEPT !.posts[t] =
                     [p \in Products |-> IF back[p] > 0 THEN @[p] + 1 ELSE @[p]]]

Next ==
  \/ \E p \in Products, loc \in Locations, qty \in Quantities, cost \in UnitCosts :
        GoodsIn(p, loc, qty, cost)
  \/ \E p \in Products, loc \in Locations, qty \in Quantities :
        AdjustStock(p, loc, qty) \/ AdjustStock(p, loc, -qty)
  \/ \E t \in Transfers :
        \/ \E from, to \in Locations, want \in [Products -> Quantities \cup {0}] :
              Create(t, from, to, want) \/ CreatePosted(t, from, to, want)
        \/ Post(t) \/ Dispatch(t)
        \/ \E asked \in [Products -> Asked] \cup {All}, closeShort \in BOOLEAN :
              Receive(t, asked, closeShort)
        \/ CancelDraft(t) \/ CancelDispatched(t)

Spec == Init /\ [][Next]_vars

-----------------------------------------------------------------------------
(* No moving average is negative. *)
AveragesTyped == \A p \in Products : stock[p].avg \in Nat

(* No line receives more than it sent, whatever the form asks for, and nothing
   is sent before the dispatch. *)
LinesWithinSent ==
  \A t \in Transfers, p \in Products :
     LET line == doc[t].lines[p]
     IN  /\ line.got \in 0..line.sent
         /\ line.sent \in {0, line.qty}
         /\ doc[t].status \in {"NONE", "DRAFT"} => line.sent = 0
         /\ doc[t].status \in {"RECEIVED", "CANCELLED"} => line.got = line.sent

(* TypeOK: balances are quantities, averages and lines are amounts, and a line has
   received between none and all of what it sent. *)
TypeOK ==
  /\ AveragesTyped
  /\ LinesWithinSent
  /\ \A p \in Products : stock[p].onhand \in [Locations -> Int] /\ stock[p].value \in Int
  /\ \A t \in Transfers :
       /\ doc[t].status \in Statuses
       /\ doc[t].from \in Locations \cup {NoLocation} /\ doc[t].to \in Locations \cup {NoLocation}
       /\ doc[t].lines \in [Products -> Line]
       /\ \A p \in Products : transit[t][p] \in Int
  /\ inventory \in [Products -> Int]
  /\ ghost \in Ghost

(* What one-step postings of a FIFO product may leave between the ledgers: the goods
   arrive at the rounded average of the layers they left, so each posting may differ
   from what it relieved by half a cost unit per unit and two roundings to the cent. *)
PostedApart(p, d) == IF d.status = "POSTED" /\ d.lines[p].qty # 0 THEN 2 * Scale + d.lines[p].qty ELSE 0
LedgerSlack(p) ==
  IF MethodOf[p] = "FIFO" THEN SumFunction([t \in Transfers |-> PostedApart(p, doc[t])]) ELSE 0

(* inventory_gl_reconciliation: the inventory control account is the sum of the
   movement values, product by product, whatever is in transit or written off: to the
   cent, but for the one-step transfers of FIFO products, which post no journal. *)
Reconciled ==
  \A p \in Products :
    LET apart == Scale * (inventory[p] - stock[p].value)
    IN  2 * apart <= LedgerSlack(p) /\ -2 * apart <= LedgerSlack(p)

(* No unit is lost or duplicated: what came in is on hand, in transit, or was
   written off as lost in transit. *)
StockConserved ==
  \A p \in Products :
    ghost.brought[p] = TotalOnHand(stock[p]) + ghost.lost[p]
      + SumFunction([t \in Transfers |-> InTransit(doc[t].lines[p])])

(* Half a cent for each posting to 1010, and for a FIFO line, whose unit cost is
   the rounded average of the layers it relieved, half a cost unit per unit. *)
TransitSlack(t, p) ==
  Scale * ghost.posts[t][p] + (IF MethodOf[p] = "FIFO" THEN doc[t].lines[p].sent ELSE 0)

(* The In Transit account of a line is worth what is still in transit, at the
   dispatched cost, to rounding: partial receipts, short closes and
   cancellations never leave more than their own rounding behind. *)
TransitWithinRounding ==
  \A t \in Transfers, p \in Products :
    LET line  == doc[t].lines[p]
        drift == Scale * transit[t][p] - InTransit(line) * line.cost
    IN  2 * drift <= TransitSlack(t, p) /\ -2 * drift <= TransitSlack(t, p)
=============================================================================
