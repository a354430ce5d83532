---------------------------- MODULE CustomerOrders ----------------------------
(***************************************************************************)
(* Customer sales orders and the stock they hold: the order endpoints of   *)
(* views.py over reserve_stock, release_reservations and                   *)
(* consume_reservations of services/inventory.py.                          *)
(*                                                                         *)
(* Each endpoint is one transaction, but it reads the order row without a  *)
(* lock before it writes: a request is a Load, then a commit step that     *)
(* uses what it loaded (READ COMMITTED).  The first write of every         *)
(* endpoint but delete is the order row, whose lock it then holds, so the  *)
(* rest of it is one step.  Delete reads and locks the order's active      *)
(* reservations before it writes the order row, which is one step more.    *)
(*                                                                         *)
(* The product is one, in base units, and a request may fail at any time   *)
(* (a refused reservation, a customer on hold or over the credit limit, a  *)
(* deadlock victim, a lost connection), which rolls it back.  Stock leaves *)
(* by Issue only: receipts and other issues are StockLedger's.             *)
(***************************************************************************)
EXTENDS Integers, SequencesExt, FiniteSets

CONSTANTS
  Orders, Clients, Locations,
  NoLocation,       \* an order that holds nothing holds it nowhere
  DefaultLocation,  \* the warehouse of an order that names none
  OnHand,           \* stock on hand at each location to begin with
  Quantities,       \* quantities an order may be for
  BlockNegative,    \* Tenant.block_negative_stock
  Quotes,           \* are quotes converted to orders?
  Idle,             \* a client with no request under way
  InvoiceLimit      \* bound: invoices raised from one order

ASSUME QuantityAssumption == Quantities \subseteq Nat \ {0} /\ OnHand \in [Locations -> Nat]
ASSUME PlaceAssumption == NoLocation \notin Locations /\ DefaultLocation \in Locations
ASSUME FlagAssumption == BlockNegative \in BOOLEAN /\ Quotes \in BOOLEAN
ASSUME FiniteAssumption == IsFiniteSet(Orders)

VARIABLES
  order,     \* Orders -> status, location and quantity of the order
  hold,      \* Orders -> its ACTIVE reservation
  reserved,  \* Locations -> InventoryBalance.reserved
  onhand,    \* Locations -> InventoryBalance.on_hand
  drafts,    \* Orders -> its draft invoices, not issued yet
  history,   \* Orders -> invoices raised, quantity consumed, quantity shipped
  req        \* Clients -> the request under way

vars == <<order, hold, reserved, onhand, drafts, history, req>>

Statuses == {"NONE", "DRAFT", "CONFIRMED", "INVOICED", "CANCELLED", "DELETED"}
Exists(o) == order[o].status \notin {"NONE", "DELETED"}
NoHold == [loc |-> NoLocation, qty |-> 0]

Init ==
  /\ order = [o \in Orders |-> [status |-> "NONE", loc |-> DefaultLocation, qty |-> 0]]
  /\ hold = [o \in Orders |-> NoHold]
  /\ reserved = [l \in Locations |-> 0]
  /\ onhand = OnHand
  /\ drafts = [o \in Orders |-> <<>>]
  /\ history = [o \in Orders |-> [invoices |-> 0, consumed |-> 0, shipped |-> 0]]
  /\ req = [c \in Clients |-> Idle]

-----------------------------------------------------------------------------
(* Slip: the balance is not locked and unheld for the reservation's own
   location, but for the order's. *)
FreedAtOrder(o) ==
  IF hold[o].qty = 0 THEN reserved ELSE [reserved EXCEPT ![order[o].loc] = @ - hold[o].qty]

(* The reserved balances once the active reservation of o is unheld. *)
Freed(o) ==
  IF hold[o].qty = 0 THEN reserved ELSE [reserved EXCEPT ![hold[o].loc] = @ - hold[o].qty]

(* release_reservations. *)
Release(o) == reserved' = Freed(o) /\ hold' = [hold EXCEPT ![o] = NoHold]

(* Slip: the test is against stock on hand, not against what is available. *)
PromisableOnHand(o, loc, qty) == (BlockNegative /\ qty > 0) => qty <= onhand[loc]

(* The refusal of reserve_stock: a strict tenant promises no more than is on
   hand and unreserved. *)
Promisable(o, loc, qty) ==
  (BlockNegative /\ qty > 0) => qty <= onhand[loc] - Freed(o)[loc]

(* _reserve_customer_order: what the order held is released, and its lines are
   reserved afresh. *)
Reserve(o, loc, qty) ==
  /\ Promisable(o, loc, qty)
  /\ reserved' = [Freed(o) EXCEPT ![loc] = @ + qty]
  /\ hold' = [hold EXCEPT ![o] = IF qty > 0 THEN [loc |-> loc, qty |-> qty] ELSE NoHold]

-----------------------------------------------------------------------------
(* corder_create: a draft order. *)
Create(o, loc, qty) ==
  /\ order[o].status = "NONE"
  /\ order' = [order EXCEPT ![o] = [status |-> "DRAFT", loc |-> loc, qty |-> qty]]
  /\ UNCHANGED <<hold, reserved, onhand, drafts, history, req>>

(* quote_to_order: a CONFIRMED order with the quote's lines. *)
ConvertQuote(o, qty) ==
  /\ Quotes
  /\ order[o].status = "NONE"
  /\ order' = [order EXCEPT ![o] = [status |-> "CONFIRMED", loc |-> DefaultLocation, qty |-> qty]]
  /\ UNCHANGED <<hold, reserved, onhand, drafts, history, req>>

(* ar_invoice_issue: the draft's quantity leaves its location.  A strict tenant
   refuses to overdraw the location; reservations are not looked at. *)
Issue(o) ==
  LET draft == Head(drafts[o])
  IN  /\ drafts[o] # <<>>
      /\ BlockNegative => draft.qty <= onhand[draft.loc]
      /\ onhand' = [onhand EXCEPT ![draft.loc] = @ - draft.qty]
      /\ drafts' = [drafts EXCEPT ![o] = Tail(@)]
      /\ history' = [history EXCEPT ![o].shipped = @ + draft.qty]
      /\ UNCHANGED <<order, hold, reserved, req>>

-----------------------------------------------------------------------------
Ops == {"confirm", "cancel", "invoice", "edit", "delete"}

(* What the endpoint checks of the order it loaded. *)
Admits(op, status) ==
  CASE op = "edit"   -> status \in {"DRAFT", "CONFIRMED"}
    [] op = "delete" -> status # "INVOICED"
    [] OTHER         -> TRUE

(* A request reads the order.  form is what an edit will save. *)
Load(c, op, o, form) ==
  /\ req[c] = Idle
  /\ Exists(o)
  /\ Admits(op, order[o].status)
  /\ op = "invoice" => history[o].invoices < InvoiceLimit
  /\ req' = [req EXCEPT ![c] = [op |-> op, order |-> o, seen |-> order[o], form |-> form,
                                scan |-> "none"]]
  /\ UNCHANGED <<order, hold, reserved, onhand, drafts, history>>

Done(c) == req' = [req EXCEPT ![c] = Idle]

(* A delete holds the locks of the reservations of o that it found. *)
Locked(o) ==
  \E c \in Clients : req[c] # Idle /\ req[c].order = o /\ req[c].scan = "found"

(* corder_status confirm: the status, then the reservations: for the lines as
   they are now, at the location of the order as it was loaded. *)
Confirm(c) ==
  LET r == req[c]
  IN  /\ r # Idle /\ r.op = "confirm" /\ Exists(r.order) /\ ~Locked(r.order)
      /\ order' = [order EXCEPT ![r.order].status = "CONFIRMED"]
      /\ Reserve(r.order, r.seen.loc, order[r.order].qty)
      /\ Done(c)
      /\ UNCHANGED <<onhand, drafts, history>>

(* corder_status cancel. *)
Cancel(c) ==
  LET r == req[c]
  IN  /\ r # Idle /\ r.op = "cancel" /\ Exists(r.order) /\ ~Locked(r.order)
      /\ order' = [order EXCEPT ![r.order].status = "CANCELLED"]
      /\ Release(r.order)
      /\ Done(c)
      /\ UNCHANGED <<onhand, drafts, history>>

(* corder_to_invoice: a draft invoice for the lines as they were read, before
   the status is written and the reservation consumed. *)
ToInvoice(c) ==
  LET r == req[c]
  IN  /\ r # Idle /\ r.op = "invoice" /\ Exists(r.order) /\ ~Locked(r.order)
      /\ order' = [order EXCEPT ![r.order].status = "INVOICED"]
      /\ drafts' = [drafts EXCEPT ![r.order] =
                      Append(@, [loc |-> r.seen.loc, qty |-> r.seen.qty])]
      /\ history' = [history EXCEPT ![r.order].invoices = @ + 1,
                                    ![r.order].consumed = @ + hold[r.order].qty]
      /\ Release(r.order)
      /\ Done(c)
      /\ UNCHANGED onhand

(* The quantity after an edit: a line is written when the form changed it.  A
   line that was deleted meanwhile and is not written is gone. *)
Edited(r) ==
  IF r.form.qty # r.seen.qty THEN r.form.qty
  ELSE IF Exists(r.order) THEN order[r.order].qty ELSE 0

(* corder_edit saves every column of the order it loaded, its status included
   (and inserts the row again if it is gone), then its lines, and reserves
   afresh if the order was confirmed when it was loaded. *)
Edit(c) ==
  LET r == req[c]
  IN  /\ r # Idle /\ r.op = "edit"
      /\ order' = [order EXCEPT ![r.order] =
                     [status |-> r.seen.status, loc |-> r.form.loc, qty |-> Edited(r)]]
      /\ IF r.seen.status = "CONFIRMED"
           THEN ~Locked(r.order) /\ Reserve(r.order, r.form.loc, Edited(r))
           ELSE UNCHANGED <<hold, reserved>>
      /\ Done(c)
      /\ UNCHANGED <<onhand, drafts, history>>

(* corder_delete, first the release: it locks the active reservations it
   finds, and none that appears later ... *)
Scan(c) ==
  LET r == req[c]
  IN  /\ r # Idle /\ r.op = "delete" /\ r.scan = "none" /\ ~Locked(r.order)
      /\ req' = [req EXCEPT ![c].scan = IF hold[r.order].qty > 0 THEN "found" ELSE "clear"]
      /\ UNCHANGED <<order, hold, reserved, onhand, drafts, history>>

(* Slip: the release before the delete is left out. *)
DeleteUnreleased(c) ==
  LET r == req[c]
  IN  /\ r # Idle /\ r.op = "delete" /\ r.scan # "none"
      /\ order' = [order EXCEPT ![r.order].status = "DELETED"]
      /\ Done(c)
      /\ UNCHANGED <<hold, reserved, onhand, drafts, history>>

(* ... then the order row itself. *)
Delete(c) ==
  LET r == req[c]
  IN  /\ r # Idle /\ r.op = "delete" /\ r.scan # "none"
      /\ order' = [order EXCEPT ![r.order].status = "DELETED"]
      /\ IF r.scan = "found" THEN Release(r.order) ELSE UNCHANGED <<hold, reserved>>
      /\ Done(c)
      /\ UNCHANGED <<onhand, drafts, history>>

(* The transaction is rolled back. *)
Fail(c) ==
  /\ req[c] # Idle
  /\ Done(c)
  /\ UNCHANGED <<order, hold, reserved, onhand, drafts, history>>

Next ==
  \/ \E o \in Orders, loc \in Locations, qty \in Quantities : Create(o, loc, qty)
  \/ \E o \in Orders, qty \in Quantities : ConvertQuote(o, qty)
  \/ \E o \in Orders : Issue(o)
  \/ \E c \in Clients, op \in Ops \ {"edit"}, o \in Orders : Load(c, op, o, NoHold)
  \/ \E c \in Clients, o \in Orders, loc \in Locations, qty \in Quantities :
        Load(c, "edit", o, [loc |-> loc, qty |-> qty])
  \/ \E c \in Clients :
        \/ Confirm(c) \/ Cancel(c) \/ ToInvoice(c) \/ Edit(c)
        \/ Scan(c) \/ Delete(c) \/ Fail(c)

Spec == Init /\ [][Next]_vars

-----------------------------------------------------------------------------
Lines == [loc : Locations, qty : Quantities \cup {0}]
Document == [status : Statuses, loc : Locations, qty : Quantities \cup {0}]
Hold == [loc : Locations, qty : Quantities]
Request == [op : Ops, order : Orders, seen : Document, form : Hold \cup {NoHold},
            scan : {"none", "found", "clear"}]

(* TypeOK: rows hold what their columns may hold, and an order has at most one
   active reservation, for a quantity it was given. *)
TypeOK ==
  /\ order \in [Orders -> Document]
  /\ hold \in [Orders -> Hold \cup {NoHold}]
  /\ reserved \in [Locations -> Int] /\ onhand \in [Locations -> Int]
  /\ drafts \in [Orders -> Seq(Lines)]
  /\ history \in [Orders -> [invoices : Nat, consumed : Nat, shipped : Nat]]
  /\ req \in [Clients -> Request \cup {Idle}]
  /\ \A c \in Clients : req[c] # Idle /\ req[c].op = "edit" => req[c].form \in Hold

(* What each order holds at a location. *)
HeldAt(l) == [o \in Orders |-> IF hold[o].loc = l THEN hold[o].qty ELSE 0]

(* The reserved balance of a location is the sum of the active reservations
   there, whatever requests race: no hold is leaked, freed twice, or freed at
   another location than it was made at. *)
ReservedIsHeld == \A l \in Locations : reserved[l] = SumFunction(HeldAt(l))

(* A strict tenant never promises stock it has not got: a step that reserves
   more at a location leaves no more reserved than is on hand there. *)
PromisesWithinStock ==
  [][BlockNegative => \A l \in Locations : reserved'[l] > reserved[l] => reserved'[l] <= onhand[l]]_vars

(* An order holds its lines, at its location, exactly while it is confirmed. *)
HoldsItsLines(o) ==
  hold[o] = IF order[o].status = "CONFIRMED"
              THEN [loc |-> order[o].loc, qty |-> order[o].qty] ELSE NoHold
=============================================================================
