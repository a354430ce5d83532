------------------------------ MODULE Procurement ------------------------------
(***************************************************************************)
(* Purchasing of one product: the versions of a purchase order, shipments, *)
(* goods receipts and supplier invoices, with the journals they post (the  *)
(* po_*, shipment_*, receive_po and invoice_* endpoints of views.py over   *)
(* services/purchasing.py and services/gl.py).                             *)
(*                                                                         *)
(* Receiving, amending and posting a supplier invoice read rows they do    *)
(* not lock and write later: each is a Load and a commit (READ COMMITTED). *)
(* The other endpoints change the status of one row and are one step.      *)
(*                                                                         *)
(* A unit costs 1 on the order, so received quantities are also values.    *)
(* Bill lines name their order line and their receipt line.                *)
(***************************************************************************)
EXTENDS Integers, FiniteSets, Functions

CONSTANTS
  LastVersion,   \* bound: versions of the order, 1 the original
  Shipments, Receipts, Bills, Clients,
  Orderable,     \* quantities that may be ordered
  Quantities,    \* quantities that may be received, billed or allocated
  Prices,        \* unit costs a bill may ask
  Landed,        \* landed costs a receipt may carry
  Threshold,     \* Tenant.po_approval_threshold, 0 for none
  None,          \* no order version, no receipt
  Idle,          \* a client with no request under way
  MaxOverlaps    \* bound: requests that start while another is under way

ASSUME VersionAssumption == LastVersion \in Nat \ {0}
ASSUME QuantityAssumption ==
  Orderable \cup Quantities \cup Prices \subseteq Nat \ {0} /\ Landed \subseteq Nat /\ Threshold \in Nat
ASSUME BoundAssumption == MaxOverlaps \in Nat
ASSUME NoneAssumption == None \notin Shipments \cup Receipts \cup (1 .. LastVersion)
ASSUME FiniteAssumption == IsFiniteSet(Receipts) /\ IsFiniteSet(Bills)

Versions == 1 .. LastVersion

VARIABLES
  po,    \* Versions -> PurchaseOrder and its line
  ship,  \* Shipments -> Shipment and its line
  grn,   \* Receipts -> GoodsReceipt, its line and its landed cost
  bill,  \* Bills -> SupplierInvoice and its line
  acc,   \* the balances of GRNI, accruals, purchase price variance and payables
  req,   \* Clients -> the request under way
  overlaps   \* history: requests that started while another was under way

vars == <<po, ship, grn, bill, acc, req, overlaps>>

Statuses == {"NONE", "DRAFT", "SUBMITTED", "APPROVAL_PENDING", "APPROVED", "SENT", "IN_TRANSIT",
             "PARTIALLY_RECEIVED", "RECEIVED", "BILLED", "CLOSED", "CANCELLED"}
BillStatuses == {"NONE", "DRAFT", "MATCHED", "APPROVED", "POSTED"}
Accounts == {"grni", "accruals", "ppv", "ap"}

PurchaseOrder == [status : Statuses, required : BOOLEAN, approved : BOOLEAN,
                  ordered : Nat, received : Nat]
Shipment == [po : Versions \cup {None}, lines : BOOLEAN, expected : Int, received : Nat]
GoodsReceipt == [ship : Shipments \cup {None}, qty : Nat, landed : Nat]
SupplierInvoice == [status : BillStatuses, grn : Receipts \cup {None}, qty : Nat,
                    price : Nat, journal : BOOLEAN, cleared : Nat]

Amendments == [op : {"amend"}, of : Versions, seen : Nat, qty : Nat]
Deliveries == [op : {"receive"}, of : Shipments, seen : Nat, qty : Nat]
Postings == [op : {"post"}, of : Bills, seen : Nat, qty : Nat]

Init ==
  /\ po = [v \in Versions |-> [status |-> "NONE", required |-> FALSE, approved |-> FALSE,
                               ordered |-> 0, received |-> 0]]
  /\ ship = [s \in Shipments |-> [po |-> None, lines |-> FALSE, expected |-> 0, received |-> 0]]
  /\ grn = [g \in Receipts |-> [ship |-> None, qty |-> 0, landed |-> 0]]
  /\ bill = [b \in Bills |-> [status |-> "NONE", grn |-> None, qty |-> 0, price |-> 0, journal |-> FALSE,
                              cleared |-> 0]]
  /\ acc = [a \in Accounts |-> 0]
  /\ req = [c \in Clients |-> Idle]
  /\ overlaps = 0

Start ==
  IF \A c \in Clients : req[c] = Idle
    THEN UNCHANGED overlaps
    ELSE overlaps < MaxOverlaps /\ overlaps' = overlaps + 1

calm == overlaps = 0

-----------------------------------------------------------------------------
(* What the receipts say was received of the line, whatever version they name. *)
ReceivedIn(receipts) == SumFunction([g \in Receipts |-> receipts[g].qty])

(* Slip: only the version received against is brought up to date. *)
SyncedOne(receipts, v) == [po EXCEPT ![v].received = ReceivedIn(receipts)]

(* sync_po_line_received: every version of the line holds the receipts' total. *)
Synced(receipts, v) ==
  [w \in Versions |-> IF po[w].status = "NONE" THEN po[w]
                      ELSE [po[w] EXCEPT !.received = ReceivedIn(receipts)]]

Open(v) == po[v].ordered - po[v].received

ShipmentsOf(v) == {s \in Shipments : ship[s].po = v}

(* get_or_create of the order's shipment: an error when there are two. *)
ShipmentFor(v, s) ==
  \/ ShipmentsOf(v) = {s}
  \/ ShipmentsOf(v) = {} /\ ship[s].po = None

NeedsApproval(q) == Threshold > 0 /\ q > Threshold

SubmittedStatus(q) == IF NeedsApproval(q) THEN "APPROVAL_PENDING" ELSE "SUBMITTED"

Only(changed) ==
  /\ Start
  /\ UNCHANGED req
  /\ "ship" \notin changed => UNCHANGED ship
  /\ "po" \notin changed => UNCHANGED po
  /\ "bill" \notin changed => UNCHANGED bill
  /\ UNCHANGED <<grn, acc>>

-----------------------------------------------------------------------------
(* po_create: saved as a draft, or submitted with a shipment that has no lines. *)
Create(q, submit, s) ==
  /\ po[1].status = "NONE"
  /\ po' = [po EXCEPT ![1] = [status |-> IF submit THEN SubmittedStatus(q) ELSE "DRAFT",
                              required |-> submit /\ NeedsApproval(q), approved |-> FALSE,
                              ordered |-> q, received |-> 0]]
  /\ IF submit /\ ~NeedsApproval(q)
       THEN ShipmentFor(1, s) /\ ship' = [ship EXCEPT ![s].po = 1]
       ELSE UNCHANGED ship
  /\ Only({"po", "ship"})

(* po_submit: a shipment is planned, its line expecting what is open, and kept
   in step with the order while nothing has come. *)
Submit(v, s) ==
  /\ po[v].status = "DRAFT"
  /\ po' = [po EXCEPT ![v].status = SubmittedStatus(po[v].ordered),
                      ![v].required = NeedsApproval(po[v].ordered)]
  /\ ShipmentFor(v, s)
  /\ ship' = [ship EXCEPT ![s] = [po |-> v, lines |-> TRUE,
                                  expected |-> IF ~@.lines \/ @.received = 0 THEN Open(v)
                                               ELSE @.expected,
                                  received |-> @.received]]
  /\ Only({"po", "ship"})

(* po_approve: the shipment gets its line if it has none. *)
Approve(v, s) ==
  /\ po[v].status \in {"SUBMITTED", "APPROVAL_PENDING"}
  /\ po' = [po EXCEPT ![v].status = "APPROVED", ![v].required = FALSE, ![v].approved = TRUE]
  /\ ShipmentFor(v, s)
  /\ ship' = [ship EXCEPT ![s] = [po |-> v, lines |-> TRUE,
                                  expected |-> IF @.lines THEN @.expected ELSE Open(v),
                                  received |-> @.received]]
  /\ Only({"po", "ship"})

(* po_send: an order that waits for approval may be sent; it keeps its flag. *)
Send(v) ==
  /\ po[v].status \in {"SUBMITTED", "APPROVED", "APPROVAL_PENDING"}
  /\ po' = [po EXCEPT ![v].status = "SENT"]
  /\ Only({"po"})

(* po_cancel: with receipts, only what is still open is given up. *)
Cancel(v) ==
  /\ po[v].status \notin {"NONE", "CANCELLED", "CLOSED"}
  /\ po' = IF po[v].received = 0 THEN [po EXCEPT ![v].status = "CANCELLED"]
           ELSE IF Open(v) < 0 THEN po
           ELSE [po EXCEPT ![v].status = "CLOSED", ![v].ordered = po[v].received]
  /\ Only({"po"})

(* shipment_new: a further shipment, nothing allocated to it yet. *)
NewShipment(v, s) ==
  /\ po[v].status \notin {"NONE", "DRAFT"}
  /\ ship[s].po = None
  /\ ship' = [ship EXCEPT ![s] = [po |-> v, lines |-> TRUE, expected |-> 0, received |-> 0]]
  /\ Only({"ship"})

(* shipment_detail, "update_shipment": a shipment under way puts its order in
   transit, whatever the order was. *)
Depart(s) ==
  /\ ship[s].po # None
  /\ po' = [po EXCEPT ![ship[s].po].status = "IN_TRANSIT"]
  /\ Only({"po"})

(* shipment_detail, "allocate": any quantity from what came already upwards. *)
Allocate(s, q) ==
  /\ ship[s].lines
  /\ q >= ship[s].received
  /\ ship' = [ship EXCEPT ![s].expected = q]
  /\ Only({"ship"})

-----------------------------------------------------------------------------
Request(c, r) ==
  /\ req[c] = Idle
  /\ req' = [req EXCEPT ![c] = r]
  /\ Start
  /\ UNCHANGED <<po, ship, grn, bill, acc>>

Answer(c) == req' = [req EXCEPT ![c] = Idle] /\ UNCHANGED overlaps

(* po_amend reads the order and what was received of its line. *)
LoadAmend(c, v) ==
  /\ po[v].status \notin {"NONE", "DRAFT", "CANCELLED", "CLOSED"}
  /\ Request(c, [op |-> "amend", of |-> v, seen |-> ReceivedIn(grn), qty |-> 0])

(* po_amend, its writes: the next version is a draft; versions are unique. *)
Amend(c) ==
  LET r == req[c]  w == r.of + 1
  IN  /\ r # Idle /\ r.op = "amend"
      /\ w \in Versions /\ po[w].status = "NONE"
      /\ po' = [po EXCEPT ![w] = [status |-> "DRAFT", required |-> FALSE, approved |-> FALSE,
                                  ordered |-> po[r.of].ordered, received |-> r.seen]]
      /\ Answer(c)
      /\ UNCHANGED <<ship, grn, bill, acc>>

(* Slip: an order that was sent is taken for one that was approved. *)
MayReceiveSent(v) == po[v].status # "APPROVAL_PENDING"

(* receive_po is refused only while approval is wanting: cancelled, closed and
   superseded orders may be received. *)
MayReceive(v) == ~po[v].required /\ po[v].status # "APPROVAL_PENDING"

(* receive_po reads the shipment line and checks the quantity against it. *)
LoadReceive(c, s, q) ==
  /\ ship[s].po # None /\ ship[s].lines
  /\ MayReceive(ship[s].po)
  /\ q <= ship[s].expected - ship[s].received
  /\ Request(c, [op |-> "receive", of |-> s, seen |-> ship[s].received, qty |-> q])

(* receive_po, its writes: the receipt and its journal, the shipment line from
   what was read, the received quantity of every version, the order's status. *)
Receive(c, g, landed) ==
  LET r == req[c]
      v == ship[r.of].po
      receipts == [grn EXCEPT ![g] = [ship |-> r.of, qty |-> r.qty, landed |-> landed]]
      lines == Synced(receipts, v)
  IN  /\ r # Idle /\ r.op = "receive"
      /\ grn[g].ship = None
      /\ grn' = receipts
      /\ ship' = [ship EXCEPT ![r.of].received = r.seen + r.qty]
      /\ po' = [lines EXCEPT ![v].status = IF lines[v].ordered = lines[v].received
                                             THEN "RECEIVED" ELSE "PARTIALLY_RECEIVED"]
      /\ acc' = [acc EXCEPT !["grni"] = @ + r.qty, !["accruals"] = @ + landed]
      /\ Answer(c)
      /\ UNCHANGED bill

-----------------------------------------------------------------------------
(* supplier_invoice_match_errors is empty. *)
Matches(g, q) == q <= grn[g].qty /\ q <= po[ship[grn[g].ship].po].ordered

(* invoice_create: "submit" matches, "approve" does not, "post" only marks it
   posted: the journal waits for invoice_post. *)
CreateBill(b, g, q, price, action) ==
  /\ bill[b].status = "NONE"
  /\ grn[g].ship # None
  /\ bill' = [bill EXCEPT ![b].grn = g, ![b].qty = q, ![b].price = price,
                ![b].status = CASE action = "approve" -> "APPROVED"
                                [] action = "submit" /\ Matches(g, q) -> "MATCHED"
                                [] action = "post" /\ Matches(g, q) -> "POSTED"
                                [] OTHER -> "DRAFT"]
  /\ Only({"bill"})

ClearedOn(g, b) ==
  SumFunction([a \in Bills |-> IF a # b /\ bill[a].grn = g /\ bill[a].status = "POSTED"
                                THEN bill[a].cleared ELSE 0])

(* Slip: what other bills of the receipt cleared is not taken off. *)
ToClearWhole(b) == grn[bill[b].grn].landed

(* The receipt's landed cost that no posted bill has cleared. *)
ToClear(b) ==
  LET left == grn[bill[b].grn].landed - ClearedOn(bill[b].grn, b)
  IN  IF left > 0 THEN left ELSE 0

Billed(b) == bill[b].qty * bill[b].price

(* GRNI is cleared at the value of the receipt, however much of it is billed. *)
GrniValue(b) == grn[bill[b].grn].qty

(* invoice_post reads the bill, its receipt and the receipt's other bills. *)
LoadPost(c, b) ==
  /\ bill[b].status # "NONE"
  /\ ~(bill[b].status = "POSTED" /\ bill[b].journal)
  /\ Matches(bill[b].grn, bill[b].qty)
  /\ Request(c, [op |-> "post", of |-> b, seen |-> ToClear(b), qty |-> 0])

(* post_supplier_invoice, its writes: one journal per bill by the constraint;
   the order becomes BILLED. *)
Post(c) ==
  LET r == req[c]
      b == r.of
      v == ship[grn[bill[b].grn].ship].po
  IN  /\ r # Idle /\ r.op = "post"
      /\ ~bill[b].journal
      /\ acc' = [acc EXCEPT !["grni"] = @ - GrniValue(b), !["accruals"] = @ - r.seen,
                            !["ppv"] = @ + Billed(b) - GrniValue(b),
                            !["ap"] = @ + Billed(b) + r.seen]
      /\ bill' = [bill EXCEPT ![b].status = "POSTED", ![b].journal = TRUE, ![b].cleared = r.seen]
      /\ po' = IF po[v].status \in {"CLOSED", "CANCELLED"} THEN po
               ELSE [po EXCEPT ![v].status = "BILLED"]
      /\ Answer(c)
      /\ UNCHANGED <<ship, grn>>

(* A request fails and is rolled back. *)
Fail(c) ==
  /\ req[c] # Idle
  /\ Answer(c)
  /\ UNCHANGED <<po, ship, grn, bill, acc>>

Next ==
  \/ \E q \in Orderable, b \in BOOLEAN, s \in Shipments : Create(q, b, s)
  \/ \E v \in Versions :
       \/ Send(v) \/ Cancel(v)
       \/ \E s \in Shipments : Submit(v, s) \/ Approve(v, s) \/ NewShipment(v, s)
       \/ \E c \in Clients : LoadAmend(c, v)
  \/ \E s \in Shipments :
       \/ Depart(s)
       \/ \E q \in Quantities : Allocate(s, q) \/ \E c \in Clients : LoadReceive(c, s, q)
  \/ \E b \in Bills, g \in Receipts, q \in Quantities, p \in Prices,
        a \in {"save", "submit", "approve", "post"} : CreateBill(b, g, q, p, a)
  \/ \E c \in Clients :
       \/ Amend(c) \/ Post(c) \/ Fail(c)
       \/ \E g \in Receipts, l \in Landed : Receive(c, g, l)
       \/ \E b \in Bills : LoadPost(c, b)

Spec == Init /\ [][Next]_vars

-----------------------------------------------------------------------------
(* Every variable keeps its type, and a version exists only once the one before
   it has left DRAFT. *)
TypeOK ==
  /\ po \in [Versions -> PurchaseOrder]
  /\ \A v \in Versions : po[v].status # "NONE" /\ v > 1
       => po[v - 1].status \notin {"NONE", "DRAFT"}
  /\ ship \in [Shipments -> Shipment]
  /\ grn \in [Receipts -> GoodsReceipt]
  /\ bill \in [Bills -> SupplierInvoice]
  /\ acc \in [Accounts -> Int]
  /\ req \in [Clients -> {Idle} \cup Amendments \cup Deliveries \cup Postings]
  /\ overlaps \in 0 .. MaxOverlaps

(* While requests do not overlap, the received quantity of every version of the
   order is what the posted receipts add up to, whichever version they were
   booked against and whenever it was amended (sync_po_line_received).  A
   receipt posted while the order is being amended escapes the new version. *)
ReceivedMatchesReceipts ==
  calm => \A v \in Versions : po[v].status # "NONE" => po[v].received = ReceivedIn(grn)

(* Nothing is received on an order that still wants the approval its submission
   asked for, though it may be sent, put in transit and given shipments
   (receive_po; an order cancelled as a draft was never submitted). *)
NothingUnapproved ==
  \A g \in Receipts : grn[g].ship # None => ~po[ship[grn[g].ship].po].required

(* The suspense accounts clear.  Every booked bill takes the value of its receipt off
   GRNI, neither more nor less: a receipt with one bill leaves nothing there, whatever was
   billed.  And while requests do not overlap, the bills never clear more landed cost than
   was accrued ("2150 is never over-cleared"). *)
SuspenseClears ==
  /\ acc["grni"] = ReceivedIn(grn)
                     - SumFunction([b \in Bills |-> IF bill[b].journal THEN GrniValue(b) ELSE 0])
  /\ calm => acc["accruals"] >= 0
=============================================================================
