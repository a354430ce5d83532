--------------------------- MODULE ProcurementProofs ---------------------------
(***************************************************************************)
(* What is proved of buying, of planning what to buy, and of placing what  *)
(* is made: of Procurement for every set of shipments, receipts, bills and *)
(* requests, every quantity, price and threshold; of Netting for every set *)
(* of item-sites, lot rules, BOMs, transfer sources, stock and demand; of  *)
(* Scheduling for every set of orders, planners, centres and calendars.    *)
(*                                                                         *)
(* Typed and Linked say what every row refers to.  Every step Advances:    *)
(* an order that left DRAFT never goes back and never starts to want       *)
(* approval, a shipment keeps its order, a receipt its shipment, a bill    *)
(* its receipt; with it the references and NothingUnapproved are inductive.*)
(*                                                                         *)
(* For the accounts, Ledger is inductive whatever requests overlap: GRNI   *)
(* is what was received less the value of the booked bills' receipts, and  *)
(* the accruals are the sum over the receipts of what is Left to clear.    *)
(* That no receipt is overcleared, and that every version of the order     *)
(* holds the received total, needs requests that do not overlap: Serial    *)
(* says that then one request at most is under way, and what it read still *)
(* holds.                                                                  *)
(*                                                                         *)
(* Of an MRP run, Walking says that the projected balance is what stock    *)
(* and receipts leave of the demand, with the walk's orders, and that the  *)
(* days behind are covered; Settled says the same of the walks that are    *)
(* over, in the rows and in the copy a failure restores.  DrawsCover       *)
(* counts what has been drawn on an item as a component and as a transfer  *)
(* source: never more than there is, and what is missing was ordered.      *)
(*                                                                         *)
(* Of scheduling, Sequenced says that the operations of an order follow    *)
(* one another, those a request has placed so far included, and that what  *)
(* it has yet to place goes before (or after) them; Roomy that on a finite *)
(* centre the operations that stay within a day have no more hours than    *)
(* its longest shift.  Both rest on what Backward and Forward return: a    *)
(* place in order, and no more hours in one day than it had room for.      *)
(***************************************************************************)
EXTENDS Procurement, Netting, Scheduling, SumTheorems

(* The types of the variables. *)
Typed ==
  /\ po \in [Versions -> PurchaseOrder]
  /\ ship \in [Shipments -> Shipment]
  /\ grn \in [Receipts -> GoodsReceipt]
  /\ bill \in [Bills -> SupplierInvoice]
  /\ acc \in [Accounts -> Int]
  /\ req \in [Clients -> {Idle} \cup Amendments \cup Deliveries \cup Postings]
  /\ overlaps \in 0 .. MaxOverlaps

(* The request of a client that is under way. *)
Doing(c, op) == req[c] # Idle /\ req[c].op = op

(* An order that has left DRAFT. *)
Sent(v) == po[v].status \notin {"NONE", "DRAFT"}

(* What the rows refer to exists and has got at least that far. *)
Linked ==
  /\ \A v \in Versions : po[v].status # "NONE" /\ v > 1 => Sent(v - 1)
  /\ \A v \in Versions : po[v].status # "NONE" => po[1].status # "NONE"
  /\ \A s \in Shipments : ship[s].po # None => Sent(ship[s].po)
  /\ \A s \in Shipments : ship[s].lines => ship[s].po # None
  /\ \A g \in Receipts :
       IF grn[g].ship = None THEN grn[g].qty = 0 /\ grn[g].landed = 0
                             ELSE ship[grn[g].ship].po # None
  /\ \A b \in Bills : bill[b].status # "NONE" => bill[b].grn \in Receipts /\ grn[bill[b].grn].ship # None
  /\ \A b \in Bills : IF bill[b].journal THEN bill[b].status = "POSTED" ELSE bill[b].cleared = 0
  /\ \A c \in Clients :
       /\ Doing(c, "amend") => Sent(req[c].of)
       /\ Doing(c, "receive") => ship[req[c].of].po # None
       /\ Doing(c, "post") => bill[req[c].of].status # "NONE"


(* What a set of receipts adds up to is a quantity (sync_po_line_received). *)
LEMMA ReceivedNatural ==
  ASSUME NEW r \in [Receipts -> GoodsReceipt]
  PROVE  ReceivedIn(r) \in Nat
<1> DEFINE f == [g \in Receipts |-> r[g].qty]
<1>1. f \in [Receipts -> Nat]
  BY DEF GoodsReceipt
<1> QED BY <1>1, FiniteAssumption, SumNatural DEF ReceivedIn

(* What a bill finds to clear is never negative (post_supplier_invoice). *)
LEMMA ToClearNatural ==
  ASSUME Typed, NEW b \in Bills, bill[b].grn \in Receipts
  PROVE  ToClear(b) \in Nat
<1> DEFINE f == [a \in Bills |-> IF a # b /\ bill[a].grn = bill[b].grn /\ bill[a].status = "POSTED"
                                 THEN bill[a].cleared ELSE 0]
<1>1. f \in [Bills -> Nat]
  BY DEF Typed, SupplierInvoice
<1>2. ClearedOn(bill[b].grn, b) \in Nat
  BY <1>1, FiniteAssumption, SumNatural DEF ClearedOn
<1> QED BY <1>2 DEF ToClear, Typed, GoodsReceipt

(* Starting a request keeps within the bound of overlaps. *)
LEMMA StartTyped == ASSUME overlaps \in 0 .. MaxOverlaps, Start PROVE overlaps' \in 0 .. MaxOverlaps
BY BoundAssumption DEF Start


(* The fields of the rows, from their types. *)
LEMMA RowsTyped ==
  ASSUME Typed
  PROVE  /\ \A v \in Versions : po[v].ordered \in Nat /\ po[v].received \in Nat
         /\ \A s \in Shipments : ship[s].received \in Nat /\ ship[s].expected \in Int
         /\ \A s \in Shipments : ship[s].po \in Versions \cup {None}
         /\ \A g \in Receipts : grn[g].ship \in Shipments \cup {None} /\ grn[g].qty \in Nat /\ grn[g].landed \in Nat
         /\ \A b \in Bills : bill[b].qty \in Nat /\ bill[b].price \in Nat /\ bill[b].cleared \in Nat
                              /\ bill[b].journal \in BOOLEAN /\ bill[b].grn \in Receipts \cup {None}
BY DEF Typed, PurchaseOrder, Shipment, GoodsReceipt, SupplierInvoice

(* The empty books are typed and linked. *)
THEOREM InitTyped == Init => Typed /\ Linked
<1> SUFFICES ASSUME Init PROVE Typed /\ Linked
  OBVIOUS
<1>1. po \in [Versions -> PurchaseOrder]
  BY DEF Init, PurchaseOrder, Statuses
<1>2. ship \in [Shipments -> Shipment]
  BY DEF Init, Shipment
<1>3. grn \in [Receipts -> GoodsReceipt]
  BY DEF Init, GoodsReceipt
<1>4. bill \in [Bills -> SupplierInvoice]
  BY DEF Init, SupplierInvoice, BillStatuses
<1>5. acc \in [Accounts -> Int] /\ overlaps \in 0 .. MaxOverlaps
  BY BoundAssumption DEF Init, Accounts
<1>6. req \in [Clients -> {Idle} \cup Amendments \cup Deliveries \cup Postings]
  BY DEF Init
<1>7. Typed
  BY <1>1, <1>2, <1>3, <1>4, <1>5, <1>6 DEF Typed
<1>8. Linked
  BY VersionAssumption DEF Init, Linked, Doing, Sent, Versions
<1> QED BY <1>7, <1>8

(* Every endpoint keeps the types, reading only rows that exist. *)
THEOREM NextTyped == ASSUME Typed, Linked, Next PROVE Typed'
<1> USE DEF Only
<1>1. ASSUME NEW q \in Orderable, NEW b \in BOOLEAN, NEW s \in Shipments, Create(q, b, s)
      PROVE  Typed'
  <2> DEFINE row == [status |-> IF b THEN SubmittedStatus(q) ELSE "DRAFT",
                     required |-> b /\ NeedsApproval(q), approved |-> FALSE,
                     ordered |-> q, received |-> 0]
  <2>1. NeedsApproval(q) \in BOOLEAN /\ SubmittedStatus(q) \in Statuses /\ q \in Nat
    BY QuantityAssumption DEF NeedsApproval, SubmittedStatus, Statuses
  <2>2. row \in PurchaseOrder
    BY <2>1 DEF PurchaseOrder, Statuses
  <2>3. po' = [po EXCEPT ![1] = row]
    BY <1>1 DEF Create
  <2>4. po' \in [Versions -> PurchaseOrder]
    BY <2>2, <2>3 DEF Typed
  <2>5. ship' \in [Shipments -> Shipment]
    <3>1. 1 \in Versions
      BY VersionAssumption DEF Versions
    <3>2. ship' = ship \/ ship' = [ship EXCEPT ![s].po = 1]
      BY <1>1 DEF Create
    <3> QED BY <3>1, <3>2 DEF Shipment, Typed
  <2> QED BY <1>1, <2>4, <2>5, StartTyped DEF Create, Typed
<1>2. ASSUME NEW v \in Versions, Send(v)
      PROVE  Typed'
  BY <1>2, StartTyped DEF Send, Typed, PurchaseOrder, Statuses
<1>3. ASSUME NEW v \in Versions, Cancel(v)
      PROVE  Typed'
  <2>1. po' \in [Versions -> PurchaseOrder]
    <3>1. \A w \in Versions : po[w] \in PurchaseOrder
      BY DEF Typed
    <3>2. [po[v] EXCEPT !.status = "CANCELLED"] \in PurchaseOrder
      BY <3>1 DEF PurchaseOrder, Statuses
    <3>3. [po[v] EXCEPT !.status = "CLOSED", !.ordered = po[v].received] \in PurchaseOrder
      BY <3>1 DEF PurchaseOrder, Statuses
    <3>4. \/ po' = [po EXCEPT ![v] = [po[v] EXCEPT !.status = "CANCELLED"]]
          \/ po' = po
          \/ po' = [po EXCEPT ![v] = [po[v] EXCEPT !.status = "CLOSED", !.ordered = po[v].received]]
      BY <1>3 DEF Cancel, Typed
    <3> QED BY <3>2, <3>3, <3>4 DEF Typed
  <2> QED BY <1>3, <2>1, StartTyped DEF Cancel, Typed
<1>4. ASSUME NEW v \in Versions, NEW s \in Shipments, Submit(v, s)
      PROVE  Typed'
  <2>1. Open(v) \in Int
    BY RowsTyped DEF Open
  <2>2. SubmittedStatus(po[v].ordered) \in Statuses /\ NeedsApproval(po[v].ordered) \in BOOLEAN
    BY DEF SubmittedStatus, NeedsApproval, Statuses
  <2>3. po' \in [Versions -> PurchaseOrder]
    BY <1>4, <2>2 DEF Submit, Typed, PurchaseOrder
  <2>4. ship' \in [Shipments -> Shipment]
    BY <1>4, <2>1 DEF Submit, Typed, Shipment
  <2> QED BY <1>4, <2>3, <2>4, StartTyped DEF Submit, Typed
<1>5. ASSUME NEW v \in Versions, NEW s \in Shipments, Approve(v, s)
      PROVE  Typed'
  <2>1. Open(v) \in Int
    BY RowsTyped DEF Open
  <2>3. po' \in [Versions -> PurchaseOrder]
    <3>1. "APPROVED" \in Statuses
      BY DEF Statuses
    <3>2. po' = [po EXCEPT ![v].status = "APPROVED", ![v].required = FALSE, ![v].approved = TRUE]
      BY <1>5 DEF Approve
    <3> QED BY <3>1, <3>2 DEF Typed, PurchaseOrder
  <2>4. ship' \in [Shipments -> Shipment]
    BY <1>5, <2>1 DEF Approve, Typed, Shipment
  <2> QED BY <1>5, <2>3, <2>4, StartTyped DEF Approve, Typed
<1>6. ASSUME NEW v \in Versions, NEW s \in Shipments, NewShipment(v, s)
      PROVE  Typed'
  BY <1>6, StartTyped DEF NewShipment, Typed, Shipment
<1>7. ASSUME NEW v \in Versions, NEW c \in Clients, LoadAmend(c, v)
      PROVE  Typed'
  BY <1>7, StartTyped, ReceivedNatural DEF LoadAmend, Request, Amendments, Typed
<1>8. ASSUME NEW s \in Shipments, Depart(s)
      PROVE  Typed'
  BY <1>8, StartTyped DEF Depart, Typed, PurchaseOrder, Statuses, Shipment
<1>9. ASSUME NEW s \in Shipments, NEW q \in Quantities, Allocate(s, q)
      PROVE  Typed'
  <2>1. q \in Int
    BY QuantityAssumption
  <2> QED BY <1>9, <2>1, StartTyped DEF Allocate, Typed, Shipment
<1>10. ASSUME NEW s \in Shipments, NEW q \in Quantities, NEW c \in Clients, LoadReceive(c, s, q)
       PROVE  Typed'
  <2>1. q \in Nat
    BY QuantityAssumption
  <2> DEFINE r == [op |-> "receive", of |-> s, seen |-> ship[s].received, qty |-> q]
  <2>2. r \in Deliveries
    BY <2>1, RowsTyped DEF Deliveries
  <2>3. req' = [req EXCEPT ![c] = r]
    BY <1>10 DEF LoadReceive, Request
  <2>4. req' \in [Clients -> {Idle} \cup Amendments \cup Deliveries \cup Postings]
    BY <2>2, <2>3 DEF Typed
  <2> QED BY <1>10, <2>4, StartTyped DEF LoadReceive, Request, Typed
<1>11. ASSUME NEW b \in Bills, NEW g \in Receipts, NEW q \in Quantities, NEW p \in Prices,
              NEW a \in {"save", "submit", "approve", "post"}, CreateBill(b, g, q, p, a)
       PROVE  Typed'
  <2>1. q \in Nat /\ p \in Nat
    BY QuantityAssumption
  <2> QED BY <1>11, <2>1, StartTyped DEF CreateBill, SupplierInvoice, BillStatuses, Typed
<1>12. ASSUME NEW c \in Clients, Amend(c)
       PROVE  Typed'
  <2>1. req[c] \in Amendments
    BY <1>12 DEF Amend, Deliveries, Postings, Typed
  <2>2. req[c].of \in Versions /\ req[c].seen \in Nat
    BY <2>1 DEF Amendments
  <2>3. po' \in [Versions -> PurchaseOrder]
    BY <1>12, <2>2 DEF Amend, Typed, PurchaseOrder, Statuses
  <2> QED BY <1>12, <2>3 DEF Amend, Answer, Typed
<1>13. ASSUME NEW c \in Clients, Post(c)
       PROVE  Typed'
  <2>1. req[c] \in Postings
    BY <1>13 DEF Post, Deliveries, Amendments, Typed
  <2> DEFINE b == req[c].of  g == bill[b].grn  v == ship[grn[g].ship].po
             n == req[c].seen  k == GrniValue(b)  m == Billed(b)
  <2>2. b \in Bills /\ n \in Nat
    BY <2>1 DEF Postings
  <2>3. g \in Receipts /\ v \in Versions
    <3>1. bill[b].status # "NONE"
      BY <1>13, <2>2 DEF Post, Doing, Linked
    <3>2. g \in Receipts /\ grn[g].ship # None
      BY <3>1, <2>2 DEF Linked
    <3> QED BY <3>2, RowsTyped DEF Linked
  <2>4. k \in Int /\ m \in Int
    BY <2>2, <2>3, RowsTyped DEF Billed, GrniValue
  <2>5. acc' = [acc EXCEPT !["grni"] = @ - k, !["accruals"] = @ - n, !["ppv"] = @ + m - k,
                           !["ap"] = @ + m + n]
    BY <1>13 DEF Post
  <2>6. bill' = [bill EXCEPT ![b].status = "POSTED", ![b].journal = TRUE, ![b].cleared = n]
    BY <1>13 DEF Post
  <2>7. po' = po \/ po' = [po EXCEPT ![v].status = "BILLED"]
    BY <1>13 DEF Post
  <2> HIDE DEF b, g, v, n, k, m
  <2>8. acc' \in [Accounts -> Int]
    BY <2>2, <2>4, <2>5 DEF Typed, Accounts
  <2>9. bill' \in [Bills -> SupplierInvoice]
    <3>1. "POSTED" \in BillStatuses
      BY DEF BillStatuses
    <3> QED BY <2>2, <2>6, <3>1, ZenonT(60) DEF SupplierInvoice, Typed
  <2>10. po' \in [Versions -> PurchaseOrder]
    BY <2>3, <2>7 DEF Typed, PurchaseOrder, Statuses
  <2> QED BY <1>13, <2>8, <2>9, <2>10 DEF Post, Answer, Typed
<1>14. ASSUME NEW c \in Clients, Fail(c)
       PROVE  Typed'
  BY <1>14 DEF Fail, Answer, Typed
<1>15. ASSUME NEW c \in Clients, NEW g \in Receipts, NEW l \in Landed, Receive(c, g, l)
       PROVE  Typed'
  <2>1. req[c] \in Deliveries
    BY <1>15 DEF Receive, Postings, Amendments, Typed
  <2> DEFINE s == req[c].of  v == ship[s].po  q == req[c].qty  n == req[c].seen
             receipts == [grn EXCEPT ![g] = [ship |-> s, qty |-> q, landed |-> l]]
             lines == Synced(receipts, v)
             status == IF lines[v].ordered = lines[v].received THEN "RECEIVED" ELSE "PARTIALLY_RECEIVED"
  <2>2. s \in Shipments /\ q \in Nat /\ n \in Nat
    BY <2>1 DEF Deliveries
  <2>3. v \in Versions
    BY <1>15, <2>2, RowsTyped DEF Receive, Doing, Linked
  <2>4. l \in Nat
    BY QuantityAssumption
  <2>5. receipts \in [Receipts -> GoodsReceipt]
    BY <2>2, <2>4 DEF GoodsReceipt, Typed
  <2>6. lines \in [Versions -> PurchaseOrder]
    <3>1. ReceivedIn(receipts) \in Nat
      BY <2>5, ReceivedNatural
    <3> HIDE DEF receipts
    <3> QED BY <3>1 DEF Synced, Typed, PurchaseOrder
  <2>7. po' = [lines EXCEPT ![v].status = status] /\ grn' = receipts
    BY <1>15 DEF Receive
  <2>8. ship' = [ship EXCEPT ![s].received = n + q]
    BY <1>15 DEF Receive
  <2>9. acc' = [acc EXCEPT !["grni"] = @ + q, !["accruals"] = @ + l]
    BY <1>15 DEF Receive
  <2>10. status \in Statuses
    BY DEF Statuses
  <2> HIDE DEF s, v, q, n, receipts, lines, status
  <2>11. po' \in [Versions -> PurchaseOrder]
    BY <2>3, <2>6, <2>7, <2>10 DEF PurchaseOrder
  <2>12. acc' \in [Accounts -> Int]
    BY <2>2, <2>4, <2>9 DEF Typed, Accounts
  <2>13. ship' \in [Shipments -> Shipment]
    BY <2>2, <2>8 DEF Typed, Shipment
  <2> QED BY <1>15, <2>5, <2>7, <2>11, <2>12, <2>13 DEF Receive, Answer, Typed
<1>16. ASSUME NEW c \in Clients, NEW b \in Bills, LoadPost(c, b)
       PROVE  Typed'
  <2>1. ToClear(b) \in Nat
    BY <1>16, ToClearNatural DEF LoadPost, Linked
  <2> QED BY <1>16, <2>1, StartTyped DEF LoadPost, Request, Postings, Typed
<1> QED
  BY <1>1, <1>2, <1>3, <1>4, <1>5, <1>6, <1>7, <1>8, <1>9, <1>10, <1>11, <1>12, <1>13, <1>14,
     <1>15, <1>16 DEF Next
-----------------------------------------------------------------------------
(* An order that was sent stays so and never starts to want approval; a version
   appears only after the one before it was sent. *)
OrdersAdvance ==
  \A v \in Versions :
    /\ Sent(v) => po'[v].status \notin {"NONE", "DRAFT"} /\ (po'[v].required => po[v].required)
    /\ po'[v].status = "NONE" => po[v].status = "NONE"
    /\ po'[v].status # "NONE" => po[v].status # "NONE" \/ v = 1 \/ Sent(v - 1)

(* A shipment keeps its order, and gets one only when that is sent. *)
ShipmentsAdvance ==
  \A s \in Shipments :
    /\ ship[s].po # None => ship'[s].po = ship[s].po
    /\ ship'[s].po # None /\ ship[s].po = None => po'[ship'[s].po].status \notin {"NONE", "DRAFT"}
    /\ ship'[s].lines => ship[s].lines \/ ship'[s].po # None

(* A receipt is written once, for the shipment of a receiving request. *)
ReceiptsAdvance ==
  \A g \in Receipts :
    \/ grn'[g] = grn[g]
    \/ grn[g].ship = None /\ \E c \in Clients : Doing(c, "receive") /\ grn'[g].ship = req[c].of

(* A bill is written once, for a receipt that has come, and booked by a posting. *)
BillsAdvance ==
  \A b \in Bills :
    \/ bill'[b] = bill[b]
    \/ /\ bill[b].status = "NONE"
       /\ bill'[b].grn \in Receipts /\ grn[bill'[b].grn].ship # None
       /\ bill'[b].journal = bill[b].journal /\ bill'[b].cleared = bill[b].cleared
    \/ /\ \E c \in Clients : Doing(c, "post") /\ req[c].of = b
       /\ bill'[b].status = "POSTED" /\ bill'[b].journal /\ bill'[b].grn = bill[b].grn

(* A request starts only on rows that allow it. *)
RequestsAdvance ==
  \A c \in Clients :
    \/ req'[c] = req[c]
    \/ req'[c] = Idle
    \/ req'[c].op = "amend" /\ Sent(req'[c].of)
    \/ /\ req'[c].op = "receive" /\ ship[req'[c].of].po # None
       /\ ~po[ship[req'[c].of].po].required
    \/ req'[c].op = "post" /\ bill[req'[c].of].status # "NONE"

(* What every step does to each table. *)
Advances == OrdersAdvance /\ ShipmentsAdvance /\ ReceiptsAdvance /\ BillsAdvance /\ RequestsAdvance

(* get_or_create gives a shipment of the order or a free one. *)
LEMMA ShipmentChosen ==
  ASSUME NEW v, NEW s \in Shipments, ShipmentFor(v, s)
  PROVE  ship[s].po \in {v, None}
BY DEF ShipmentFor, ShipmentsOf

(* Every endpoint advances the tables, whatever other requests are under way. *)
LEMMA NextAdvances == ASSUME Typed, Linked, [Next]_vars PROVE Advances
<1> USE DEF Only, OrdersAdvance, ShipmentsAdvance, ReceiptsAdvance, BillsAdvance, RequestsAdvance
<1>1. ASSUME NEW q \in Orderable, NEW b \in BOOLEAN, NEW s \in Shipments, Create(q, b, s)
      PROVE  Advances
  <2>1. 1 \in Versions
    BY VersionAssumption DEF Versions
  <2>2. OrdersAdvance
    <3>1. po' = [po EXCEPT ![1] = po'[1]] /\ po'[1].status # "NONE" /\ po[1].status = "NONE"
      BY <1>1, <2>1 DEF Create, SubmittedStatus, Typed
    <3> QED BY <3>1 DEF Typed, Sent
  <2>3. CASE ship' = ship
    BY <1>1, <2>2, <2>3 DEF Create, Advances
  <2>4. CASE ship' # ship
    <3>1. b /\ ~NeedsApproval(q) /\ ShipmentFor(1, s) /\ ship' = [ship EXCEPT ![s].po = 1]
      BY <1>1, <2>4 DEF Create
    <3>2. po'[1].status \notin {"NONE", "DRAFT"}
      BY <1>1, <2>1, <3>1 DEF Create, SubmittedStatus, Typed
    <3>3. ship[s].po \in {1, None}
      BY <3>1, ShipmentChosen
    <3>4. ShipmentsAdvance
      BY <3>1, <3>2, <3>3, NoneAssumption, <2>1 DEF Typed, Shipment, Versions
    <3> QED BY <1>1, <2>2, <3>4 DEF Create, Advances
  <2> QED BY <2>3, <2>4
<1>2. ASSUME NEW v \in Versions, Send(v)
      PROVE  Advances
  BY <1>2 DEF Send, Advances, Typed, Sent
<1>3. ASSUME NEW v \in Versions, Cancel(v)
      PROVE  Advances
  <2>1. \A w \in Versions : po'[w].status \in {po[w].status, "CLOSED", "CANCELLED"}
                           /\ po'[w].required = po[w].required
    BY <1>3 DEF Cancel, Typed, PurchaseOrder
  <2> QED BY <1>3, <2>1 DEF Cancel, Advances, Typed, Sent
<1>4. ASSUME NEW v \in Versions, NEW s \in Shipments, Submit(v, s)
      PROVE  Advances
  <2>1. OrdersAdvance
    BY <1>4 DEF Submit, SubmittedStatus, Typed, Sent
  <2>2. ship[s].po \in {v, None} /\ ship'[s].po = v
         /\ \A t \in Shipments \ {s} : ship'[t] = ship[t]
    BY <1>4, ShipmentChosen DEF Submit, Typed
  <2>3. po'[v].status \notin {"NONE", "DRAFT"}
    BY <1>4 DEF Submit, SubmittedStatus, Typed
  <2>4. ShipmentsAdvance
    BY <2>2, <2>3, NoneAssumption DEF Versions
  <2> QED BY <1>4, <2>1, <2>4 DEF Submit, Advances
<1>5. ASSUME NEW v \in Versions, NEW s \in Shipments, Approve(v, s)
      PROVE  Advances
  <2>1. OrdersAdvance
    BY <1>5 DEF Approve, Typed, Sent
  <2>2. ship[s].po \in {v, None} /\ ship'[s].po = v
         /\ \A t \in Shipments \ {s} : ship'[t] = ship[t]
    BY <1>5, ShipmentChosen DEF Approve, Typed
  <2>3. po'[v].status \notin {"NONE", "DRAFT"}
    BY <1>5 DEF Approve, Typed
  <2>4. ShipmentsAdvance
    BY <2>2, <2>3, NoneAssumption DEF Versions
  <2> QED BY <1>5, <2>1, <2>4 DEF Approve, Advances
<1>6. ASSUME NEW v \in Versions, NEW s \in Shipments, NewShipment(v, s)
      PROVE  Advances
  <2>1. ship'[s].po = v /\ (\A t \in Shipments \ {s} : ship'[t] = ship[t]) /\ ship[s].po = None
    BY <1>6 DEF NewShipment, Typed
  <2>2. ShipmentsAdvance
    BY <1>6, <2>1, NoneAssumption DEF NewShipment, Versions
  <2> QED BY <1>6, <2>2 DEF NewShipment, Advances, Sent
<1>7. ASSUME NEW v \in Versions, NEW c \in Clients, LoadAmend(c, v)
      PROVE  Advances
  BY <1>7 DEF LoadAmend, Request, Advances, Typed, Sent
<1>8. ASSUME NEW s \in Shipments, Depart(s)
      PROVE  Advances
  BY <1>8 DEF Depart, Advances, Typed, Sent, Shipment, Linked
<1>9. ASSUME NEW s \in Shipments, NEW q \in Quantities, Allocate(s, q)
      PROVE  Advances
  BY <1>9 DEF Allocate, Advances, Typed, Sent
<1>10. ASSUME NEW s \in Shipments, NEW q \in Quantities, NEW c \in Clients, LoadReceive(c, s, q)
      PROVE  Advances
  BY <1>10 DEF LoadReceive, MayReceive, Request, Advances, Typed, Sent
<1>11. ASSUME NEW b \in Bills, NEW g \in Receipts, NEW q \in Quantities, NEW p \in Prices,
       NEW a \in {"save", "submit", "approve", "post"}, CreateBill(b, g, q, p, a)
      PROVE  Advances
  BY <1>11 DEF CreateBill, Advances, Typed, Sent
<1>12. ASSUME NEW c \in Clients, Amend(c)
      PROVE  Advances
  <2>1. req[c] \in Amendments
    BY <1>12 DEF Amend, Deliveries, Postings, Typed
  <2>2. req[c].of \in Versions /\ Sent(req[c].of)
    BY <1>12, <2>1 DEF Amend, Amendments, Doing, Linked
  <2> QED BY <1>12, <2>2 DEF Amend, Answer, Advances, Typed, Sent, Versions
<1>13. ASSUME NEW c \in Clients, Post(c)
      PROVE  Advances
  <2>1. req[c] \in Postings
    BY <1>13 DEF Post, Deliveries, Amendments, Typed
  <2>2. req[c].of \in Bills
    BY <2>1 DEF Postings
  <2>3. BillsAdvance
    <3>1. bill' = [bill EXCEPT ![req[c].of].status = "POSTED", ![req[c].of].journal = TRUE,
                               ![req[c].of].cleared = req[c].seen]
      BY <1>13 DEF Post
    <3>2. Doing(c, "post")
      BY <1>13 DEF Post, Doing
    <3> QED BY <2>2, <3>1, <3>2, ZenonT(60) DEF Typed, SupplierInvoice
  <2>4. OrdersAdvance
    <3> DEFINE v == ship[grn[bill[req[c].of].grn].ship].po
    <3>1. po' = po \/ po' = [po EXCEPT ![v].status = "BILLED"]
      BY <1>13 DEF Post
    <3> HIDE DEF v
    <3>2. \A w \in Versions : po'[w].status \in {po[w].status, "BILLED"} /\ po'[w].required = po[w].required
                             /\ (po'[w].status = po[w].status \/ w = v)
      BY <3>1 DEF Typed, PurchaseOrder
    <3>3. v \in Versions /\ Sent(v)
      BY <1>13, <2>2, RowsTyped DEF Post, Doing, Linked, v
    <3> QED BY <3>2, <3>3 DEF Sent
  <2>5. ship' = ship /\ grn' = grn /\ req' = [req EXCEPT ![c] = Idle]
    BY <1>13 DEF Post, Answer
  <2>6. ShipmentsAdvance /\ ReceiptsAdvance
    BY <2>5
  <2>7. RequestsAdvance
    BY <2>5 DEF Typed
  <2> QED BY <2>3, <2>4, <2>6, <2>7 DEF Advances
<1>14. ASSUME NEW c \in Clients, Fail(c)
      PROVE  Advances
  BY <1>14 DEF Fail, Answer, Advances, Typed, Sent
<1>15. ASSUME NEW c \in Clients, NEW g \in Receipts, NEW l \in Landed, Receive(c, g, l)
      PROVE  Advances
  <2>1. req[c] \in Deliveries
    BY <1>15 DEF Receive, Postings, Amendments, Typed
  <2>2. req[c].of \in Shipments
    BY <2>1 DEF Deliveries
  <2> DEFINE s == req[c].of  v == ship[s].po
             receipts == [grn EXCEPT ![g] = [ship |-> s, qty |-> req[c].qty, landed |-> l]]
             lines == Synced(receipts, v)
  <2>3. Doing(c, "receive")
    BY <1>15 DEF Receive, Doing
  <2>4. v \in Versions /\ Sent(v)
    BY <2>2, <2>3, RowsTyped DEF Linked
  <2>5. OrdersAdvance
    <3>1. \A w \in Versions : lines[w].status = po[w].status /\ lines[w].required = po[w].required
      BY DEF Synced, Typed, PurchaseOrder
    <3>2. lines \in [Versions -> {lines[w] : w \in Versions}] 
      BY DEF Synced
    <3>3. po' = [lines EXCEPT ![v].status = IF lines[v].ordered = lines[v].received
                                             THEN "RECEIVED" ELSE "PARTIALLY_RECEIVED"]
      BY <1>15 DEF Receive
    <3> HIDE DEF lines, v
    <3>4. \A w \in Versions : po'[w].required = po[w].required /\ (w # v => po'[w].status = po[w].status)
      BY <3>1, <3>2, <3>3
    <3>5. po'[v].status \notin {"NONE", "DRAFT"}
      BY <2>4, <3>2, <3>3
    <3> QED BY <2>4, <3>4, <3>5 DEF Sent
  <2>6. ShipmentsAdvance
    BY <1>15, <2>2 DEF Receive, Typed, Shipment
  <2>7. ReceiptsAdvance
    BY <1>15, <2>3 DEF Receive, Typed
  <2> QED BY <1>15, <2>5, <2>6, <2>7 DEF Receive, Answer, Advances, Typed
<1>16. ASSUME NEW c \in Clients, NEW b \in Bills, LoadPost(c, b)
      PROVE  Advances
  BY <1>16 DEF LoadPost, Request, Advances, Typed, Sent
<1>17. CASE UNCHANGED vars
  BY <1>17 DEF vars, Advances, Sent
<1> QED
  BY <1>1, <1>2, <1>3, <1>4, <1>5, <1>6, <1>7, <1>8, <1>9, <1>10, <1>11, <1>12, <1>13, <1>14, <1>15, <1>16, <1>17 DEF Next
-----------------------------------------------------------------------------
(* NothingUnapproved, and no receiving request on an order that wants approval. *)
Unapproved ==
  /\ NothingUnapproved
  /\ \A c \in Clients : Doing(c, "receive") => ~po[ship[req[c].of].po].required

(* What a request under way works on. *)
LEMMA Targets ==
  ASSUME Typed, Linked, NEW c \in Clients
  PROVE  /\ Doing(c, "amend") => req[c].of \in Versions
         /\ Doing(c, "receive") => req[c].of \in Shipments /\ ship[req[c].of].po \in Versions
                                  /\ req[c].qty \in Nat /\ req[c].seen \in Nat
         /\ Doing(c, "post") => req[c].of \in Bills /\ bill[req[c].of].grn \in Receipts
BY RowsTyped DEF Typed, Linked, Doing, Amendments, Deliveries, Postings

(* References stay good when the tables advance. *)
LEMMA LinkedStays == ASSUME Typed, Typed', Linked, Advances PROVE Linked'
<1> USE DEF Advances
<1>1. ASSUME NEW v \in Versions, po'[v].status # "NONE"
      PROVE  (v > 1 => po'[v - 1].status \notin {"NONE", "DRAFT"}) /\ po'[1].status # "NONE"
  <2>1. v = 1 \/ (v > 1 /\ v - 1 \in Versions)
    BY VersionAssumption DEF Versions
  <2>2. v > 1 => Sent(v - 1)
    BY <1>1, <2>1 DEF OrdersAdvance, Linked
  <2>3. v > 1 => po'[v - 1].status \notin {"NONE", "DRAFT"}
    BY <2>1, <2>2 DEF OrdersAdvance
  <2>4. po[1].status # "NONE" => po'[1].status # "NONE"
    BY VersionAssumption DEF OrdersAdvance, Versions
  <2>5. v > 1 => po[1].status # "NONE"
    BY <2>1, <2>2 DEF Linked, Sent
  <2> QED BY <1>1, <2>1, <2>3, <2>4, <2>5
<1>2. ASSUME NEW s \in Shipments, ship'[s].po # None
      PROVE  po'[ship'[s].po].status \notin {"NONE", "DRAFT"}
  BY <1>2, RowsTyped DEF ShipmentsAdvance, OrdersAdvance, Linked
<1>3. ASSUME NEW s \in Shipments, ship'[s].lines
      PROVE  ship'[s].po # None
  BY <1>3 DEF ShipmentsAdvance, Linked
<1>4. ASSUME NEW g \in Receipts
      PROVE  IF grn'[g].ship = None THEN grn'[g].qty = 0 /\ grn'[g].landed = 0
                                    ELSE ship'[grn'[g].ship].po # None
  <2>1. CASE grn'[g] = grn[g]
    BY <2>1, RowsTyped DEF ShipmentsAdvance, Linked
  <2>2. CASE grn'[g] # grn[g]
    <3>1. PICK c \in Clients : Doing(c, "receive") /\ grn'[g].ship = req[c].of
      BY <2>2 DEF ReceiptsAdvance
    <3> QED BY <3>1, Targets, NoneAssumption DEF ShipmentsAdvance, Linked
  <2> QED BY <2>1, <2>2
<1>5. ASSUME NEW b \in Bills
      PROVE  /\ bill'[b].status # "NONE" => bill'[b].grn \in Receipts /\ grn'[bill'[b].grn].ship # None
             /\ IF bill'[b].journal THEN bill'[b].status = "POSTED" ELSE bill'[b].cleared = 0
  <2>1. \A g \in Receipts : grn[g].ship # None => grn'[g].ship # None
    BY DEF ReceiptsAdvance
  <2>2. CASE bill'[b] = bill[b]
    BY <2>1, <2>2 DEF Linked
  <2>3. CASE bill[b].status = "NONE" /\ bill'[b].grn \in Receipts /\ grn[bill'[b].grn].ship # None
             /\ bill'[b].journal = bill[b].journal /\ bill'[b].cleared = bill[b].cleared
    BY <2>1, <2>3 DEF Linked
  <2>4. CASE bill'[b].status = "POSTED" /\ bill'[b].journal /\ bill'[b].grn = bill[b].grn
             /\ \E c \in Clients : Doing(c, "post") /\ req[c].of = b
    BY <2>1, <2>4 DEF Linked
  <2> QED BY <2>2, <2>3, <2>4 DEF BillsAdvance
<1>6. ASSUME NEW c \in Clients
      PROVE  /\ Doing(c, "amend")' => Sent(req[c].of)'
             /\ Doing(c, "receive")' => ship'[req'[c].of].po # None
             /\ Doing(c, "post")' => bill'[req'[c].of].status # "NONE"
  <2>1. req'[c] # Idle =>
          \/ req'[c].op = "amend" /\ Sent(req'[c].of)
          \/ req'[c].op = "receive" /\ ship[req'[c].of].po # None
          \/ req'[c].op = "post" /\ bill[req'[c].of].status # "NONE"
    BY DEF RequestsAdvance, Typed, Doing, Linked, Amendments, Deliveries, Postings
  <2>2. Doing(c, "amend")' => req'[c].of \in Versions
    BY DEF Typed, Doing, Amendments, Deliveries, Postings
  <2>3. Doing(c, "receive")' => req'[c].of \in Shipments
    BY DEF Typed, Doing, Amendments, Deliveries, Postings
  <2>4. Doing(c, "post")' => req'[c].of \in Bills
    BY DEF Typed, Doing, Amendments, Deliveries, Postings
  <2>5. Doing(c, "amend")' => Sent(req[c].of)'
    BY <2>1, <2>2 DEF Doing, OrdersAdvance, Sent
  <2>6. Doing(c, "receive")' => ship'[req'[c].of].po # None
    BY <2>1, <2>3 DEF Doing, ShipmentsAdvance
  <2>7. Doing(c, "post")' => bill'[req'[c].of].status # "NONE"
    BY <2>1, <2>4 DEF Doing, BillsAdvance
  <2> QED BY <2>5, <2>6, <2>7
<1> QED BY <1>1, <1>2, <1>3, <1>4, <1>5, <1>6 DEF Linked, Sent

(* Nothing is received unapproved when the tables advance: an order is never
   submitted again once it has a shipment (po_submit takes drafts only). *)
LEMMA UnapprovedStays == ASSUME Typed, Typed', Linked, Unapproved, Advances PROVE Unapproved'
<1> USE DEF Advances
<1>1. ASSUME NEW s \in Shipments, ship[s].po # None, ~po[ship[s].po].required
      PROVE  ~po'[ship'[s].po].required
  BY <1>1, RowsTyped DEF ShipmentsAdvance, OrdersAdvance, Linked
<1>2. ASSUME NEW g \in Receipts, grn'[g].ship # None
      PROVE  ~po'[ship'[grn'[g].ship].po].required
  <2>1. PICK s \in Shipments : grn'[g].ship = s /\ ship[s].po # None /\ ~po[ship[s].po].required
    <3>1. CASE grn'[g] = grn[g]
      BY <1>2, <3>1, RowsTyped DEF Linked, Unapproved, NothingUnapproved
    <3>2. CASE grn'[g] # grn[g]
      BY <3>2, Targets DEF ReceiptsAdvance, Linked, Unapproved
    <3> QED BY <3>1, <3>2
  <2> QED BY <1>1, <2>1
<1>3. ASSUME NEW c \in Clients, Doing(c, "receive")'
      PROVE  ~po'[ship'[req'[c].of].po].required
  <2>1. req'[c].of \in Shipments
    BY <1>3 DEF Typed, Doing, Amendments, Deliveries, Postings
  <2>2. ship[req'[c].of].po # None /\ ~po[ship[req'[c].of].po].required
    BY <1>3 DEF RequestsAdvance, Doing, Linked, Unapproved
  <2> QED BY <1>1, <2>1, <2>2
<1> QED BY <1>2, <1>3 DEF Unapproved, NothingUnapproved

(* In every reachable state rows are typed and linked, and nothing is received, or
   about to be, on an order that still wants approval. *)
THEOREM Recorded == Spec => [](Typed /\ Linked /\ Unapproved)
<1>1. Init => Typed /\ Linked /\ Unapproved
  <2>1. Init => Unapproved
    BY DEF Init, Unapproved, NothingUnapproved, Doing
  <2> QED BY <2>1, InitTyped
<1>2. Typed /\ Linked /\ Unapproved /\ [Next]_vars => (Typed /\ Linked /\ Unapproved)'
  <2> SUFFICES ASSUME Typed, Linked, Unapproved, [Next]_vars PROVE (Typed /\ Linked /\ Unapproved)'
    OBVIOUS
  <2>1. Typed'
    <3>1. UNCHANGED vars => Typed'
      BY DEF vars, Typed
    <3> QED BY <3>1, NextTyped
  <2>2. Advances
    BY NextAdvances
  <2> QED BY <2>1, <2>2, LinkedStays, UnapprovedStays
<1> QED BY <1>1, <1>2, PTL DEF Spec

(* NothingUnapproved holds of every purchase order: though it may be sent, put in
   transit and amended while it waits, receive_po takes no goods on it. *)
THEOREM ApprovedBeforeReceipt == Spec => []NothingUnapproved
BY Recorded, PTL DEF Unapproved

(* TypeOK holds in every reachable state. *)
THEOREM PurchasingStaysTyped == Spec => []TypeOK
<1>1. Typed /\ Linked => TypeOK
  BY DEF Typed, Linked, TypeOK, Sent
<1> QED BY <1>1, Recorded, PTL
-----------------------------------------------------------------------------
(* The value each booked bill took off GRNI. *)
BookedValues == [b \in Bills |-> IF bill[b].journal THEN GrniValue(b) ELSE 0]

(* The landed cost the posted bills cleared of a receipt. *)
ClearedFor(g) ==
  [b \in Bills |-> IF bill[b].grn = g /\ bill[b].status = "POSTED" THEN bill[b].cleared ELSE 0]

(* The landed cost of a receipt still accrued. *)
Left(g) == grn[g].landed - SumFunction(ClearedFor(g))

(* What is left of every receipt. *)
Lefts == [g \in Receipts |-> Left(g)]

(* The suspense accounts, against the receipts and the bills. *)
Ledger ==
  /\ acc["grni"] = ReceivedIn(grn) - SumFunction(BookedValues)
  /\ acc["accruals"] = SumFunction(Lefts)

(* The summands are integers, and what was cleared is never negative. *)
LEMMA SumsTyped ==
  ASSUME Typed, Linked
  PROVE  /\ BookedValues \in [Bills -> Int]
         /\ \A g \in Receipts : ClearedFor(g) \in [Bills -> Nat] /\ SumFunction(ClearedFor(g)) \in Nat
         /\ \A g \in Receipts : Left(g) \in Int
         /\ Lefts \in [Receipts -> Int]
<1>1. ASSUME NEW b \in Bills, bill[b].journal PROVE GrniValue(b) \in Int
  BY <1>1, RowsTyped DEF GrniValue, Linked
<1>2. BookedValues \in [Bills -> Int]
  BY <1>1 DEF BookedValues
<1>3. ASSUME NEW g \in Receipts
      PROVE  ClearedFor(g) \in [Bills -> Nat] /\ SumFunction(ClearedFor(g)) \in Nat
  <2>1. ClearedFor(g) \in [Bills -> Nat]
    BY RowsTyped DEF ClearedFor
  <2> QED BY <2>1, FiniteAssumption, SumNatural
<1>4. \A g \in Receipts : Left(g) \in Int
  BY <1>3, RowsTyped DEF Left
<1> QED BY <1>2, <1>3, <1>4 DEF Lefts

(* Nothing was cleared, and no value booked, of a receipt that has not come. *)
LEMMA NothingOfUnreceived ==
  ASSUME Typed, Linked, NEW g \in Receipts, grn[g].ship = None
  PROVE  /\ \A b \in Bills : bill[b].journal => bill[b].grn # g
         /\ SumFunction(ClearedFor(g)) = 0
<1>1. \A b \in Bills : bill[b].status # "NONE" => bill[b].grn # g
  BY DEF Linked
<1>2. \A b \in Bills : bill[b].journal => bill[b].grn # g
  BY <1>1 DEF Linked
<1>3. ClearedFor(g) \in [Bills -> Int] /\ \A b \in Bills : ClearedFor(g)[b] = 0
  BY <1>1, SumsTyped DEF ClearedFor
<1>4. SumFunction(ClearedFor(g)) = 0
  BY <1>3, FiniteAssumption, SumZero
<1> QED BY <1>2, <1>4

(* A step that leaves receipts, accounts and booked bills alone keeps the ledger. *)
LEMMA LedgerKept ==
  ASSUME Typed, Linked, Ledger, UNCHANGED <<grn, acc>>,
         \A b \in Bills : \/ bill'[b] = bill[b]
                          \/ /\ bill[b].status = "NONE"
                             /\ bill'[b].journal = bill[b].journal /\ bill'[b].cleared = bill[b].cleared
  PROVE  Ledger' /\ \A g \in Receipts : Left(g)' = Left(g)
<1>1. \A b \in Bills : bill'[b] = bill[b] \/ (~bill[b].journal /\ ~bill'[b].journal
                                              /\ bill[b].cleared = 0 /\ bill'[b].cleared = 0)
  BY RowsTyped DEF Linked
<1>2. BookedValues' = BookedValues
  BY <1>1 DEF BookedValues, GrniValue
<1>3. \A g \in Receipts : ClearedFor(g)' = ClearedFor(g)
  BY <1>1 DEF ClearedFor
<1>4. \A g \in Receipts : Left(g)' = Left(g)
  BY <1>3 DEF Left
<1>5. Lefts' = Lefts
  BY <1>4 DEF Lefts
<1>6. ReceivedIn(grn)' = ReceivedIn(grn)
  BY DEF ReceivedIn
<1> QED BY <1>2, <1>4, <1>5, <1>6 DEF Ledger

(* receive_po books the receipt and its landed cost (post_goods_receipt). *)
LEMMA LedgerAfterReceive ==
  ASSUME Typed, Typed', Linked, Linked', Ledger,
         NEW c \in Clients, NEW g \in Receipts, NEW l \in Landed, Receive(c, g, l)
  PROVE  Ledger' /\ Left(g)' = l /\ \A h \in Receipts \ {g} : Left(h)' = Left(h)
<1> DEFINE q == req[c].qty
           before == [h \in Receipts |-> grn[h].qty]
           after == [h \in Receipts |-> grn'[h].qty]
<1>1. q \in Nat /\ l \in Nat /\ grn[g].ship = None
  BY Targets, QuantityAssumption DEF Receive, Doing
<1>2. grn' = [grn EXCEPT ![g] = [ship |-> req[c].of, qty |-> q, landed |-> l]]
  BY DEF Receive
<1>3. acc' = [acc EXCEPT !["grni"] = @ + q, !["accruals"] = @ + l] /\ bill' = bill
  BY DEF Receive
<1>4. grn[g].qty = 0 /\ grn[g].landed = 0
  BY <1>1 DEF Linked
<1>5. \A h \in Receipts : grn'[h] = IF h = g THEN [ship |-> req[c].of, qty |-> q, landed |-> l] ELSE grn[h]
  BY <1>2 DEF Typed
<1> HIDE DEF q
<1>6. SumFunction(after) = SumFunction(before) + q
  <2>1. before \in [Receipts -> Int] /\ after \in [Receipts -> Int]
    BY <1>1, <1>5, RowsTyped
  <2>2. (\A h \in Receipts \ {g} : after[h] = before[h]) /\ after[g] = q /\ before[g] = 0
    BY <1>4, <1>5
  <2> HIDE DEF before, after
  <2>3. SumFunction(after) = SumFunction(before) + after[g] - before[g]
    BY <2>1, <2>2, FiniteAssumption, SumUpdate
  <2>4. SumFunction(before) \in Int
    BY <2>1, FiniteAssumption, SumInteger
  <2> QED BY <1>1, <2>2, <2>3, <2>4
<1>7. ReceivedIn(grn)' = ReceivedIn(grn) + q
  BY <1>6 DEF ReceivedIn
<1>8. BookedValues' = BookedValues
  <2>1. \A b \in Bills : bill[b].journal => grn'[bill[b].grn] = grn[bill[b].grn]
    BY <1>1, <1>5, NothingOfUnreceived DEF Linked
  <2> QED BY <1>3, <2>1 DEF BookedValues, GrniValue
<1>9. \A h \in Receipts : ClearedFor(h)' = ClearedFor(h)
  BY <1>3 DEF ClearedFor
<1>10. Left(g)' = l /\ Left(g) = 0 /\ \A h \in Receipts \ {g} : Left(h)' = Left(h)
  BY <1>1, <1>4, <1>5, <1>9, NothingOfUnreceived DEF Left
<1>11. SumFunction(Lefts') = SumFunction(Lefts) + l
  <2>1. Lefts \in [Receipts -> Int] /\ Lefts' \in [Receipts -> Int]
    BY <1>1, <1>10, SumsTyped DEF Lefts
  <2>2. \A h \in Receipts \ {g} : Lefts'[h] = Lefts[h]
    BY <1>10 DEF Lefts
  <2>3. Lefts'[g] = l /\ Lefts[g] = 0
    BY <1>10 DEF Lefts
  <2>4. SumFunction(Lefts') = SumFunction(Lefts) + Lefts'[g] - Lefts[g]
    BY <2>1, <2>2, FiniteAssumption, SumUpdate
  <2>5. SumFunction(Lefts) \in Int
    BY <2>1, FiniteAssumption, SumInteger
  <2> QED BY <1>1, <2>3, <2>4, <2>5
<1>12. acc'["grni"] = acc["grni"] + q /\ acc'["accruals"] = acc["accruals"] + l
  BY <1>3 DEF Typed, Accounts
<1>13. ReceivedIn(grn) \in Int /\ SumFunction(BookedValues) \in Int
  BY FiniteAssumption, SumsTyped, SumInteger, ReceivedNatural DEF Typed
<1>14. Ledger'
  BY <1>1, <1>7, <1>8, <1>11, <1>12, <1>13 DEF Ledger
<1> QED BY <1>10, <1>14

(* invoice_post takes off GRNI and the accruals what the bill stands for. *)
LEMMA LedgerAfterPost ==
  ASSUME Typed, Linked, Ledger, NEW c \in Clients, Post(c),
         NEW b, b = req[c].of, NEW g, g = bill[b].grn, NEW n, n = req[c].seen
  PROVE  /\ Ledger' /\ b \in Bills /\ g \in Receipts /\ n \in Nat
         /\ bill[b].cleared = 0
         /\ Left(g)' = Left(g) - n
         /\ \A h \in Receipts \ {g} : Left(h)' = Left(h)
<1> DEFINE k == GrniValue(b)
<1>1. b \in Bills /\ g \in Receipts /\ n \in Nat
  <2>1. Doing(c, "post")
    BY DEF Post, Doing
  <2>2. n \in Nat
    BY <2>1 DEF Typed, Doing, Amendments, Deliveries, Postings
  <2> QED BY <2>1, <2>2, Targets
<1>2. bill' = [bill EXCEPT ![b].status = "POSTED", ![b].journal = TRUE, ![b].cleared = n]
  BY DEF Post
<1>3. acc'["grni"] = acc["grni"] - k /\ acc'["accruals"] = acc["accruals"] - n
  BY DEF Post, Typed, Accounts
<1>4. ~bill[b].journal /\ bill[b].cleared = 0 /\ k \in Int /\ grn' = grn
  <2>1. ~bill[b].journal /\ grn' = grn
    BY DEF Post
  <2>2. bill[b].cleared = 0
    BY <1>1, <2>1 DEF Linked
  <2> QED BY <1>1, <2>1, <2>2, RowsTyped DEF GrniValue
<1>5. bill'[b].status = "POSTED" /\ bill'[b].journal /\ bill'[b].cleared = n /\ bill'[b].grn = g
  BY <1>1, <1>2 DEF Typed, SupplierInvoice
<1>6. \A a \in Bills \ {b} : bill'[a] = bill[a]
  BY <1>1, <1>2 DEF Typed
<1> HIDE DEF k
<1>7. SumFunction(BookedValues') = SumFunction(BookedValues) + k
  <2>1. BookedValues[b] = 0 /\ BookedValues'[b] = k
    BY <1>1, <1>4, <1>5 DEF BookedValues, GrniValue, k
  <2>2. \A a \in Bills \ {b} : BookedValues'[a] = BookedValues[a]
    BY <1>4, <1>6 DEF BookedValues, GrniValue
  <2>3. BookedValues \in [Bills -> Int]
    BY SumsTyped
  <2>4. BookedValues' \in [Bills -> Int]
    <3>1. \A a \in Bills : BookedValues'[a] \in Int
      BY <1>4, <2>1, <2>2, <2>3
    <3> QED BY <3>1 DEF BookedValues
  <2>5. SumFunction(BookedValues') = SumFunction(BookedValues) + BookedValues'[b] - BookedValues[b]
    BY <1>1, <2>2, <2>3, <2>4, FiniteAssumption, SumUpdate
  <2>6. SumFunction(BookedValues) \in Int
    BY <2>3, FiniteAssumption, SumInteger
  <2> QED BY <1>4, <2>1, <2>5, <2>6
<1>8. SumFunction(ClearedFor(g)') = SumFunction(ClearedFor(g)) + n
  <2>1. ClearedFor(g)[b] = 0 /\ ClearedFor(g)'[b] = n
    BY <1>1, <1>4, <1>5 DEF ClearedFor
  <2>2. \A a \in Bills \ {b} : ClearedFor(g)'[a] = ClearedFor(g)[a]
    BY <1>5, <1>6 DEF ClearedFor
  <2>3. ClearedFor(g) \in [Bills -> Int]
    BY <1>1, SumsTyped
  <2>4. ClearedFor(g)' \in [Bills -> Int]
    <3>1. \A a \in Bills : ClearedFor(g)'[a] \in Int
      BY <1>1, <2>1, <2>2, <2>3
    <3> QED BY <3>1 DEF ClearedFor
  <2>5. SumFunction(ClearedFor(g)') = SumFunction(ClearedFor(g)) + ClearedFor(g)'[b] - ClearedFor(g)[b]
    BY <1>1, <2>2, <2>3, <2>4, FiniteAssumption, SumUpdate
  <2>6. SumFunction(ClearedFor(g)) \in Int
    BY <2>3, FiniteAssumption, SumInteger
  <2> QED BY <1>1, <2>1, <2>5, <2>6
<1>9. \A h \in Receipts \ {g} : ClearedFor(h)' = ClearedFor(h)
  BY <1>5, <1>6 DEF ClearedFor
<1>10. Left(g)' = Left(g) - n
  BY <1>1, <1>4, <1>8, SumsTyped, RowsTyped DEF Left
<1>11. \A h \in Receipts \ {g} : Left(h)' = Left(h)
  BY <1>4, <1>9 DEF Left
<1>12. SumFunction(Lefts') = SumFunction(Lefts) - n
  <2>1. \A h \in Receipts \ {g} : Lefts'[h] = Lefts[h]
    BY <1>11 DEF Lefts
  <2>2. Lefts'[g] = Lefts[g] - n
    BY <1>1, <1>10 DEF Lefts
  <2>3. Lefts \in [Receipts -> Int]
    BY SumsTyped
  <2>4. Lefts' \in [Receipts -> Int]
    <3>1. \A h \in Receipts : Lefts'[h] \in Int
      BY <1>1, <2>1, <2>2, <2>3
    <3> QED BY <3>1 DEF Lefts
  <2>5. SumFunction(Lefts') = SumFunction(Lefts) + Lefts'[g] - Lefts[g]
    BY <1>1, <2>1, <2>3, <2>4, FiniteAssumption, SumUpdate
  <2>6. SumFunction(Lefts) \in Int /\ Lefts[g] \in Int
    BY <1>1, <2>3, FiniteAssumption, SumInteger
  <2> QED BY <1>1, <2>2, <2>5, <2>6
<1>13. ReceivedIn(grn)' = ReceivedIn(grn)
  BY <1>4 DEF ReceivedIn
<1>14. ReceivedIn(grn) \in Int /\ SumFunction(BookedValues) \in Int /\ SumFunction(Lefts) \in Int
  BY FiniteAssumption, SumsTyped, SumInteger, ReceivedNatural DEF Typed
<1>15. Ledger'
  BY <1>1, <1>3, <1>4, <1>7, <1>12, <1>13, <1>14 DEF Ledger
<1> QED BY <1>1, <1>4, <1>10, <1>11, <1>15
-----------------------------------------------------------------------------
(* When requests do not overlap, one at most is under way and what it read holds. *)
Serial ==
  calm => /\ \A c, d \in Clients : c = d \/ req[c] = Idle \/ req[d] = Idle
          /\ \A c \in Clients : Doing(c, "amend") => req[c].seen = ReceivedIn(grn)
          /\ \A c \in Clients : Doing(c, "post") => req[c].seen = ToClear(req[c].of)

(* When requests do not overlap, no receipt is overcleared. *)
NotOvercleared == calm => \A g \in Receipts : Left(g) >= 0

(* The inductive invariant of the books, beside Typed and Linked. *)
Balanced == Serial /\ Ledger /\ NotOvercleared /\ ReceivedMatchesReceipts

(* A request that does not overlap starts when no other is under way. *)
LEMMA CalmStart ==
  ASSUME Typed, Start, calm'
  PROVE  calm /\ \A c \in Clients : req[c] = Idle
BY BoundAssumption DEF Start, calm, Typed

(* A request that did not overlap leaves none under way. *)
LEMMA CalmAnswer ==
  ASSUME Typed, Serial, NEW c \in Clients, req[c] # Idle, Answer(c), calm'
  PROVE  calm /\ \A d \in Clients : req'[d] = Idle
BY DEF Answer, calm, Serial, Typed

(* Serial says nothing when no request is under way. *)
LEMMA IdleSerial ==
  ASSUME calm' => \A d \in Clients : req'[d] = Idle
  PROVE  Serial'
BY DEF Serial, Doing

(* An endpoint that is one step leaves Serial. *)
LEMMA StartSerial ==
  ASSUME Typed, Start, UNCHANGED req
  PROVE  Serial'
BY CalmStart, IdleSerial

(* A request that ends leaves Serial. *)
LEMMA AnswerSerial ==
  ASSUME Typed, Serial, NEW c \in Clients, req[c] # Idle, Answer(c)
  PROVE  Serial'
BY CalmAnswer, IdleSerial

(* Received quantities stay right while neither they nor the receipts change. *)
LEMMA ReceivedKept ==
  ASSUME grn' = grn, calm' => calm, ReceivedMatchesReceipts,
         \A v \in Versions : po'[v].status # "NONE" =>
                               po[v].status # "NONE" /\ po'[v].received = po[v].received
  PROVE  ReceivedMatchesReceipts'
<1>1. ReceivedIn(grn)' = ReceivedIn(grn)
  BY DEF ReceivedIn
<1> QED BY <1>1 DEF ReceivedMatchesReceipts

(* A step that starts and ends at once, and leaves receipts, bills and accounts alone. *)
LEMMA BalancedAtOnce ==
  ASSUME Typed, Linked, Balanced, Start, UNCHANGED <<req, grn, bill, acc>>,
         \A v \in Versions : po'[v].status # "NONE" =>
                               po[v].status # "NONE" /\ po'[v].received = po[v].received
  PROVE  Balanced'
<1>1. calm' => calm
  BY CalmStart
<1>2. Ledger' /\ \A g \in Receipts : Left(g)' = Left(g)
  BY LedgerKept DEF Balanced
<1>3. NotOvercleared'
  BY <1>1, <1>2 DEF NotOvercleared, Balanced
<1>4. Serial'
  BY StartSerial
<1>5. ReceivedMatchesReceipts'
  BY <1>1, ReceivedKept DEF Balanced
<1> QED BY <1>2, <1>3, <1>4, <1>5 DEF Balanced

(* A request that starts changes no books and reads what holds. *)
LEMMA BalancedAtLoad ==
  ASSUME Typed, Linked, Balanced, NEW c \in Clients, NEW r, Request(c, r), r # Idle,
         r.op = "amend" => r.seen = ReceivedIn(grn), r.op = "post" => r.seen = ToClear(r.of)
  PROVE  Balanced'
<1> USE DEF Request
<1>1. calm' => calm /\ \A d \in Clients : req[d] = Idle
  BY CalmStart
<1>2. Ledger' /\ \A g \in Receipts : Left(g)' = Left(g)
  BY LedgerKept DEF Balanced
<1>3. NotOvercleared'
  BY <1>1, <1>2 DEF NotOvercleared, Balanced
<1>4. ReceivedMatchesReceipts'
  BY <1>1, ReceivedKept DEF Balanced
<1>5. ReceivedIn(grn)' = ReceivedIn(grn)
  BY DEF ReceivedIn
<1>6. ASSUME NEW b PROVE ToClear(b)' = ToClear(b)
  BY DEF ToClear, ClearedOn
<1>7. Serial'
  <2> SUFFICES ASSUME calm' PROVE
         /\ \A d, e \in Clients : d = e \/ req'[d] = Idle \/ req'[e] = Idle
         /\ \A d \in Clients : Doing(d, "amend")' => req'[d].seen = ReceivedIn(grn)'
         /\ \A d \in Clients : Doing(d, "post")' => req'[d].seen = ToClear(req[d].of)'
    BY DEF Serial
  <2>1. \A d \in Clients : req'[d] = IF d = c THEN r ELSE Idle
    BY <1>1 DEF Typed
  <2>2. \A d, e \in Clients : d = e \/ req'[d] = Idle \/ req'[e] = Idle
    BY <2>1
  <2>3. \A d \in Clients : Doing(d, "amend")' => req'[d].seen = ReceivedIn(grn)'
    BY <2>1, <1>5 DEF Doing
  <2>4. ASSUME NEW d \in Clients, Doing(d, "post")'
        PROVE  req'[d].seen = ToClear(req[d].of)'
    <3>1. req'[d] = r /\ r.op = "post"
      BY <2>1, <2>4 DEF Doing
    <3>2. ToClear(req[d].of)' = ToClear(r.of)
      BY <3>1 DEF ToClear, ClearedOn
    <3> QED BY <3>1, <3>2
  <2> QED BY <2>2, <2>3, <2>4
<1> QED BY <1>2, <1>3, <1>4, <1>7 DEF Balanced

(* A request that leaves no trace in req (Idle could be any value). *)
LEMMA BalancedIdle ==
  ASSUME Typed, Linked, Balanced, NEW c \in Clients, NEW r, Request(c, r), r = Idle
  PROVE  Balanced'
<1>1. UNCHANGED <<req, po, grn, bill, acc>> /\ Start
  BY DEF Request, Typed
<1> QED BY <1>1, BalancedAtOnce

(* Every endpoint keeps the books balanced. *)
LEMMA NextBalances ==
  ASSUME Typed, Typed', Linked, Linked', Balanced, [Next]_vars
  PROVE  Balanced'
<1> USE DEF Only
<1>1. ASSUME NEW q \in Orderable, NEW b \in BOOLEAN, NEW s \in Shipments, Create(q, b, s)
      PROVE  Balanced'
  <2>1. ASSUME NEW g \in Receipts PROVE grn[g].qty = 0
    <3>1. 1 \in Versions /\ \A v \in Versions : po[v].status = "NONE"
      BY <1>1, VersionAssumption DEF Create, Linked, Versions
    <3>2. grn[g].ship = None
      BY <3>1, RowsTyped DEF Linked, Sent
    <3> QED BY <3>2 DEF Linked
  <2>2. ReceivedIn(grn) = 0
    <3> DEFINE f == [g \in Receipts |-> grn[g].qty]
    <3>1. f \in [Receipts -> Int] /\ \A g \in Receipts : f[g] = 0
      BY <2>1
    <3>2. SumFunction(f) = 0
      BY <3>1, FiniteAssumption, SumZero
    <3> QED BY <3>2 DEF ReceivedIn
  <2>3. ReceivedIn(grn)' = 0
    BY <1>1, <2>2 DEF Create, ReceivedIn
  <2>4. \A v \in Versions : po'[v].status # "NONE" => po'[v].received = 0
    BY <1>1, VersionAssumption DEF Create, Typed, Linked, Versions
  <2>5. ReceivedMatchesReceipts'
    BY <2>3, <2>4 DEF ReceivedMatchesReceipts
  <2>6. calm' => calm
    BY <1>1, CalmStart DEF Create
  <2>7. Serial'
    BY <1>1, StartSerial DEF Create
  <2>8. Ledger' /\ \A g \in Receipts : Left(g)' = Left(g)
    BY <1>1, LedgerKept DEF Create, Balanced
  <2>9. NotOvercleared'
    BY <2>6, <2>8 DEF NotOvercleared, Balanced
  <2> QED BY <2>5, <2>7, <2>8, <2>9 DEF Balanced
<1>2. ASSUME NEW v \in Versions, Send(v)
      PROVE  Balanced'
  BY <1>2, BalancedAtOnce DEF Send, Typed, PurchaseOrder
<1>3. ASSUME NEW v \in Versions, Cancel(v)
      PROVE  Balanced'
  BY <1>3, BalancedAtOnce DEF Cancel, Typed, PurchaseOrder
<1>4. ASSUME NEW v \in Versions, NEW s \in Shipments, Submit(v, s)
      PROVE  Balanced'
  BY <1>4, BalancedAtOnce DEF Submit, Typed, PurchaseOrder
<1>5. ASSUME NEW v \in Versions, NEW s \in Shipments, Approve(v, s)
      PROVE  Balanced'
  BY <1>5, BalancedAtOnce DEF Approve, Typed, PurchaseOrder
<1>6. ASSUME NEW v \in Versions, NEW s \in Shipments, NewShipment(v, s)
      PROVE  Balanced'
  BY <1>6, BalancedAtOnce DEF NewShipment
<1>7. ASSUME NEW v \in Versions, NEW c \in Clients, LoadAmend(c, v)
      PROVE  Balanced'
  <2> DEFINE r == [op |-> "amend", of |-> v, seen |-> ReceivedIn(grn), qty |-> 0]
  <2>1. r.op = "amend" /\ r.seen = ReceivedIn(grn) /\ Request(c, r)
    BY <1>7 DEF LoadAmend
  <2> HIDE DEF r
  <2>2. CASE r = Idle
    BY <2>1, <2>2, BalancedIdle
  <2> QED BY <2>1, <2>2, BalancedAtLoad
<1>8. ASSUME NEW s \in Shipments, Depart(s)
      PROVE  Balanced'
  BY <1>8, RowsTyped, BalancedAtOnce DEF Depart, Typed, PurchaseOrder, Linked, Sent
<1>9. ASSUME NEW s \in Shipments, NEW q \in Quantities, Allocate(s, q)
      PROVE  Balanced'
  BY <1>9, BalancedAtOnce DEF Allocate
<1>10. ASSUME NEW s \in Shipments, NEW q \in Quantities, NEW c \in Clients, LoadReceive(c, s, q)
       PROVE  Balanced'
  <2> DEFINE r == [op |-> "receive", of |-> s, seen |-> ship[s].received, qty |-> q]
  <2>1. r.op = "receive" /\ Request(c, r)
    BY <1>10 DEF LoadReceive
  <2> HIDE DEF r
  <2>2. CASE r = Idle
    BY <2>1, <2>2, BalancedIdle
  <2> QED BY <2>1, <2>2, BalancedAtLoad
<1>11. ASSUME NEW b \in Bills, NEW g \in Receipts, NEW q \in Quantities, NEW p \in Prices,
              NEW a \in {"save", "submit", "approve", "post"}, CreateBill(b, g, q, p, a)
       PROVE  Balanced'
  <2>1. \A d \in Bills : \/ bill'[d] = bill[d]
                         \/ /\ bill[d].status = "NONE"
                            /\ bill'[d].journal = bill[d].journal /\ bill'[d].cleared = bill[d].cleared
    BY <1>11 DEF CreateBill, Typed, SupplierInvoice
  <2>2. UNCHANGED <<grn, acc, po, req>> /\ Start
    BY <1>11 DEF CreateBill
  <2>3. Ledger' /\ \A h \in Receipts : Left(h)' = Left(h)
    BY <2>1, <2>2, LedgerKept DEF Balanced
  <2>4. calm' => calm
    BY <2>2, CalmStart
  <2>5. NotOvercleared'
    BY <2>3, <2>4 DEF NotOvercleared, Balanced
  <2>6. Serial' /\ ReceivedMatchesReceipts'
    BY <2>2, <2>4, StartSerial, ReceivedKept DEF Balanced
  <2> QED BY <2>3, <2>5, <2>6 DEF Balanced
<1>12. ASSUME NEW c \in Clients, Amend(c)
       PROVE  Balanced'
  <2>1. req[c] # Idle /\ Answer(c) /\ UNCHANGED <<grn, bill, acc>> /\ Doing(c, "amend")
    BY <1>12 DEF Amend, Doing
  <2>2. calm' => calm
    BY <2>1, CalmAnswer DEF Balanced
  <2>3. Ledger' /\ \A g \in Receipts : Left(g)' = Left(g)
    BY <2>1, LedgerKept DEF Balanced
  <2>4. NotOvercleared' /\ Serial'
    BY <2>1, <2>2, <2>3, AnswerSerial DEF NotOvercleared, Balanced
  <2>5. ReceivedMatchesReceipts'
    <3> SUFFICES ASSUME calm', NEW v \in Versions, po'[v].status # "NONE"
                 PROVE  po'[v].received = ReceivedIn(grn)'
      BY DEF ReceivedMatchesReceipts
    <3>1. req[c].seen = ReceivedIn(grn)
      BY <2>1, <2>2 DEF Balanced, Serial
    <3>2. po'[v] = po[v] \/ po'[v].received = req[c].seen
      BY <1>12 DEF Amend, Typed
    <3>3. ReceivedIn(grn)' = ReceivedIn(grn)
      BY <2>1 DEF ReceivedIn
    <3> QED BY <2>2, <3>1, <3>2, <3>3 DEF Balanced, ReceivedMatchesReceipts
  <2> QED BY <2>3, <2>4, <2>5 DEF Balanced
<1>13. ASSUME NEW c \in Clients, Post(c)
       PROVE  Balanced'
  <2>1. req[c] # Idle /\ Answer(c) /\ Doing(c, "post") /\ grn' = grn
    BY <1>13 DEF Post, Doing
  <2>2. calm' => calm
    BY <2>1, CalmAnswer DEF Balanced
  <2>3. Serial'
    BY <2>1, AnswerSerial DEF Balanced
  <2>4. ReceivedMatchesReceipts'
    <3>1. \A v \in Versions : po'[v].status # "NONE" =>
                                po[v].status # "NONE" /\ po'[v].received = po[v].received
      <4> DEFINE v == ship[grn[bill[req[c].of].grn].ship].po
      <4>1. po' = po \/ po' = [po EXCEPT ![v].status = "BILLED"]
        BY <1>13 DEF Post
      <4>2. po[v].status # "NONE"
        BY <2>1, Targets, RowsTyped DEF Linked, Sent
      <4> HIDE DEF v
      <4> QED BY <4>1, <4>2 DEF Typed, PurchaseOrder
    <3> QED BY <2>1, <2>2, <3>1, ReceivedKept DEF Balanced
  <2>5. PICK b, g, n : b = req[c].of /\ g = bill[b].grn /\ n = req[c].seen
    OBVIOUS
  <2>6. /\ Ledger' /\ b \in Bills /\ g \in Receipts /\ n \in Nat /\ bill[b].cleared = 0
        /\ Left(g)' = Left(g) - n
        /\ \A h \in Receipts \ {g} : Left(h)' = Left(h)
    BY <1>13, <2>5, LedgerAfterPost DEF Balanced
  <2>7. NotOvercleared'
    <3> SUFFICES ASSUME calm' PROVE \A h \in Receipts : Left(h)' >= 0
      BY DEF NotOvercleared
    <3>1. calm /\ Left(g) \in Int /\ \A h \in Receipts : Left(h) >= 0
      BY <2>2, <2>6, SumsTyped DEF NotOvercleared, Balanced
    <3>2. n = ToClear(b)
      BY <2>1, <2>5, <3>1 DEF Serial, Balanced
    <3>3. ToClear(b) = Left(g)
      <4>1. \A a \in Bills : (IF a # b /\ bill[a].grn = g /\ bill[a].status = "POSTED"
                              THEN bill[a].cleared ELSE 0)
                           = (IF bill[a].grn = g /\ bill[a].status = "POSTED" THEN bill[a].cleared ELSE 0)
        BY <2>6
      <4>2. ClearedOn(g, b) = SumFunction(ClearedFor(g))
        BY <4>1 DEF ClearedOn, ClearedFor
      <4>3. bill[b].grn = g
        BY <2>5
      <4>4. ToClear(b) = IF Left(g) > 0 THEN Left(g) ELSE 0
        BY <4>2, <4>3 DEF ToClear, Left
      <4>5. Left(g) \in Int /\ Left(g) >= 0
        BY <2>6, <3>1
      <4> QED BY <4>4, <4>5
    <3> QED BY <2>6, <3>1, <3>2, <3>3
  <2> QED BY <2>3, <2>4, <2>6, <2>7 DEF Balanced
<1>14. ASSUME NEW c \in Clients, Fail(c)
       PROVE  Balanced'
  <2>1. req[c] # Idle /\ Answer(c) /\ UNCHANGED <<po, grn, bill, acc>>
    BY <1>14 DEF Fail
  <2>2. calm' => calm
    BY <2>1, CalmAnswer DEF Balanced
  <2>3. Ledger' /\ \A g \in Receipts : Left(g)' = Left(g)
    BY <2>1, LedgerKept DEF Balanced
  <2>4. NotOvercleared' /\ Serial'
    BY <2>1, <2>2, <2>3, AnswerSerial DEF NotOvercleared, Balanced
  <2>5. ReceivedMatchesReceipts'
    BY <2>1, <2>2, ReceivedKept DEF Balanced
  <2> QED BY <2>3, <2>4, <2>5 DEF Balanced
<1>15. ASSUME NEW c \in Clients, NEW g \in Receipts, NEW l \in Landed, Receive(c, g, l)
       PROVE  Balanced'
  <2>1. req[c] # Idle /\ Answer(c) /\ l \in Nat
    BY <1>15, QuantityAssumption DEF Receive
  <2>2. calm' => calm
    BY <2>1, CalmAnswer DEF Balanced
  <2>3. Serial'
    BY <2>1, AnswerSerial DEF Balanced
  <2>4. Ledger' /\ Left(g)' = l /\ \A h \in Receipts \ {g} : Left(h)' = Left(h)
    BY <1>15, LedgerAfterReceive DEF Balanced
  <2>5. NotOvercleared'
    BY <2>1, <2>2, <2>4 DEF NotOvercleared, Balanced
  <2>6. ReceivedMatchesReceipts'
    <3> DEFINE v == ship[req[c].of].po
               receipts == [grn EXCEPT ![g] = [ship |-> req[c].of, qty |-> req[c].qty, landed |-> l]]
               lines == Synced(receipts, v)
    <3>1. \A w \in Versions : po[w].status # "NONE" => lines[w].received = ReceivedIn(receipts)
      BY DEF Synced, Typed, PurchaseOrder
    <3>2. \A w \in Versions : po[w].status = "NONE" => lines[w] = po[w]
      BY DEF Synced
    <3>3. lines \in [Versions -> {lines[w] : w \in Versions}]
      BY DEF Synced
    <3>4. po' = [lines EXCEPT ![v].status = IF lines[v].ordered = lines[v].received
                                             THEN "RECEIVED" ELSE "PARTIALLY_RECEIVED"]
          /\ grn' = receipts
      BY <1>15 DEF Receive
    <3>5. po[v].status # "NONE" /\ v \in Versions
      BY <1>15, Targets DEF Receive, Doing, Linked, Sent
    <3> HIDE DEF v, lines, receipts
    <3>6. \A w \in Versions : po'[w].received = lines[w].received /\ (w # v => po'[w] = lines[w])
      BY <3>3, <3>4
    <3>7. \A w \in Versions : po'[w].status # "NONE" => po'[w].received = ReceivedIn(grn')
      BY <3>1, <3>2, <3>4, <3>5, <3>6
    <3> QED BY <3>7 DEF ReceivedMatchesReceipts, ReceivedIn
  <2> QED BY <2>3, <2>4, <2>5, <2>6 DEF Balanced
<1>16. ASSUME NEW c \in Clients, NEW b \in Bills, LoadPost(c, b)
       PROVE  Balanced'
  <2> DEFINE r == [op |-> "post", of |-> b, seen |-> ToClear(b), qty |-> 0]
  <2>1. r.op = "post" /\ r.of = b /\ r.seen = ToClear(b) /\ Request(c, r)
    BY <1>16 DEF LoadPost
  <2> HIDE DEF r
  <2>2. CASE r = Idle
    BY <2>1, <2>2, BalancedIdle
  <2> QED BY <2>1, <2>2, BalancedAtLoad
<1>17. CASE UNCHANGED vars
  <2>1. UNCHANGED <<po, ship, grn, bill, acc, req, overlaps>>
    BY <1>17 DEF vars
  <2>2. Ledger' /\ \A g \in Receipts : Left(g)' = Left(g)
    BY <2>1, LedgerKept DEF Balanced
  <2>3. calm' = calm
    BY <2>1 DEF calm
  <2>4. NotOvercleared'
    BY <2>2, <2>3 DEF NotOvercleared, Balanced
  <2>5. ReceivedMatchesReceipts'
    BY <2>1, <2>3, ReceivedKept DEF Balanced
  <2>6. Serial'
    BY <2>1 DEF Balanced, Serial, calm, Doing, ReceivedIn, ToClear, ClearedOn
  <2> QED BY <2>2, <2>4, <2>5, <2>6 DEF Balanced
<1> QED
  BY <1>1, <1>2, <1>3, <1>4, <1>5, <1>6, <1>7, <1>8, <1>9, <1>10, <1>11, <1>12, <1>13, <1>14,
     <1>15, <1>16, <1>17 DEF Next
-----------------------------------------------------------------------------
(* The empty books are balanced. *)
LEMMA InitBalances == Init => Balanced
<1> SUFFICES ASSUME Init PROVE Balanced
  OBVIOUS
<1>1. Typed /\ Linked
  BY InitTyped
<1>2. \A g \in Receipts : grn[g].qty = 0 /\ grn[g].landed = 0 /\ grn[g].ship = None
  BY DEF Init
<1>3. \A b \in Bills : ~bill[b].journal
  BY DEF Init
<1>4. ReceivedIn(grn) = 0
  <2> DEFINE f == [g \in Receipts |-> grn[g].qty]
  <2>1. f \in [Receipts -> Int] /\ \A g \in Receipts : f[g] = 0
    BY <1>2
  <2>2. SumFunction(f) = 0
    BY <2>1, FiniteAssumption, SumZero
  <2> QED BY <2>2 DEF ReceivedIn
<1>5. SumFunction(BookedValues) = 0
  <2>1. BookedValues \in [Bills -> Int] /\ \A b \in Bills : BookedValues[b] = 0
    BY <1>3 DEF BookedValues
  <2> QED BY <2>1, FiniteAssumption, SumZero
<1>6. \A g \in Receipts : Left(g) = 0
  BY <1>1, <1>2, NothingOfUnreceived DEF Left
<1>7. SumFunction(Lefts) = 0
  <2>1. Lefts \in [Receipts -> Int] /\ \A g \in Receipts : Lefts[g] = 0
    BY <1>6 DEF Lefts
  <2> QED BY <2>1, FiniteAssumption, SumZero
<1>8. acc["grni"] = 0 /\ acc["accruals"] = 0
  BY DEF Init, Accounts
<1>9. Ledger
  BY <1>4, <1>5, <1>7, <1>8 DEF Ledger
<1>10. Serial /\ NotOvercleared /\ ReceivedMatchesReceipts
  BY <1>6 DEF Init, Serial, Doing, NotOvercleared, ReceivedMatchesReceipts
<1> QED BY <1>9, <1>10 DEF Balanced

(* Balanced books clear. *)
LEMMA BalancedClears == ASSUME Typed, Linked, Balanced PROVE SuspenseClears
<1>1. acc["grni"] = ReceivedIn(grn)
                     - SumFunction([b \in Bills |-> IF bill[b].journal THEN GrniValue(b) ELSE 0])
  BY DEF Balanced, Ledger, BookedValues
<1>2. ASSUME calm PROVE acc["accruals"] >= 0
  <2>1. Lefts \in [Receipts -> Nat]
    BY <1>2, SumsTyped DEF Balanced, NotOvercleared, Lefts
  <2>2. SumFunction(Lefts) \in Nat
    BY <2>1, FiniteAssumption, SumNatural
  <2> QED BY <2>2 DEF Balanced, Ledger
<1> QED BY <1>1, <1>2 DEF SuspenseClears

(* The books of purchasing stay balanced in every reachable state. *)
THEOREM PurchasingBalances == Spec => []Balanced
<1>1. Init => Balanced
  BY InitBalances
<1>2. Typed /\ Typed' /\ Linked /\ Linked' /\ Balanced /\ [Next]_vars => Balanced'
  BY NextBalances
<1> QED BY <1>1, <1>2, Recorded, PTL DEF Spec

(* ReceivedMatchesReceipts: while requests do not overlap, every version of an order
   holds what all receipts add up to (sync_po_line_received). *)
THEOREM ReceiptsReachEveryVersion == Spec => []ReceivedMatchesReceipts
<1>1. Balanced => ReceivedMatchesReceipts
  BY DEF Balanced
<1> QED BY <1>1, PurchasingBalances, PTL

(* SuspenseClears: every booked bill takes the value of its receipt off GRNI, whatever
   overlaps, and landed accruals are never over-cleared while requests do not. *)
THEOREM SuspenseAccountsClear == Spec => []SuspenseClears
<1>1. Typed /\ Linked /\ Balanced => SuspenseClears
  BY BalancedClears
<1> QED BY <1>1, Recorded, PurchasingBalances, PTL

-----------------------------------------------------------------------------
(* The codes of the exceptions, and the rows a run may have written. *)
Codes == {"NO_BOM", "NO_SOURCE", "NO_PROFILE", "TOO_SMALL", "SOURCE_SHORT", "UNPEGGED", "LOOP",
          "FAILED"}
RowsOfRun == [ordered : [Items -> [Days -> Nat]], netted : [Items -> Nat], sourced : [Items -> Nat],
              dependent : [Items -> Nat], requested : [Items -> Nat],
              reported : [Items -> SUBSET Codes]]

(* The types of the variables. *)
NettingTyped ==
  /\ item \in [Items -> ItemSite]
  /\ todo \in SUBSET {i \in Items : item[i].source \in Plannable}
  /\ walk # NoWalk => walk \in Walk /\ walk.item \in todo
  /\ agenda \in Seq(Requirement)
  /\ agenda # <<>> => walk # NoWalk
  /\ rows \in RowsOfRun /\ saved \in RowsOfRun
  /\ consumed \in [Items -> Nat] /\ sourceLeft \in [Items -> Nat]
  /\ asComponent \in SUBSET Items /\ withSafety \in SUBSET Items
  /\ failures \in Nat

(* The planner was told nothing that leaves an item's demand open. *)
Clear(r, i) == r.reported[i] \ {"SOURCE_SHORT", "UNPEGGED"} = {}

(* The walk's orders of an item never exceed the worst shortage so far. *)
FitsOn(f, i, d) ==
  SumUpTo(f, d) > 0 =>
    \E e \in 0..d : LET lack == item[i].reserved + ShortBy(i, item[i].onHand, e)
                    IN  lack > 0 /\ SumUpTo(f, d) <= lack + Slack(i)
Fits(f, i) == \A d \in Days : FitsOn(f, i, d)

(* They cover what the stock and the receipts lack on a day. *)
CoversOn(f, i, d) == SumUpTo(f, d) >= ShortBy(i, Nettable(i), d)

(* Between two profiles: what is not planned yet has no orders of a walk. *)
Settled(r) ==
  \A i \in Items :
    /\ Fits(r.ordered[i], i)
    /\ i \in todo \/ item[i].source \notin Plannable => r.ordered[i] = NoDays
    /\ i \notin todo /\ Walked(i) /\ Clear(r, i) => \A d \in Days : CoversOn(r.ordered[i], i, d)

(* During the walk of i: the projected balance is what the stock and the receipts leave,
   with the orders placed so far, and the days behind are covered. *)
Walking ==
  LET i == walk.item
      f == rows.ordered[i]
  IN  /\ Fits(f, i)
      /\ \A e \in Days : e > walk.day => f[e] = 0
      /\ walk.projected = item[i].safety - ShortBy(i, Nettable(i), walk.day) + SumUpTo(f, walk.day)
      /\ walk.guard = MaxOrders => "TOO_SMALL" \in rows.reported[i]
      /\ Clear(rows, i) => \A e \in Days : e < walk.day => CoversOn(f, i, e)
      /\ \A j \in Items \ {i} : /\ rows.ordered[j] = saved.ordered[j]
                                /\ saved.reported[j] \subseteq rows.reported[j]

OrdersFollowWalks ==
  IF walk = NoWalk THEN Settled(rows) ELSE Settled(saved) /\ Walking

(* What is drawn on the stock of an item as a component and as a source. *)
DrawnOnce(i) ==
  /\ consumed[i] <= Supply(i) /\ sourceLeft[i] <= Nettable(i)
  /\ i \in asComponent /\ item[i].safety > 0 => i \in withSafety
  /\ item[i].source \in Plannable /\ Clear(rows, i) =>
       /\ i \notin asComponent => rows.dependent[i] = 0
       /\ rows.dependent[i] + (IF i \in withSafety THEN item[i].safety ELSE 0)
            <= consumed[i] + rows.netted[i]
       /\ rows.requested[i] <= Nettable(i) - sourceLeft[i] + rows.sourced[i]
DrawsCover == failures = 0 => \A i \in Items : DrawnOnce(i)

(* How the walk's orders are rounded: no less than what is missing, and less than a
   whole divisor more. *)
LEMMA CeilingBounds ==
  ASSUME NEW n \in Nat, NEW m \in Nat \ {0}
  PROVE  CeilDiv(n, m) \in Nat /\ n <= m * CeilDiv(n, m) /\ m * CeilDiv(n, m) <= n + m - 1
<1> DEFINE a == n + m - 1
           q == a \div m
<1>1. a \in Nat
  OBVIOUS
<1>2. q \in Nat /\ m * q <= a /\ a < m * q + m
  <2>1. q = a \div m /\ a \in Nat /\ m \in Nat /\ m > 0
    BY <1>1
  <2>2. \A x \in Nat, y \in Nat \ {0} :
          x \div y \in Nat /\ y * (x \div y) <= x /\ x < y * (x \div y) + y
    OBVIOUS
  <2> QED BY <2>1, <2>2
<1>3. CeilDiv(n, m) = q
  BY DEF CeilDiv
<1>4. m * q \in Nat
  BY <1>2
<1> HIDE DEF q
<1> QED BY <1>2, <1>3, <1>4

(* _round_up_to_multiple *)
LEMMA RoundUpBounds ==
  ASSUME NEW n \in Nat, NEW m \in Nat
  PROVE  /\ RoundUpToMultiple(n, m) \in Nat /\ RoundUpToMultiple(n, m) >= n
         /\ RoundUpToMultiple(n, m) <= n + (IF m > 0 THEN m ELSE 1) - 1
<1>1. CASE m = 0
  BY <1>1 DEF RoundUpToMultiple
<1>2. CASE m > 0
  <2>1. PICK q \in Nat : q = CeilDiv(n, m) /\ n <= m * q /\ m * q <= n + m - 1
    BY <1>2, CeilingBounds
  <2>2. RoundUpToMultiple(n, m) = m * q
    BY <1>2, <2>1 DEF RoundUpToMultiple
  <2>3. m * q \in Nat
    BY <2>1
  <2> QED BY <1>2, <2>1, <2>2, <2>3
<1> QED BY <1>1, <1>2

(* The greater of two numbers. *)
LEMMA MaxOfTwo ==
  ASSUME NEW a \in Int, NEW b \in Int
  PROVE  Max({a, b}) = IF a >= b THEN a ELSE b
BY DEF Max

(* The smaller. *)
LEMMA MinOfTwo ==
  ASSUME NEW a \in Int, NEW b \in Int
  PROVE  Min({a, b}) = IF a <= b THEN a ELSE b
BY DEF Min

(* The greatest. *)
LEMMA MaxOfThree ==
  ASSUME NEW a \in Int, NEW b \in Int, NEW c \in Int
  PROVE  /\ Max({a, b, c}) \in {a, b, c}
         /\ Max({a, b, c}) >= a /\ Max({a, b, c}) >= b /\ Max({a, b, c}) >= c
<1>1. \E x \in {a, b, c} : \A y \in {a, b, c} : x >= y
  OBVIOUS
<1> QED BY <1>1 DEF Max

(* Slack, as a function of the rules. *)
RoundingOf(r) ==
  (IF r.method = "FIXED_QTY" THEN Max({1, r.fixed, r.moq}) ELSE Max({1, r.moq})) - 1
    + Max({1, r.multiple}) - 1

(* size_order never orders nothing, orders what is missing unless the cap keeps it from it,
   and no more than lot size, minimum and multiple call for. *)
LEMMA OrderSize ==
  ASSUME NEW r \in LotRules, NEW net \in Nat \ {0}
  PROVE  /\ SizeOrder(r, net) \in Nat \ {0}
         /\ SizeOrder(r, net) <= net + RoundingOf(r)
         /\ Capped(r, net) \/ SizeOrder(r, net) >= net
         /\ RoundingOf(r) \in Nat
<1>1. r.method \in {"LOT_FOR_LOT", "FIXED_QTY"} /\ r.fixed \in Nat /\ r.moq \in Nat
      /\ r.multiple \in Nat /\ r.max \in Nat
  BY DEF LotRules
<1>2. PICK a \in Nat : a = RoundUpToMultiple(net, r.fixed) /\ a >= net
                       /\ a <= net + (IF r.fixed > 0 THEN r.fixed ELSE 1) - 1
  BY <1>1, RoundUpBounds
<1> DEFINE lots == IF r.method = "FIXED_QTY" THEN a ELSE net
           least == IF lots < r.moq THEN r.moq ELSE lots
<1>3. least \in Nat /\ least >= net
  BY <1>1, <1>2
<1>4. PICK b \in Nat : b = RoundUpToMultiple(least, r.multiple) /\ b >= least
                       /\ b <= least + (IF r.multiple > 0 THEN r.multiple ELSE 1) - 1
  BY <1>1, <1>3, RoundUpBounds
<1>5. Uncapped(r, net) = b
  BY <1>2, <1>4 DEF Uncapped
<1>6. PICK m3 \in Nat : m3 = Max({1, r.fixed, r.moq}) /\ m3 >= 1 /\ m3 >= r.fixed /\ m3 >= r.moq
  <2>1. 1 \in Int /\ r.fixed \in Int /\ r.moq \in Int /\ {1, r.fixed, r.moq} \subseteq Nat
    BY <1>1
  <2>2. /\ Max({1, r.fixed, r.moq}) \in {1, r.fixed, r.moq}
        /\ Max({1, r.fixed, r.moq}) >= 1 /\ Max({1, r.fixed, r.moq}) >= r.fixed
        /\ Max({1, r.fixed, r.moq}) >= r.moq
    BY <2>1, MaxOfThree, Zenon
  <2> QED BY <2>1, <2>2
<1>7. PICK m2 \in Nat : m2 = Max({1, r.moq}) /\ m2 >= 1 /\ m2 >= r.moq
  BY <1>1, MaxOfTwo
<1>8. PICK k \in Nat : k = Max({1, r.multiple}) /\ k >= 1 /\ k >= r.multiple
  BY <1>1, MaxOfTwo
<1>9. RoundingOf(r) = (IF r.method = "FIXED_QTY" THEN m3 ELSE m2) - 1 + k - 1
  BY <1>6, <1>7, <1>8 DEF RoundingOf
<1>10. b <= net + RoundingOf(r) /\ b >= net /\ RoundingOf(r) \in Nat
  BY <1>1, <1>2, <1>3, <1>4, <1>6, <1>7, <1>8, <1>9
<1>11. SizeOrder(r, net) = (IF Capped(r, net) THEN r.max ELSE b)
       /\ (Capped(r, net) <=> r.max > 0 /\ b > r.max)
  BY <1>5 DEF SizeOrder, Capped
<1> HIDE DEF lots, least
<1> QED BY ONLY <1>1, <1>10, <1>11, b \in Nat, net \in Nat \ {0}

(* component_required_qty *)
LEMMA RequiredIsNumber ==
  ASSUME NEW line \in BomLine, NEW output \in Nat, NEW qty \in Nat
  PROVE  RequiredQty(line, output, qty) \in Nat
<1>1. line.qty \in Nat /\ line.fixed \in Nat /\ line.scrap \in Nat
  BY DEF BomLine
<1> DEFINE per == IF output > 0 THEN output ELSE 1
           good == IF line.scrap < 100 THEN 100 - line.scrap ELSE 100
<1>2. per \in Nat \ {0} /\ good \in Nat \ {0}
  BY <1>1
<1> HIDE DEF per, good
<1>3. per * good \in Nat \ {0} /\ qty * line.qty \in Nat /\ line.fixed * per \in Nat
  BY <1>1, <1>2
<1>4. (qty * line.qty + line.fixed * per) * 100 \in Nat
  BY <1>3
<1>5. CeilDiv((qty * line.qty + line.fixed * per) * 100, per * good) \in Nat
  BY <1>3, <1>4, CeilingBounds
<1> QED BY <1>5 DEF RequiredQty, per, good

(* The least of a set of numbers. *)
LEMMA LeastOf ==
  ASSUME NEW N \in SUBSET Nat, N # {}
  PROVE  Min(N) \in N /\ \A m \in N : Min(N) <= m
<1>1. PICK n \in N : \A m \in N : n <= m
  BY SmallestNumber
<1> QED BY <1>1 DEF Min

(* The days up to one of the plan. *)
LEMMA DaysUpTo ==
  ASSUME NEW d \in Days
  PROVE  /\ d \in Nat /\ d <= LastDay /\ 0 .. d \subseteq Days /\ IsFiniteSet(0 .. d)
         /\ LastDay \in Days /\ 0 \in Days /\ IsFiniteSet(Days)
<1>1. LastDay \in Nat /\ d \in 0 .. LastDay
  BY DayAssumption DEF Days
<1>2. d \in Nat /\ d <= LastDay /\ 0 .. d \subseteq 0 .. LastDay /\ LastDay \in 0 .. LastDay
      /\ 0 \in 0 .. LastDay
  BY <1>1
<1>3. 0 \in Int /\ d \in Int /\ LastDay \in Int
  BY <1>1, <1>2
<1>4. IsFiniteSet(0 .. d) /\ IsFiniteSet(0 .. LastDay)
  BY <1>3, FS_Interval, Zenon
<1> QED BY <1>2, <1>4 DEF Days

(* The sum up to a day is a number, as its summands are. *)
LEMMA UpToTyped ==
  ASSUME NEW d \in Days, NEW f \in [Days -> Int]
  PROVE  SumUpTo(f, d) \in Int /\ (f \in [Days -> Nat] => SumUpTo(f, d) \in Nat)
<1> DEFINE s == 0 .. d
           g == [e \in s |-> f[e]]
<1>1. IsFiniteSet(s) /\ s \subseteq Days
  BY DaysUpTo
<1>2. g \in [s -> Int] /\ (f \in [Days -> Nat] => g \in [s -> Nat])
  BY <1>1
<1> HIDE DEF s, g
<1>3. SumFunction(g) \in Int
  BY <1>1, <1>2, SumInteger
<1>4. f \in [Days -> Nat] => SumFunction(g) \in Nat
  BY <1>1, <1>2, SumNatural
<1> QED BY <1>3, <1>4 DEF SumUpTo, s, g

(* Days on which nothing happens add nothing. *)
LEMMA UpToFlat ==
  ASSUME NEW d \in Days, NEW x \in Days, d <= x, NEW f \in [Days -> Int],
         \A e \in Days : d < e /\ e <= x => f[e] = 0
  PROVE  SumUpTo(f, x) = SumUpTo(f, d)
<1> DEFINE T == 0 .. d
           S == 0 .. x
           g == [e \in T |-> f[e]]
           h == [e \in S |-> f[e]]
<1>1. IsFiniteSet(S) /\ S \subseteq Days /\ T \subseteq Days /\ T \in SUBSET S
      /\ d \in Nat /\ x \in Nat
  BY DaysUpTo
<1>2. g \in [T -> Int] /\ h \in [S -> Int]
  BY <1>1
<1>3. \A e \in S : h[e] = IF e \in T THEN g[e] ELSE 0
  <2> SUFFICES ASSUME NEW e \in S PROVE h[e] = IF e \in T THEN g[e] ELSE 0
    OBVIOUS
  <2>1. e \in T \/ (d < e /\ e <= x /\ e \in Days)
    BY <1>1
  <2> QED BY <2>1
<1>4. SumUpTo(f, x) = SumFunction(h) /\ SumUpTo(f, d) = SumFunction(g)
  BY DEF SumUpTo
<1> HIDE DEF g, h, T, S
<1>5. SumFunction(g) = SumFunction(h)
  <2>1. IsFiniteSet(S) /\ T \in SUBSET S /\ g \in [T -> Int] /\ h \in [S -> Int]
    BY <1>1, <1>2
  <2> QED BY ONLY <2>1, <1>3, SumSubset
<1> QED BY <1>4, <1>5

(* An amount added on one day is added to the sums from that day on. *)
LEMMA UpToPlus ==
  ASSUME NEW d \in Days, NEW x \in Days, NEW f \in [Days -> Int], NEW g \in [Days -> Int],
         \A e \in Days \ {x} : g[e] = f[e]
  PROVE  SumUpTo(g, d) = SumUpTo(f, d) + (IF x <= d THEN g[x] - f[x] ELSE 0)
<1> DEFINE S == 0 .. d
           F == [e \in S |-> f[e]]
           G == [e \in S |-> g[e]]
<1>1. IsFiniteSet(S) /\ S \subseteq Days /\ d \in Nat /\ x \in Nat
  BY DaysUpTo
<1>2. F \in [S -> Int] /\ G \in [S -> Int]
  BY <1>1
<1>3. SumUpTo(g, d) = SumFunction(G) /\ SumUpTo(f, d) = SumFunction(F)
  BY DEF SumUpTo
<1>4. CASE x <= d
  <2>1. x \in S /\ (\A e \in S \ {x} : G[e] = F[e]) /\ G[x] = g[x] /\ F[x] = f[x]
    BY <1>1, <1>4
  <2> HIDE DEF S, F, G
  <2>2. SumFunction(G) = SumFunction(F) + G[x] - F[x]
    <3>1. IsFiniteSet(S) /\ F \in [S -> Int] /\ G \in [S -> Int]
      BY <1>1, <1>2
    <3> QED BY ONLY <3>1, <2>1, SumUpdate
  <2>3. SumFunction(F) \in Int /\ g[x] \in Int /\ f[x] \in Int
    BY <1>1, <1>2, SumInteger
  <2> QED BY <1>3, <1>4, <2>1, <2>2, <2>3
<1>5. CASE ~(x <= d)
  <2>1. \A e \in S : e # x /\ e \in Days
    BY <1>1, <1>5
  <2>2. G = F
    BY <2>1
  <2> HIDE DEF S, F, G
  <2>3. SumFunction(F) \in Int
    BY <1>1, <1>2, SumInteger
  <2> QED BY <1>3, <1>5, <2>2, <2>3
<1> QED BY <1>4, <1>5

(* The next day on which something happens adds what happens on it. *)
LEMMA UpToNext ==
  ASSUME NEW d \in Days, NEW x \in Days, d < x, NEW f \in [Days -> Int],
         \A e \in Days : d < e /\ e < x => f[e] = 0
  PROVE  SumUpTo(f, x) = SumUpTo(f, d) + f[x]
<1> DEFINE g == [f EXCEPT ![x] = 0]
<1>1. g \in [Days -> Int] /\ g[x] = 0 /\ \A e \in Days \ {x} : f[e] = g[e]
  OBVIOUS
<1> HIDE DEF g
<1>2. d \in Nat /\ x \in Nat
  BY DaysUpTo
<1>3. \A e \in Days : d < e /\ e <= x => g[e] = 0
  <2> SUFFICES ASSUME NEW e \in Days, d < e, e <= x PROVE g[e] = 0
    OBVIOUS
  <2>1. e \in Nat
    BY DaysUpTo
  <2> QED BY <1>1, <1>2, <2>1
<1>4. SumUpTo(g, x) = SumUpTo(g, d)
  BY <1>1, <1>2, <1>3, UpToFlat
<1>5. SumUpTo(f, x) = SumUpTo(g, x) + (IF x <= x THEN f[x] - g[x] ELSE 0)
  BY <1>1, UpToPlus
<1>6. SumUpTo(f, d) = SumUpTo(g, d) + (IF x <= d THEN f[x] - g[x] ELSE 0)
  BY <1>1, UpToPlus
<1>7. SumUpTo(g, d) \in Int /\ f[x] \in Int
  BY <1>1, UpToTyped
<1> QED BY <1>1, <1>2, <1>4, <1>5, <1>6, <1>7

(* Days on which nothing happens add up to nothing. *)
LEMMA UpToZero ==
  ASSUME NEW d \in Days
  PROVE  SumUpTo(NoDays, d) = 0
<1> DEFINE S == 0 .. d
           F == [e \in S |-> NoDays[e]]
<1>1. IsFiniteSet(S) /\ S \subseteq Days
  BY DaysUpTo
<1>2. F \in [S -> Int] /\ \A e \in S : F[e] = 0
  BY <1>1 DEF NoDays
<1>3. SumUpTo(NoDays, d) = SumFunction(F)
  BY DEF SumUpTo
<1> HIDE DEF S, F
<1> QED BY <1>1, <1>2, <1>3, SumZero

(* What the records say of an item-site, as numbers: what may be netted, what each day asks
   for and brings, and the days on which something happens. *)
LEMMA ItemNumbers ==
  ASSUME item \in [Items -> ItemSite], NEW i \in Items
  PROVE  /\ item[i].safety \in Nat /\ item[i].onHand \in Nat /\ item[i].reserved \in Nat
         /\ item[i].rules \in LotRules /\ item[i].source \in Plannable \cup {"PHANTOM", "NONE"}
         /\ item[i].sales \in [Days -> Nat] /\ item[i].forecast \in [Days -> Nat]
         /\ item[i].receipts \in [Days -> Nat]
         /\ item[i].transfer.qty \in Nat /\ item[i].transfer.dispatched \in Nat
         /\ item[i].transfer.received \in Nat
<1>1. item[i] \in ItemSite
  OBVIOUS
<1>2. item[i].transfer \in [qty : Nat, dispatched : Nat, received : Nat]
  BY <1>1 DEF ItemSite
<1> QED BY <1>1, <1>2 DEF ItemSite

(* The stock counts what is not reserved. *)
LEMMA NettableIsNumber ==
  ASSUME item \in [Items -> ItemSite], NEW i \in Items
  PROVE  Nettable(i) \in Nat /\ Nettable(i) >= item[i].onHand - item[i].reserved
<1>1. PICK a \in Int : a = item[i].onHand - item[i].reserved
  BY ItemNumbers
<1>2. Max({0, a}) = IF 0 >= a THEN 0 ELSE a
  BY MaxOfTwo
<1> QED BY <1>1, <1>2 DEF Nettable

(* What a source has to give is part of its stock. *)
LEMMA SourceIsNumber ==
  ASSUME item \in [Items -> ItemSite], NEW i \in Items
  PROVE  SourceAvailable(i) \in Nat /\ SourceAvailable(i) <= Nettable(i)
<1>1. PICK n \in Nat : n = Nettable(i)
  BY NettableIsNumber
<1>2. PICK a \in Int : a = n - item[i].outbound /\ a <= n
  <2>1. item[i] \in ItemSite
    OBVIOUS
  <2>2. item[i].outbound \in Nat
    BY <2>1 DEF ItemSite
  <2> QED BY <2>2
<1>3. Max({0, a}) = IF 0 >= a THEN 0 ELSE a
  BY MaxOfTwo
<1> QED BY <1>1, <1>2, <1>3 DEF SourceAvailable

(* The sum of some days' entries. *)
LEMMA SomeDays ==
  ASSUME NEW s \in SUBSET Days, NEW f \in [Days -> Nat]
  PROVE  SumFunction([e \in s |-> f[e]]) \in Nat
<1> DEFINE g == [e \in s |-> f[e]]
<1>1. 0 \in Days
  BY DayAssumption DEF Days
<1>2. IsFiniteSet(s)
  BY <1>1, DaysUpTo, FS_Subset
<1>3. g \in [s -> Nat]
  OBVIOUS
<1> HIDE DEF g
<1>4. SumFunction(g) \in Nat
  BY ONLY <1>2, <1>3, SumNatural
<1> QED BY <1>4 DEF g

(* consume: what remains of a forecast line. *)
LEMMA RemainingIsNumber ==
  ASSUME item \in [Items -> ItemSite], NEW i \in Items, NEW d \in Days
  PROVE  Remaining(i, d) \in 0 .. item[i].forecast[d]
<1>1. PICK n \in Nat : n = item[i].forecast[d]
  BY ItemNumbers
<1>2. PICK b \in Nat :
        b = SumFunction([e \in {x \in SameBucket(d) : x < d} |-> item[i].forecast[e]])
  <2>1. {x \in SameBucket(d) : x < d} \in SUBSET Days
    BY DEF SameBucket
  <2> QED BY <2>1, ItemNumbers, SomeDays
<1>3. PICK s \in Nat : s = SalesIn(i, SameBucket(d))
  <2>1. SameBucket(d) \in SUBSET Days
    BY DEF SameBucket
  <2> QED BY <2>1, ItemNumbers, SomeDays DEF SalesIn
<1>4. PICK a \in Nat : a = Max({0, s - b})
  <2>1. s - b \in Int
    OBVIOUS
  <2>2. Max({0, s - b}) = IF 0 >= s - b THEN 0 ELSE s - b
    BY <2>1, MaxOfTwo
  <2> QED BY <2>1, <2>2
<1>5. PICK m \in 0 .. n : m = Min({n, a})
  BY MinOfTwo
<1>6. Remaining(i, d) = n - m
  BY <1>1, <1>2, <1>3, <1>4, <1>5 DEF Remaining
<1> QED BY <1>1, <1>5, <1>6

(* An item with no sales and no forecast has no demand of its own. *)
LEMMA GrossIsNumber ==
  ASSUME item \in [Items -> ItemSite], NEW i \in Items
  PROVE  /\ Gross(i) \in [Days -> Nat]
         /\ ~ HasIndependentDemand(i) => \A d \in Days : Gross(i)[d] = 0
<1>1. item[i].sales \in [Days -> Nat] /\ item[i].forecast \in [Days -> Nat]
  BY ItemNumbers
<1>2. \A d \in Days : Remaining(i, d) \in 0 .. item[i].forecast[d]
  BY RemainingIsNumber
<1>3. Gross(i) = [d \in Days |-> item[i].sales[d] + Remaining(i, d)]
  BY DEF Gross
<1>4. \A d \in Days : Remaining(i, d) \in Nat
  BY <1>1, <1>2
<1>5. Gross(i) \in [Days -> Nat]
  BY <1>1, <1>3, <1>4
<1>6. ASSUME ~ HasIndependentDemand(i), NEW d \in Days PROVE Gross(i)[d] = 0
  <2>1. item[i].sales[d] = 0 /\ item[i].forecast[d] = 0
    BY <1>1, <1>6 DEF HasIndependentDemand
  <2>2. Remaining(i, d) = 0
    BY <1>2, <2>1
  <2> QED BY <1>3, <2>1, <2>2
<1> QED BY <1>5, <1>6

(* The receipts, and what a transfer has still to bring. *)
LEMMA ExpectedIsNumber ==
  ASSUME item \in [Items -> ItemSite], NEW i \in Items
  PROVE  Expected(i) \in [Days -> Nat]
<1>1. PICK q \in Nat, d \in Nat, r \in Nat :
        item[i].transfer.qty = q /\ item[i].transfer.dispatched = d /\ item[i].transfer.received = r
  BY ItemNumbers
<1>2. PICK a \in Nat : a = Max({0, q - d})
  <2>1. q - d \in Int
    OBVIOUS
  <2> QED BY <2>1, MaxOfTwo
<1>3. PICK b \in Nat : b = Max({0, d - r})
  <2>1. d - r \in Int
    OBVIOUS
  <2> QED BY <2>1, MaxOfTwo
<1>4. Inbound(i) = a + b
  BY <1>1, <1>2, <1>3 DEF Inbound
<1>5. 0 \in Days
  BY DayAssumption DEF Days
<1>6. item[i].receipts \in [Days -> Nat]
  BY ItemNumbers
<1>7. Expected(i) = [item[i].receipts EXCEPT ![0] = @ + (a + b)]
  BY <1>4 DEF Expected
<1>8. item[i].receipts[0] + (a + b) \in Nat
  BY <1>5, <1>6
<1> QED BY <1>5, <1>6, <1>7, <1>8

(* Supply is the nettable stock and all receipts. *)
LEMMA SupplyIsNumber ==
  ASSUME item \in [Items -> ItemSite], NEW i \in Items
  PROVE  Supply(i) \in Nat /\ SumUpTo(Expected(i), LastDay) \in Nat
         /\ Supply(i) = Nettable(i) + SumUpTo(Expected(i), LastDay)
<1>1. LastDay \in Days
  BY DayAssumption DEF Days
<1>2. Expected(i) \in [Days -> Nat] /\ Expected(i) \in [Days -> Int]
  BY ExpectedIsNumber
<1>3. SumUpTo(Expected(i), LastDay) \in Nat
  BY <1>1, <1>2, UpToTyped
<1> QED BY <1>3, NettableIsNumber DEF Supply

(* On the other days nothing happens. *)
LEMMA Eventless ==
  ASSUME item \in [Items -> ItemSite], NEW i \in Items
  PROVE  /\ EventDays(i) \in SUBSET Days /\ 0 \in EventDays(i)
         /\ \A d \in Days \ EventDays(i) : Expected(i)[d] = 0 /\ Gross(i)[d] = 0
<1>1. 0 \in Days
  BY DayAssumption DEF Days
<1>2. Expected(i) \in [Days -> Nat] /\ Gross(i) \in [Days -> Nat]
  BY ExpectedIsNumber, GrossIsNumber
<1> QED BY <1>1, <1>2 DEF EventDays

(* Slack is what the lot rules may round up. *)
LEMMA SlackIs ==
  ASSUME NEW i \in Items
  PROVE  Slack(i) = RoundingOf(item[i].rules)
BY DEF Slack, RoundingOf

(* What an item lacks on a day is a number, as safety stock and sums are. *)
LEMMA ShortIsNumber ==
  ASSUME item \in [Items -> ItemSite], NEW i \in Items, NEW h \in Int, NEW d \in Days
  PROVE  /\ ShortBy(i, h, d) \in Int
         /\ SumUpTo(Gross(i), d) \in Nat /\ SumUpTo(Expected(i), d) \in Nat
         /\ ShortBy(i, h, d) = item[i].safety + SumUpTo(Gross(i), d) - h - SumUpTo(Expected(i), d)
<1>1. PICK G \in [Days -> Nat], X \in [Days -> Nat], s \in Nat :
        G = Gross(i) /\ X = Expected(i) /\ s = item[i].safety
  BY GrossIsNumber, ExpectedIsNumber, ItemNumbers
<1>2. SumUpTo(G, d) \in Nat /\ SumUpTo(X, d) \in Nat
  <2>1. G \in [Days -> Int] /\ X \in [Days -> Int]
    OBVIOUS
  <2> QED BY <2>1, UpToTyped
<1>3. ShortBy(i, h, d) = s + SumUpTo(G, d) - h - SumUpTo(X, d)
  BY <1>1 DEF ShortBy
<1> QED BY <1>1, <1>2, <1>3

(* From one event day to the next the shortage changes by what the next one brings. *)
LEMMA ShortLater ==
  ASSUME item \in [Items -> ItemSite], NEW i \in Items, NEW h \in Int, NEW d \in Days,
         NEW x \in Days, d < x, \A e \in Days : d < e /\ e < x => e \notin EventDays(i)
  PROVE  ShortBy(i, h, x) = ShortBy(i, h, d) + Gross(i)[x] - Expected(i)[x]
<1>1. PICK G \in [Days -> Nat], X \in [Days -> Nat] : G = Gross(i) /\ X = Expected(i)
  BY GrossIsNumber, ExpectedIsNumber
<1>2. \A e \in Days : d < e /\ e < x => G[e] = 0 /\ X[e] = 0
  BY <1>1, Eventless
<1>3. G \in [Days -> Int] /\ X \in [Days -> Int] /\ (\A e \in Days : d < e /\ e < x => G[e] = 0)
      /\ \A e \in Days : d < e /\ e < x => X[e] = 0
  BY <1>2
<1>4. SumUpTo(G, x) = SumUpTo(G, d) + G[x] /\ SumUpTo(X, x) = SumUpTo(X, d) + X[x]
  BY <1>3, UpToNext
<1>5. SumUpTo(G, d) \in Nat /\ SumUpTo(X, d) \in Nat /\ G[x] \in Nat /\ X[x] \in Nat
      /\ SumUpTo(G, x) \in Nat /\ SumUpTo(X, x) \in Nat
  BY <1>1, ShortIsNumber
<1>6. item[i].safety \in Nat
  BY ItemNumbers
<1>7. /\ ShortBy(i, h, x) = item[i].safety + SumUpTo(G, x) - h - SumUpTo(X, x)
      /\ ShortBy(i, h, d) = item[i].safety + SumUpTo(G, d) - h - SumUpTo(X, d)
  BY <1>1 DEF ShortBy
<1> QED BY <1>1, <1>4, <1>5, <1>6, <1>7

(* On days without events it stays the same. *)
LEMMA ShortFlat ==
  ASSUME item \in [Items -> ItemSite], NEW i \in Items, NEW h \in Int, NEW d \in Days,
         NEW x \in Days, d <= x, \A e \in Days : d < e /\ e <= x => e \notin EventDays(i)
  PROVE  ShortBy(i, h, x) = ShortBy(i, h, d)
<1>1. PICK G \in [Days -> Nat], X \in [Days -> Nat] : G = Gross(i) /\ X = Expected(i)
  BY GrossIsNumber, ExpectedIsNumber
<1>2. \A e \in Days : d < e /\ e <= x => G[e] = 0 /\ X[e] = 0
  BY <1>1, Eventless
<1>3. G \in [Days -> Int] /\ X \in [Days -> Int] /\ (\A e \in Days : d < e /\ e <= x => G[e] = 0)
      /\ \A e \in Days : d < e /\ e <= x => X[e] = 0
  BY <1>2
<1>4. SumUpTo(G, x) = SumUpTo(G, d) /\ SumUpTo(X, x) = SumUpTo(X, d)
  BY <1>3, UpToFlat
<1> QED BY <1>1, <1>4 DEF ShortBy

(* A day that is covered covers the days after it on which nothing happens. *)
LEMMA CoversFlat ==
  ASSUME item \in [Items -> ItemSite], NEW i \in Items, NEW f \in [Days -> Nat], NEW d \in Days,
         NEW x \in Days, d <= x, \A e \in Days : d < e /\ e <= x => e \notin EventDays(i),
         \A e \in Days : e > d => f[e] = 0, CoversOn(f, i, d)
  PROVE  CoversOn(f, i, x)
<1>1. PICK n \in Nat : n = Nettable(i)
  BY NettableIsNumber
<1>2. ShortBy(i, n, x) = ShortBy(i, n, d)
  BY ShortFlat
<1>3. SumUpTo(f, x) = SumUpTo(f, d)
  <2>1. f \in [Days -> Int] /\ \A e \in Days : d < e /\ e <= x => f[e] = 0
    <3>1. \A e \in Days : e \in Nat /\ d \in Nat
      BY DaysUpTo
    <3> QED BY <3>1
  <2> QED BY <2>1, UpToFlat
<1> QED BY <1>1, <1>2, <1>3 DEF CoversOn

(* What an order of q on day d makes of the walk's orders f. *)
PlacedOn(i, d, f, q, g) ==
  /\ q \in Nat \ {0} /\ g \in [Days -> Nat] /\ Fits(g, i)
  /\ \A e \in Days : e > d => g[e] = 0
  /\ SumUpTo(g, d) = SumUpTo(f, d) + q
  /\ \A e \in Days : e < d => SumUpTo(g, e) = SumUpTo(f, e)

(* An order placed on the last day of the walk so far, as large as the lot rules make it,
   fits the shortage of that day. *)
LEMMA OrderFits ==
  ASSUME item \in [Items -> ItemSite], NEW i \in Items, NEW f \in [Days -> Nat], NEW d \in Days,
         \A e \in Days : e > d => f[e] = 0, Fits(f, i), NEW p \in Int,
         p = item[i].safety - ShortBy(i, Nettable(i), d) + SumUpTo(f, d), p < item[i].safety,
         NEW q, q = SizeOrder(item[i].rules, item[i].safety - p),
         NEW g, g = [f EXCEPT ![d] = @ + q]
  PROVE  PlacedOn(i, d, f, q, g)
<1>1. PICK n \in Nat : n = Nettable(i) /\ n >= item[i].onHand - item[i].reserved
  BY NettableIsNumber
<1>2. PICK s \in Nat, a \in Nat, b \in Nat :
        s = item[i].safety /\ a = item[i].onHand /\ b = item[i].reserved
  BY ItemNumbers
<1>3. PICK k \in Nat : k = Slack(i) /\ q \in Nat \ {0} /\ q <= s - p + k
  <2>1. item[i].rules \in LotRules /\ s - p \in Nat \ {0}
    BY <1>2, ItemNumbers
  <2>2. /\ SizeOrder(item[i].rules, s - p) \in Nat \ {0}
        /\ SizeOrder(item[i].rules, s - p) <= s - p + RoundingOf(item[i].rules)
        /\ RoundingOf(item[i].rules) \in Nat
    BY <2>1, OrderSize
  <2> QED BY <1>2, <2>2, SlackIs
<1>4. g \in [Days -> Nat] /\ (\A e \in Days \ {d} : g[e] = f[e]) /\ g[d] - f[d] = q
  BY <1>3
<1>5. \A e \in Days : e \in Nat
  BY DaysUpTo
<1>6. \A e \in Days : SumUpTo(g, e) = SumUpTo(f, e) + (IF d <= e THEN g[d] - f[d] ELSE 0)
  <2>1. f \in [Days -> Int] /\ g \in [Days -> Int]
    BY <1>4
  <2>2. \A e \in Days \ {d} : g[e] = f[e]
    BY <1>4
  <2> QED BY ONLY d \in Days, <2>1, <2>2, UpToPlus
<1>7. \A e \in Days : SumUpTo(f, e) \in Nat
  BY UpToTyped
<1>8. SumUpTo(g, d) = SumUpTo(f, d) + q /\ \A e \in Days : e < d => SumUpTo(g, e) = SumUpTo(f, e)
  <2>1. SumUpTo(g, d) = SumUpTo(f, d) + q
    <3>1. SumUpTo(g, d) = SumUpTo(f, d) + (IF d <= d THEN g[d] - f[d] ELSE 0)
      BY <1>6, Zenon
    <3>2. d <= d /\ SumUpTo(f, d) \in Nat
      BY <1>5, <1>7
    <3> QED BY <1>4, <3>1, <3>2
  <2>2. ASSUME NEW e \in Days, e < d PROVE SumUpTo(g, e) = SumUpTo(f, e)
    <3>1. SumUpTo(g, e) = SumUpTo(f, e) + (IF d <= e THEN g[d] - f[d] ELSE 0)
      BY <1>6, Zenon
    <3>2. ~ (d <= e) /\ SumUpTo(f, e) \in Nat
      BY <1>5, <1>7, <2>2
    <3> QED BY <3>1, <3>2
  <2> QED BY <2>1, <2>2
<1>9. \A e \in Days : e > d => g[e] = 0
  BY <1>4, <1>5
<1>10. ASSUME NEW x \in Days PROVE FitsOn(g, i, x)
  <2>1. CASE x < d
    <3>1. FitsOn(f, i, x) /\ SumUpTo(g, x) = SumUpTo(f, x)
      BY <1>8, <2>1 DEF Fits
    <3> QED BY <3>1 DEF FitsOn
  <2>2. CASE d <= x
    <3>1. SumUpTo(f, x) = SumUpTo(f, d)
      <4>1. f \in [Days -> Int] /\ \A e \in Days : d < e /\ e <= x => f[e] = 0
        BY <1>5
      <4> QED BY <2>2, <4>1, UpToFlat
    <3>2. PICK u \in Nat : u = SumUpTo(f, d)
      BY <1>7
    <3>3. SumUpTo(g, x) = u + q
      BY <1>4, <1>6, <2>2, <3>1, <3>2
    <3>4. PICK c \in Int, w \in Int : c = ShortBy(i, n, d) /\ w = ShortBy(i, a, d) /\ w = c + n - a
      <4>1. PICK m \in Nat, o \in Nat : m = SumUpTo(Gross(i), d) /\ o = SumUpTo(Expected(i), d)
        BY <1>2, ShortIsNumber
      <4>2. ShortBy(i, n, d) = s + m - n - o /\ ShortBy(i, a, d) = s + m - a - o
        BY <1>2, <4>1 DEF ShortBy
      <4> QED BY <4>2
    <3>5. p = s - c + u
      BY <1>1, <1>2, <3>2, <3>4
    <3>6. b + w > 0 /\ u + q <= b + w + k
      BY <1>1, <1>2, <1>3, <3>4, <3>5
    <3>7. d \in 0 .. x
      BY <1>5, <2>2
    <3> QED BY <1>2, <1>3, <3>3, <3>4, <3>6, <3>7 DEF FitsOn
  <2> QED BY <1>5, <2>1, <2>2
<1>11. Fits(g, i)
  BY <1>10 DEF Fits
<1> QED BY <1>3, <1>4, <1>8, <1>9, <1>11 DEF PlacedOn

(* s holds the orders and demands of r, and all of its exceptions. *)
Noted(r, s) ==
  /\ s \in RowsOfRun
  /\ s.ordered = r.ordered /\ s.netted = r.netted /\ s.sourced = r.sourced
  /\ s.dependent = r.dependent /\ s.requested = r.requested
  /\ \A j \in Items : r.reported[j] \subseteq s.reported[j]

(* The rows, field by field. *)
LEMMA FieldsOfRows ==
  ASSUME NEW r \in RowsOfRun
  PROVE  \E o, n, s, d, t, x :
           /\ r = [ordered |-> o, netted |-> n, sourced |-> s, dependent |-> d, requested |-> t,
                   reported |-> x]
           /\ o \in [Items -> [Days -> Nat]] /\ n \in [Items -> Nat] /\ s \in [Items -> Nat]
           /\ d \in [Items -> Nat] /\ t \in [Items -> Nat] /\ x \in [Items -> SUBSET Codes]
BY DEF RowsOfRun

(* Rows of such fields. *)
LEMMA RowsOfFields ==
  ASSUME NEW o \in [Items -> [Days -> Nat]], NEW n \in [Items -> Nat], NEW s \in [Items -> Nat],
         NEW d \in [Items -> Nat], NEW t \in [Items -> Nat], NEW x \in [Items -> SUBSET Codes]
  PROVE  [ordered |-> o, netted |-> n, sourced |-> s, dependent |-> d, requested |-> t,
          reported |-> x] \in RowsOfRun
BY DEF RowsOfRun

(* raise_exception adds an exception and nothing else. *)
LEMMA ReportNotes ==
  ASSUME NEW r \in RowsOfRun, NEW i \in Items, NEW c \in Codes
  PROVE  Noted(r, Report(r, i, c)) /\ c \in Report(r, i, c).reported[i]
         /\ Report(r, i, c) \in RowsOfRun
<1>1. PICK o, n, s, d, t, x :
        /\ r = [ordered |-> o, netted |-> n, sourced |-> s, dependent |-> d, requested |-> t,
                reported |-> x]
        /\ o \in [Items -> [Days -> Nat]] /\ n \in [Items -> Nat] /\ s \in [Items -> Nat]
        /\ d \in [Items -> Nat] /\ t \in [Items -> Nat] /\ x \in [Items -> SUBSET Codes]
  BY FieldsOfRows
<1> DEFINE y == [x EXCEPT ![i] = @ \cup {c}]
           u == [ordered |-> o, netted |-> n, sourced |-> s, dependent |-> d, requested |-> t,
                 reported |-> y]
<1>2. r = [ordered |-> o, netted |-> n, sourced |-> s, dependent |-> d, requested |-> t,
           reported |-> x]
  BY <1>1
<1>3. Report(r, i, c) = u
  BY ONLY <1>2, i \in Items DEF Report
<1>4. y \in [Items -> SUBSET Codes] /\ c \in y[i] /\ \A j \in Items : x[j] \subseteq y[j]
  BY <1>1
<1> HIDE DEF y
<1>5. u \in RowsOfRun
  BY <1>1, <1>4, RowsOfFields
<1>6. Noted(r, u) /\ c \in u.reported[i]
  BY <1>2, <1>4, <1>5 DEF Noted
<1> HIDE DEF u
<1> QED BY <1>3, <1>5, <1>6

(* A row that is written twice over. *)
LEMMA NotedTwice ==
  ASSUME NEW r, NEW s, NEW t, Noted(r, s), Noted(s, t)
  PROVE  Noted(r, t)
BY DEF Noted

(* Writing nothing notes nothing. *)
LEMMA NotedAtAll ==
  ASSUME NEW r \in RowsOfRun
  PROVE  Noted(r, r)
BY DEF Noted

(* Reporting what an item lacks to be made or sent changes no quantity. *)
LEMMA GapsNoted ==
  ASSUME NEW r \in RowsOfRun, NEW i \in Items
  PROVE  Noted(r, ReportGaps(r, i)) /\ ReportGaps(r, i) \in RowsOfRun
<1>1. "NO_BOM" \in Codes /\ "NO_SOURCE" \in Codes
  BY DEF Codes
<1>2. ReportGaps(r, i) \in {Report(r, i, "NO_BOM"), Report(r, i, "NO_SOURCE"), r}
  BY DEF ReportGaps
<1>3. Noted(r, Report(r, i, "NO_BOM")) /\ Noted(r, Report(r, i, "NO_SOURCE")) /\ Noted(r, r)
  BY <1>1, ReportNotes, NotedAtAll
<1>4. Noted(r, ReportGaps(r, i))
  BY <1>2, <1>3
<1> QED BY <1>4 DEF Noted

(* u has these orders, demands and exceptions. *)
HasFields(u, o, n, s, d, t, x) ==
  /\ u.ordered = o /\ u.netted = n /\ u.sourced = s
  /\ u.dependent = d /\ u.requested = t /\ u.reported = x

(* create_planned_order, for a component. *)
LEMMA NettedAdded ==
  ASSUME NEW r \in RowsOfRun, NEW i \in Items, NEW q \in Nat,
         NEW u, u = CreateOrder(r, "netted", i, q),
         NEW m, m = [r.netted EXCEPT ![i] = r.netted[i] + q]
  PROVE  u \in RowsOfRun /\ m \in [Items -> Nat]
         /\ HasFields(u, r.ordered, m, r.sourced, r.dependent, r.requested, r.reported)
<1>1. PICK o, n, s, d, t, x :
        /\ r = [ordered |-> o, netted |-> n, sourced |-> s, dependent |-> d, requested |-> t,
                reported |-> x]
        /\ o \in [Items -> [Days -> Nat]] /\ n \in [Items -> Nat] /\ s \in [Items -> Nat]
        /\ d \in [Items -> Nat] /\ t \in [Items -> Nat] /\ x \in [Items -> SUBSET Codes]
  BY FieldsOfRows
<1>2. r = [ordered |-> o, netted |-> n, sourced |-> s, dependent |-> d, requested |-> t,
           reported |-> x]
  BY <1>1
<1>3. u = [r EXCEPT !.netted[i] = @ + q]
  BY DEF CreateOrder
<1>4. m = [n EXCEPT ![i] = n[i] + q]
  BY <1>2
<1> DEFINE w == [ordered |-> o, netted |-> m, sourced |-> s, dependent |-> d,
                 requested |-> t, reported |-> x]
<1>5. u = w
  BY ONLY <1>2, <1>3, <1>4, i \in Items
<1>6. m \in [Items -> Nat]
  BY <1>1, <1>4
<1>7. w \in RowsOfRun
  BY <1>1, <1>6, RowsOfFields
<1>8. HasFields(w, r.ordered, m, r.sourced, r.dependent, r.requested, r.reported)
  BY <1>2 DEF HasFields
<1> HIDE DEF w
<1> QED BY <1>5, <1>6, <1>7, <1>8

(* create_planned_order, at the source of a transfer. *)
LEMMA SourcedAdded ==
  ASSUME NEW r \in RowsOfRun, NEW i \in Items, NEW q \in Nat,
         NEW u, u = CreateOrder(r, "sourced", i, q),
         NEW m, m = [r.sourced EXCEPT ![i] = r.sourced[i] + q]
  PROVE  u \in RowsOfRun /\ m \in [Items -> Nat]
         /\ HasFields(u, r.ordered, r.netted, m, r.dependent, r.requested, r.reported)
<1>1. PICK o, n, s, d, t, x :
        /\ r = [ordered |-> o, netted |-> n, sourced |-> s, dependent |-> d, requested |-> t,
                reported |-> x]
        /\ o \in [Items -> [Days -> Nat]] /\ n \in [Items -> Nat] /\ s \in [Items -> Nat]
        /\ d \in [Items -> Nat] /\ t \in [Items -> Nat] /\ x \in [Items -> SUBSET Codes]
  BY FieldsOfRows
<1>2. r = [ordered |-> o, netted |-> n, sourced |-> s, dependent |-> d, requested |-> t,
           reported |-> x]
  BY <1>1
<1>3. u = [r EXCEPT !.sourced[i] = @ + q]
  BY DEF CreateOrder
<1>4. m = [s EXCEPT ![i] = s[i] + q]
  BY <1>2
<1> DEFINE w == [ordered |-> o, netted |-> n, sourced |-> m, dependent |-> d,
                 requested |-> t, reported |-> x]
<1>5. u = w
  BY ONLY <1>2, <1>3, <1>4, i \in Items
<1>6. m \in [Items -> Nat]
  BY <1>1, <1>4
<1>7. w \in RowsOfRun
  BY <1>1, <1>6, RowsOfFields
<1>8. HasFields(w, r.ordered, r.netted, m, r.dependent, r.requested, r.reported)
  BY <1>2 DEF HasFields
<1> HIDE DEF w
<1> QED BY <1>5, <1>6, <1>7, <1>8

(* The demand of a component is written. *)
LEMMA DependentAdded ==
  ASSUME NEW r \in RowsOfRun, NEW i \in Items, NEW q \in Nat,
         NEW u, u = [r EXCEPT !.dependent[i] = @ + q],
         NEW m, m = [r.dependent EXCEPT ![i] = r.dependent[i] + q]
  PROVE  u \in RowsOfRun /\ m \in [Items -> Nat]
         /\ HasFields(u, r.ordered, r.netted, r.sourced, m, r.requested, r.reported)
<1>1. PICK o, n, s, d, t, x :
        /\ r = [ordered |-> o, netted |-> n, sourced |-> s, dependent |-> d, requested |-> t,
                reported |-> x]
        /\ o \in [Items -> [Days -> Nat]] /\ n \in [Items -> Nat] /\ s \in [Items -> Nat]
        /\ d \in [Items -> Nat] /\ t \in [Items -> Nat] /\ x \in [Items -> SUBSET Codes]
  BY FieldsOfRows
<1>2. r = [ordered |-> o, netted |-> n, sourced |-> s, dependent |-> d, requested |-> t,
           reported |-> x]
  BY <1>1
<1>3. u = [r EXCEPT !.dependent[i] = @ + q]
  OBVIOUS
<1>4. m = [d EXCEPT ![i] = d[i] + q]
  BY <1>2
<1> DEFINE w == [ordered |-> o, netted |-> n, sourced |-> s, dependent |-> m,
                 requested |-> t, reported |-> x]
<1>5. u = w
  BY ONLY <1>2, <1>3, <1>4, i \in Items
<1>6. m \in [Items -> Nat]
  BY <1>1, <1>4
<1>7. w \in RowsOfRun
  BY <1>1, <1>6, RowsOfFields
<1>8. HasFields(w, r.ordered, r.netted, r.sourced, m, r.requested, r.reported)
  BY <1>2 DEF HasFields
<1> HIDE DEF w
<1> QED BY <1>5, <1>6, <1>7, <1>8

(* The demand of a transfer is written. *)
LEMMA RequestedAdded ==
  ASSUME NEW r \in RowsOfRun, NEW i \in Items, NEW q \in Nat,
         NEW u, u = [r EXCEPT !.requested[i] = @ + q],
         NEW m, m = [r.requested EXCEPT ![i] = r.requested[i] + q]
  PROVE  u \in RowsOfRun /\ m \in [Items -> Nat]
         /\ HasFields(u, r.ordered, r.netted, r.sourced, r.dependent, m, r.reported)
<1>1. PICK o, n, s, d, t, x :
        /\ r = [ordered |-> o, netted |-> n, sourced |-> s, dependent |-> d, requested |-> t,
                reported |-> x]
        /\ o \in [Items -> [Days -> Nat]] /\ n \in [Items -> Nat] /\ s \in [Items -> Nat]
        /\ d \in [Items -> Nat] /\ t \in [Items -> Nat] /\ x \in [Items -> SUBSET Codes]
  BY FieldsOfRows
<1>2. r = [ordered |-> o, netted |-> n, sourced |-> s, dependent |-> d, requested |-> t,
           reported |-> x]
  BY <1>1
<1>3. u = [r EXCEPT !.requested[i] = @ + q]
  OBVIOUS
<1>4. m = [t EXCEPT ![i] = t[i] + q]
  BY <1>2
<1> DEFINE w == [ordered |-> o, netted |-> n, sourced |-> s, dependent |-> d,
                 requested |-> m, reported |-> x]
<1>5. u = w
  BY ONLY <1>2, <1>3, <1>4, i \in Items
<1>6. m \in [Items -> Nat]
  BY <1>1, <1>4
<1>7. w \in RowsOfRun
  BY <1>1, <1>6, RowsOfFields
<1>8. HasFields(w, r.ordered, r.netted, r.sourced, r.dependent, m, r.reported)
  BY <1>2 DEF HasFields
<1> HIDE DEF w
<1> QED BY <1>5, <1>6, <1>7, <1>8

(* An order of the walk is written. *)
LEMMA OrderedAdded ==
  ASSUME NEW r \in RowsOfRun, NEW i \in Items, NEW q \in Nat, NEW e \in Days,
         NEW u, u = [r EXCEPT !.ordered[i][e] = @ + q],
         NEW g, g = [r.ordered[i] EXCEPT ![e] = @ + q],
         NEW m, m = [r.ordered EXCEPT ![i] = g]
  PROVE  u \in RowsOfRun /\ r.ordered \in [Items -> [Days -> Nat]] /\ g \in [Days -> Nat]
         /\ HasFields(u, m, r.netted, r.sourced, r.dependent, r.requested, r.reported)
<1>1. PICK o, n, s, d, t, x :
        /\ r = [ordered |-> o, netted |-> n, sourced |-> s, dependent |-> d, requested |-> t,
                reported |-> x]
        /\ o \in [Items -> [Days -> Nat]] /\ n \in [Items -> Nat] /\ s \in [Items -> Nat]
        /\ d \in [Items -> Nat] /\ t \in [Items -> Nat] /\ x \in [Items -> SUBSET Codes]
  BY FieldsOfRows
<1>2. r = [ordered |-> o, netted |-> n, sourced |-> s, dependent |-> d, requested |-> t,
           reported |-> x]
  BY <1>1
<1>3. u = [r EXCEPT !.ordered[i][e] = @ + q]
  OBVIOUS
<1>4. g = [o[i] EXCEPT ![e] = o[i][e] + q] /\ m = [o EXCEPT ![i] = g]
  BY <1>2
<1> DEFINE w == [ordered |-> m, netted |-> n, sourced |-> s, dependent |-> d, requested |-> t,
                 reported |-> x]
<1>5. u = w
  BY ONLY <1>2, <1>3, <1>4, i \in Items, e \in Days
<1>6. g \in [Days -> Nat] /\ m \in [Items -> [Days -> Nat]]
  <2>1. PICK h \in [Days -> Nat] : h = o[i]
    BY <1>1
  <2>2. g = [h EXCEPT ![e] = h[e] + q] /\ h[e] + q \in Nat
    BY <1>4, <2>1
  <2>3. g \in [Days -> Nat]
    BY ONLY <2>2, h \in [Days -> Nat]
  <2> QED BY <1>1, <1>4, <2>3
<1>7. w \in RowsOfRun
  BY <1>1, <1>6, RowsOfFields
<1>8. HasFields(w, m, r.netted, r.sourced, r.dependent, r.requested, r.reported)
  BY <1>2 DEF HasFields
<1>9. r.ordered \in [Items -> [Days -> Nat]]
  BY <1>1, <1>2
<1> HIDE DEF w
<1> QED BY <1>5, <1>6, <1>7, <1>8, <1>9

(* The BOM that is exploded, and what its lines ask for. *)
LEMMA BomIsActive ==
  ASSUME NEW i \in Items
  PROVE  ActiveBom(i) \in BillOfMaterials
<1>1. NoBom \in BillOfMaterials
  BY DEF NoBom, BillOfMaterials
<1>2. Boms[i] \in Seq(BillOfMaterials)
  BY BomAssumption
<1> DEFINE active == {n \in DOMAIN Boms[i] : Boms[i][n].active}
           default == {n \in active : Boms[i][n].isDefault}
           some == IF default # {} THEN default ELSE active
<1>3. ASSUME active # {} PROVE ActiveBom(i) \in BillOfMaterials
  <2>1. some \in SUBSET DOMAIN Boms[i] /\ some # {}
    BY <1>3
  <2>2. DOMAIN Boms[i] \subseteq Nat
    BY <1>2
  <2>3. ActiveBom(i) = Boms[i][Min(some)]
    BY <1>3 DEF ActiveBom
  <2> HIDE DEF some
  <2>4. Min(some) \in some
    BY <2>1, <2>2, LeastOf
  <2> QED BY <1>2, <2>1, <2>3, <2>4
<1>4. ASSUME active = {} PROVE ActiveBom(i) = NoBom
  BY <1>4 DEF ActiveBom
<1> QED BY <1>1, <1>3, <1>4

(* The lines of a BOM are requirements (explode_and_plan). *)
LEMMA LinesAreRequirements ==
  ASSUME NEW i \in Items, NEW q \in Nat, NEW above \in SUBSET Items
  PROVE  LinesOf(i, q, above) \in Seq(Requirement)
<1>1. PICK b \in BillOfMaterials : b = ActiveBom(i)
  BY BomIsActive
<1>2. b.lines \in Seq(BomLine) /\ b.output \in Nat
  BY DEF BillOfMaterials
<1>3. PICK k \in Nat : DOMAIN b.lines = 1 .. k /\ \A n \in 1 .. k : b.lines[n] \in BomLine
  BY <1>2
<1>4. \A n \in 1 .. k : b.lines[n].component \in Items /\ RequiredQty(b.lines[n], b.output, q) \in Nat
  <2>1. \A l \in BomLine : l.component \in Items /\ RequiredQty(l, b.output, q) \in Nat
    BY <1>2, RequiredIsNumber DEF BomLine
  <2> QED BY <1>3, <2>1
<1>5. LinesOf(i, q, above) =
        [n \in 1 .. k |-> [kind |-> "component", item |-> b.lines[n].component, above |-> above,
                           qty |-> RequiredQty(b.lines[n], b.output, q)]]
  BY <1>1, <1>3 DEF LinesOf
<1>6. \A n \in 1 .. k : [kind |-> "component", item |-> b.lines[n].component, above |-> above,
                         qty |-> RequiredQty(b.lines[n], b.output, q)] \in Requirement
  BY <1>4 DEF Requirement
<1> QED BY <1>5, <1>6

(* So is what an order entails. *)
LEMMA EntailedIsAgenda ==
  ASSUME NEW i \in Items, NEW q \in Nat, NEW above \in SUBSET Items, NEW reached \in SUBSET Items
  PROVE  Entailed(i, q, above, reached) \in Seq(Requirement)
<1>1. LinesOf(i, q, above \cup {i}) \in Seq(Requirement)
  BY LinesAreRequirements
<1>2. ASSUME From[i] \notin {NoSource, i}
      PROVE  <<[kind |-> "request", item |-> From[i], qty |-> q, above |-> reached \cup {i}]>>
               \in Seq(Requirement)
  <2>1. From[i] \in Items
    BY <1>2, SourceAssumption
  <2>2. [kind |-> "request", item |-> From[i], qty |-> q, above |-> reached \cup {i}] \in Requirement
    BY <2>1 DEF Requirement
  <2> QED BY <2>2
<1>3. CASE item[i].source = "MAKE"
  BY <1>1, <1>3 DEF Entailed
<1>4. CASE item[i].source = "TRANSFER" /\ From[i] \notin {NoSource, i}
  BY <1>2, <1>4 DEF Entailed
<1>5. CASE item[i].source # "MAKE" /\ ~ (item[i].source = "TRANSFER" /\ From[i] \notin {NoSource, i})
  <2>1. Entailed(i, q, above, reached) = <<>>
    BY <1>5 DEF Entailed
  <2> QED BY <2>1
<1> QED BY <1>3, <1>4, <1>5

(* Nothing is written when the run begins, and nothing is planned. *)
LEMMA InitNettingTyped == InitNetting => NettingTyped
<1> SUFFICES ASSUME InitNetting PROVE NettingTyped
  OBVIOUS
<1>1. item \in [Items -> ItemSite]
  BY InputAssumption DEF InitNetting
<1>2. NoItems \in [Items -> Nat] /\ NoDemands \in [Items -> Nat]
      /\ NoOrders \in [Items -> [Days -> Nat]] /\ NoExceptions \in [Items -> SUBSET Codes]
  BY DEF NoItems, NoDemands, NoOrders, NoDays, NoExceptions
<1>3. NoRows \in RowsOfRun
  BY <1>2, RowsOfFields DEF NoRows
<1>4. sourceLeft \in [Items -> Nat]
  BY <1>1, SourceIsNumber DEF InitNetting
<1>5. agenda = <<>> /\ agenda \in Seq(Requirement)
  BY DEF InitNetting
<1> QED BY <1>1, <1>2, <1>3, <1>4, <1>5 DEF InitNetting, NettingTyped

(* A run starts with no orders, so they fit. *)
LEMMA InitSettled == InitNetting /\ NettingTyped => OrdersFollowWalks
<1> SUFFICES ASSUME InitNetting, NettingTyped, NEW i \in Items
             PROVE  /\ Fits(rows.ordered[i], i) /\ rows.ordered[i] = NoDays
                    /\ i \notin todo => item[i].source \notin Plannable
  BY DEF OrdersFollowWalks, Settled, Walked, InitNetting
<1>1. rows.ordered[i] = NoDays
  BY DEF InitNetting, NoRows, NoOrders
<1>2. \A d \in Days : SumUpTo(NoDays, d) = 0
  BY UpToZero
<1>3. Fits(NoDays, i)
  BY <1>2 DEF Fits, FitsOn
<1> QED BY <1>1, <1>3 DEF InitNetting

(* Nothing is drawn at the start. *)
LEMMA InitDrawn == InitNetting /\ NettingTyped => DrawsCover
<1> SUFFICES ASSUME InitNetting, NettingTyped, NEW i \in Items PROVE DrawnOnce(i)
  BY DEF DrawsCover
<1>1. item \in [Items -> ItemSite]
  BY DEF NettingTyped
<1>2. Supply(i) \in Nat /\ Nettable(i) \in Nat
  BY <1>1, SupplyIsNumber, NettableIsNumber
<1>3. consumed[i] = 0 /\ rows.dependent[i] = 0 /\ rows.netted[i] = 0 /\ rows.sourced[i] = 0
      /\ rows.requested[i] = 0 /\ sourceLeft[i] \in Nat /\ sourceLeft[i] <= Nettable(i)
  BY <1>1, SourceIsNumber DEF InitNetting, NoRows, NoItems, NoDemands
<1>4. i \notin asComponent /\ i \notin withSafety
  BY DEF InitNetting
<1> QED BY <1>2, <1>3, <1>4 DEF DrawnOnce

-----------------------------------------------------------------------------
(* The inputs stay, and what is computed from them. *)
LEMMA InputsStay ==
  ASSUME item' = item, NEW i \in Items, NEW f, NEW d
  PROVE  /\ Nettable(i)' = Nettable(i) /\ Supply(i)' = Supply(i) /\ Slack(i)' = Slack(i)
         /\ HasIndependentDemand(i)' = HasIndependentDemand(i)
         /\ Gross(i)' = Gross(i) /\ Expected(i)' = Expected(i)
         /\ Fits(f, i)' = Fits(f, i) /\ CoversOn(f, i, d)' = CoversOn(f, i, d)
BY DEF Nettable, Supply, Slack, HasIndependentDemand, Gross, Expected, Inbound, Fits, FitsOn,
       CoversOn, ShortBy, Remaining, SalesIn

(* While no profile leaves the main loop, orders stay settled. *)
LEMMA StaySettled ==
  ASSUME NEW r, Settled(r), item' = item, todo' = todo, asComponent \subseteq asComponent'
  PROVE  Settled(r)'
<1> SUFFICES ASSUME NEW i \in Items
             PROVE  /\ Fits(r.ordered[i], i)'
                    /\ i \in todo \/ item[i].source \notin Plannable => r.ordered[i] = NoDays
                    /\ i \notin todo /\ Walked(i)' /\ Clear(r, i) =>
                         \A d \in Days : CoversOn(r.ordered[i], i, d)'
  BY DEF Settled, Clear, NoDays, Days
<1>1. PICK f : f = r.ordered[i]
  OBVIOUS
<1>2. Fits(f, i)' = Fits(f, i) /\ \A d \in Days : CoversOn(f, i, d)' = CoversOn(f, i, d)
  BY InputsStay
<1>3. Walked(i)' => Walked(i)
  BY InputsStay DEF Walked
<1>4. /\ Fits(f, i)
      /\ i \in todo \/ item[i].source \notin Plannable => f = NoDays
      /\ i \notin todo /\ Walked(i) /\ Clear(r, i) => \A d \in Days : CoversOn(f, i, d)
  BY <1>1 DEF Settled
<1> QED BY <1>1, <1>2, <1>3, <1>4

(* When a profile k leaves the main loop, its orders must fit, and cover if it was walked;
   those of the others are as they were. *)
LEMMA LeavesSettled ==
  ASSUME NEW r, NEW s, Settled(r), item' = item, asComponent' = asComponent,
         NEW k \in todo, todo' = todo \ {k}, item[k].source \in Plannable,
         \A i \in Items \ {k} : s.ordered[i] = r.ordered[i] /\ r.reported[i] \subseteq s.reported[i],
         Fits(s.ordered[k], k),
         Walked(k) /\ Clear(s, k) => \A d \in Days : CoversOn(s.ordered[k], k, d)
  PROVE  Settled(s)'
<1> SUFFICES ASSUME NEW i \in Items
             PROVE  /\ Fits(s.ordered[i], i)'
                    /\ i \in todo' \/ item[i].source \notin Plannable => s.ordered[i] = NoDays
                    /\ i \notin todo' /\ Walked(i)' /\ Clear(s, i) =>
                         \A d \in Days : CoversOn(s.ordered[i], i, d)'
  BY DEF Settled, Clear, NoDays, Days
<1>1. PICK f : f = s.ordered[i]
  OBVIOUS
<1>2. Fits(f, i)' = Fits(f, i) /\ \A d \in Days : CoversOn(f, i, d)' = CoversOn(f, i, d)
  BY InputsStay
<1>3. Walked(i)' => Walked(i)
  BY InputsStay DEF Walked
<1>4. CASE i = k
  <2>1. Fits(f, i) /\ (Walked(i) /\ Clear(s, i) => \A d \in Days : CoversOn(f, i, d))
        /\ i \notin todo'
    BY <1>1, <1>4
  <2> QED BY <1>1, <1>2, <1>3, <1>4, <2>1
<1>5. CASE i # k
  <2>1. f = r.ordered[i] /\ (Clear(s, i) => Clear(r, i)) /\ (i \in todo' <=> i \in todo)
    BY <1>1, <1>5 DEF Clear
  <2>2. /\ Fits(f, i)
        /\ i \in todo \/ item[i].source \notin Plannable => f = NoDays
        /\ i \notin todo /\ Walked(i) /\ Clear(r, i) => \A d \in Days : CoversOn(f, i, d)
    BY <2>1 DEF Settled
  <2> QED BY <1>1, <1>2, <1>3, <2>1, <2>2
<1> QED BY <1>4, <1>5

(* The sum over the first day alone. *)
LEMMA UpToFirst ==
  ASSUME NEW f \in [Days -> Int]
  PROVE  SumUpTo(f, 0) = f[0]
<1> DEFINE s == 0 .. 0
           g == [e \in s |-> f[e]]
<1>1. 0 \in Days
  BY DayAssumption DEF Days
<1>2. IsFiniteSet(s) /\ s \subseteq Days
  BY <1>1, DaysUpTo
<1>3. g \in [s -> Int] /\ 0 \in s /\ g[0] = f[0] /\ \A x \in s \ {0} : g[x] = 0
  BY <1>2
<1>4. SumUpTo(f, 0) = SumFunction(g)
  BY DEF SumUpTo
<1> HIDE DEF s, g
<1>5. SumFunction(g) = g[0]
  BY ONLY <1>2, <1>3, SumPoint
<1> QED BY <1>3, <1>4, <1>5

(* A walk, field by field. *)
LEMMA FieldsOfWalk ==
  ASSUME NettingTyped, walk # NoWalk
  PROVE  \E i \in todo, d \in Days, p \in Int, n \in 0 .. MaxOrders :
           /\ walk = [item |-> i, day |-> d, projected |-> p, guard |-> n]
           /\ i \in Items /\ item[i].source \in Plannable
<1>1. walk \in Walk /\ walk.item \in todo
  BY DEF NettingTyped
<1>2. walk = [item |-> walk.item, day |-> walk.day, projected |-> walk.projected,
              guard |-> walk.guard]
      /\ walk.day \in Days /\ walk.projected \in Int /\ walk.guard \in 0 .. MaxOrders
  BY <1>1 DEF Walk
<1>3. walk.item \in Items /\ item[walk.item].source \in Plannable
  BY <1>1 DEF NettingTyped
<1> QED BY <1>1, <1>2, <1>3

(* A walk is its fields. *)
LEMMA WalkOfFields ==
  ASSUME NEW i \in Items, NEW d \in Days, NEW p \in Int, NEW n \in 0 .. MaxOrders
  PROVE  /\ [item |-> i, day |-> d, projected |-> p, guard |-> n] \in Walk
         /\ [item |-> i, day |-> d, projected |-> p, guard |-> n] # NoWalk
<1>1. [item |-> i, day |-> d, projected |-> p, guard |-> n] \in Walk
  BY DEF Walk
<1> QED BY <1>1, WalkAssumption

(* What a day adds is its receipts less its demand. *)
LEMMA ChangeIsNumber ==
  ASSUME item \in [Items -> ItemSite], NEW i \in Items, NEW d \in Days
  PROVE  Change(i, d) \in Int /\ Change(i, d) = Expected(i)[d] - Gross(i)[d]
<1>1. Expected(i)[d] \in Nat /\ Gross(i)[d] \in Nat
  BY ExpectedIsNumber, GrossIsNumber
<1> QED BY <1>1 DEF Change

(* Steps that draw nothing leave what is drawn covered; of exceptions there may be more. *)
LEMMA DrawsStay ==
  ASSUME DrawsCover, item' = item, UNCHANGED caches, failures' = 0 => failures = 0,
         /\ rows'.netted = rows.netted /\ rows'.sourced = rows.sourced
         /\ rows'.dependent = rows.dependent /\ rows'.requested = rows.requested
         /\ \A j \in Items : rows.reported[j] \subseteq rows'.reported[j]
  PROVE  DrawsCover'
<1> SUFFICES ASSUME failures = 0, NEW i \in Items PROVE DrawnOnce(i)'
  BY DEF DrawsCover
<1>1. DrawnOnce(i)
  BY DEF DrawsCover
<1>2. Clear(rows, i)' => Clear(rows, i)
  BY DEF Clear
<1>3. Supply(i)' = Supply(i) /\ Nettable(i)' = Nettable(i)
  BY InputsStay
<1> QED BY <1>1, <1>2, <1>3 DEF DrawnOnce, caches

-----------------------------------------------------------------------------
(* An item already planned as a component is passed over. *)
LEMMA SkipStep ==
  ASSUME NettingTyped, OrdersFollowWalks, DrawsCover, NEW k \in Items, Skip(k)
  PROVE  NettingTyped' /\ OrdersFollowWalks' /\ DrawsCover'
<1>1. /\ walk = NoWalk /\ k \in todo /\ k \in asComponent /\ ~ HasIndependentDemand(k)
      /\ todo' = todo \ {k} /\ item' = item /\ walk' = walk /\ agenda' = agenda /\ rows' = rows
      /\ saved' = saved /\ UNCHANGED caches /\ asComponent' = asComponent /\ failures' = failures
  BY DEF Skip, NextUp, caches
<1>2. NettingTyped'
  BY <1>1 DEF NettingTyped, caches
<1>3. PICK r : r = rows /\ Settled(r)
  BY <1>1 DEF OrdersFollowWalks
<1>4. Settled(r)'
  <2>1. ~ Walked(k)
    BY <1>1 DEF Walked
  <2>2. item[k].source \in Plannable
    BY <1>1 DEF NettingTyped
  <2>3. Fits(r.ordered[k], k)
    BY <1>3 DEF Settled
  <2> QED BY <1>1, <1>3, <2>1, <2>2, <2>3, LeavesSettled
<1>5. OrdersFollowWalks'
  <2>1. Settled(rows)'
    BY <1>1, <1>3, <1>4 DEF Settled, Clear, Fits, FitsOn, CoversOn, ShortBy, Slack
  <2> QED BY <1>1, <2>1 DEF OrdersFollowWalks
<1>6. DrawsCover'
  BY <1>1, DrawsStay
<1> QED BY <1>2, <1>5, <1>6

(* The walk of a profile begins with the first day. *)
LEMMA StartProfileStep ==
  ASSUME NettingTyped, OrdersFollowWalks, DrawsCover, NEW k \in Items, StartProfile(k)
  PROVE  NettingTyped' /\ OrdersFollowWalks' /\ DrawsCover'
<1>0. item \in [Items -> ItemSite] /\ 0 \in Days
  BY DayAssumption DEF NettingTyped, Days
<1>1. PICK p \in Int : p = Nettable(k) + Change(k, 0)
  BY <1>0, NettableIsNumber, ChangeIsNumber
<1>2. PICK w : w = [item |-> k, day |-> 0, projected |-> p, guard |-> 0]
  OBVIOUS
<1>3. w \in Walk /\ w # NoWalk /\ 0 # MaxOrders
  BY <1>0, <1>2, RunAssumption, WalkOfFields
<1>4. /\ walk = NoWalk /\ k \in todo /\ walk' = w /\ saved' = rows
      /\ todo' = todo /\ item' = item /\ agenda' = agenda /\ rows' = rows
      /\ UNCHANGED caches /\ asComponent' = asComponent /\ failures' = failures
  BY <1>1, <1>2 DEF StartProfile, NextUp, caches
<1>5. w.item = k /\ w.day = 0 /\ w.projected = p /\ w.guard = 0
  BY <1>2
<1>6. NettingTyped'
  BY <1>3, <1>4, <1>5 DEF NettingTyped, caches
<1>7. PICK r : r = rows /\ Settled(r) /\ r.ordered[k] = NoDays
  BY <1>4 DEF OrdersFollowWalks, Settled
<1>8. Settled(r)'
  BY <1>4, <1>7, StaySettled
<1>9. p = item[k].safety - ShortBy(k, Nettable(k), 0) + SumUpTo(NoDays, 0)
  <2>1. PICK G \in [Days -> Nat], X \in [Days -> Nat], n \in Nat, s \in Nat :
          G = Gross(k) /\ X = Expected(k) /\ n = Nettable(k) /\ s = item[k].safety
    BY <1>0, GrossIsNumber, ExpectedIsNumber, NettableIsNumber, ItemNumbers
  <2>2. G \in [Days -> Int] /\ X \in [Days -> Int] /\ G[0] \in Nat /\ X[0] \in Nat
    BY <1>0
  <2>3. SumUpTo(G, 0) = G[0] /\ SumUpTo(X, 0) = X[0] /\ SumUpTo(NoDays, 0) = 0
    BY <1>0, <2>2, UpToFirst, UpToZero
  <2>4. ShortBy(k, n, 0) = s + G[0] - n - X[0]
    BY <2>1, <2>3 DEF ShortBy
  <2>5. p = n + (X[0] - G[0])
    BY <1>0, <1>1, <2>1, ChangeIsNumber
  <2> QED BY <2>1, <2>2, <2>3, <2>4, <2>5
<1>10. Walking'
  <2>1. Fits(NoDays, k)
    BY <1>7 DEF Settled
  <2>2. (\A e \in Days : e > 0 => NoDays[e] = 0) /\ ~ \E e \in Days : e < 0
    BY DayAssumption DEF NoDays, Days
  <2>3. Nettable(k)' = Nettable(k) /\ (Fits(NoDays, k))' = Fits(NoDays, k)
    BY <1>4, InputsStay
  <2>4. ShortBy(k, Nettable(k), 0)' = ShortBy(k, Nettable(k), 0)
    BY <1>4, InputsStay DEF ShortBy
  <2>5. rows'.ordered[walk'.item] = NoDays /\ saved' = rows'
    BY <1>4, <1>5, <1>7
  <2> QED BY <1>3, <1>4, <1>5, <1>9, <2>1, <2>2, <2>3, <2>4, <2>5 DEF Walking
<1>11. OrdersFollowWalks'
  <2>1. Settled(saved)'
    BY <1>4, <1>7, <1>8 DEF Settled, Clear, Fits, FitsOn, CoversOn, ShortBy, Slack
  <2> QED BY <1>3, <1>4, <1>10, <2>1 DEF OrdersFollowWalks
<1>12. DrawsCover'
  BY <1>4, DrawsStay
<1> QED BY <1>6, <1>11, <1>12

(* The walk of an item, in numbers. *)
WalkIs(i, d, p, n, f, r, s) ==
  /\ walk = [item |-> i, day |-> d, projected |-> p, guard |-> n]
  /\ rows = r /\ saved = s /\ r.ordered[i] = f
  /\ i \in todo /\ i \in Items /\ item[i].source \in Plannable
  /\ Settled(s) /\ Fits(f, i)
  /\ \A e \in Days : e > d => f[e] = 0
  /\ p = item[i].safety - ShortBy(i, Nettable(i), d) + SumUpTo(f, d)
  /\ n = MaxOrders => "TOO_SMALL" \in r.reported[i]
  /\ Clear(r, i) => \A e \in Days : e < d => CoversOn(f, i, e)
  /\ \A j \in Items \ {i} : r.ordered[j] = s.ordered[j] /\ s.reported[j] \subseteq r.reported[j]

(* The invariant of a walk gives its numbers ... *)
LEMMA WalkInNumbers ==
  ASSUME NettingTyped, OrdersFollowWalks, walk # NoWalk
  PROVE  \E i \in Items, d \in Days, p \in Int, n \in 0 .. MaxOrders, f \in [Days -> Nat],
            r \in RowsOfRun, s \in RowsOfRun : WalkIs(i, d, p, n, f, r, s)
<1>1. PICK i \in todo, d \in Days, p \in Int, n \in 0 .. MaxOrders :
        /\ walk = [item |-> i, day |-> d, projected |-> p, guard |-> n]
        /\ i \in Items /\ item[i].source \in Plannable
  BY FieldsOfWalk
<1>2. PICK r \in RowsOfRun, s \in RowsOfRun : rows = r /\ saved = s
  BY DEF NettingTyped
<1>3. PICK f \in [Days -> Nat] : f = r.ordered[i]
  BY <1>1 DEF RowsOfRun
<1>4. walk.item = i /\ walk.day = d /\ walk.projected = p /\ walk.guard = n
  BY <1>1
<1>5. Settled(s) /\ Walking
  BY <1>2 DEF OrdersFollowWalks
<1>6. WalkIs(i, d, p, n, f, r, s)
  BY <1>1, <1>2, <1>3, <1>4, <1>5 DEF WalkIs, Walking
<1> QED BY <1>1, <1>6

(* ... and its numbers give the invariant. *)
LEMMA NumbersOfWalk ==
  ASSUME NEW i \in Items, NEW d \in Days, NEW p \in Int, NEW n \in 0 .. MaxOrders, NEW f,
         NEW r, NEW s, WalkIs(i, d, p, n, f, r, s)
  PROVE  OrdersFollowWalks
<1>1. walk # NoWalk /\ walk.item = i /\ walk.day = d /\ walk.projected = p /\ walk.guard = n
  BY WalkOfFields DEF WalkIs
<1>2. Walking
  BY <1>1 DEF WalkIs, Walking
<1> QED BY <1>1, <1>2 DEF WalkIs, OrdersFollowWalks

(* The walk after a step, in numbers of before it. *)
LEMMA WalkStays ==
  ASSUME NettingTyped, item' = item, todo' = todo, asComponent \subseteq asComponent',
         NEW i \in Items, NEW d \in Days, NEW p \in Int, NEW n \in 0 .. MaxOrders, NEW f,
         NEW r, NEW s,
         walk' = [item |-> i, day |-> d, projected |-> p, guard |-> n],
         rows' = r, saved' = s, r.ordered[i] = f,
         i \in todo, item[i].source \in Plannable, Settled(s), Fits(f, i),
         \A e \in Days : e > d => f[e] = 0,
         p = item[i].safety - ShortBy(i, Nettable(i), d) + SumUpTo(f, d),
         n = MaxOrders => "TOO_SMALL" \in r.reported[i],
         Clear(r, i) => \A e \in Days : e < d => CoversOn(f, i, e),
         \A j \in Items \ {i} : r.ordered[j] = s.ordered[j] /\ s.reported[j] \subseteq r.reported[j]
  PROVE  OrdersFollowWalks'
<1>1. Settled(s)'
  BY StaySettled
<1>2. Fits(f, i)' /\ \A e \in Days : CoversOn(f, i, e)' = CoversOn(f, i, e)
  BY InputsStay
<1>3. ShortBy(i, Nettable(i), d)' = ShortBy(i, Nettable(i), d)
  BY InputsStay DEF ShortBy
<1>4. /\ walk' # NoWalk /\ walk'.item = i /\ walk'.day = d /\ walk'.projected = p
      /\ walk'.guard = n
  BY WalkOfFields
<1>5. Walking'
  BY <1>2, <1>3, <1>4 DEF Walking, Clear
<1>6. Settled(saved)'
  BY <1>1 DEF Settled, Clear, Fits, FitsOn, CoversOn, ShortBy, Slack
<1> QED BY <1>4, <1>5, <1>6 DEF OrdersFollowWalks

(* An order of the walk. *)
LEMMA PlaceOrderStep ==
  ASSUME NettingTyped, OrdersFollowWalks, DrawsCover, PlaceOrder
  PROVE  NettingTyped' /\ OrdersFollowWalks' /\ DrawsCover'
<1>0. item \in [Items -> ItemSite] /\ walk # NoWalk
  BY DEF NettingTyped, PlaceOrder
<1>1. PICK i \in Items, d \in Days, p \in Int, n \in 0 .. MaxOrders, f \in [Days -> Nat],
           r \in RowsOfRun, s \in RowsOfRun : WalkIs(i, d, p, n, f, r, s)
  BY <1>0, WalkInNumbers
<1>2. walk.item = i /\ walk.day = d /\ walk.projected = p /\ walk.guard = n
  BY <1>1 DEF WalkIs
<1>3. p < item[i].safety /\ n < MaxOrders /\ n + 1 \in 0 .. MaxOrders
  BY <1>2, RunAssumption DEF PlaceOrder, IsShort
<1>4. PICK q : q = SizeOrder(item[i].rules, item[i].safety - p)
  OBVIOUS
<1>5. PICK g : g = [f EXCEPT ![d] = @ + q]
  OBVIOUS
<1>6. /\ q \in Nat \ {0} /\ g \in [Days -> Nat] /\ Fits(g, i)
      /\ \A e \in Days : e > d => g[e] = 0
      /\ SumUpTo(g, d) = SumUpTo(f, d) + q
      /\ \A e \in Days : e < d => SumUpTo(g, e) = SumUpTo(f, e)
  <2>1. Fits(f, i) /\ (\A e \in Days : e > d => f[e] = 0)
        /\ p = item[i].safety - ShortBy(i, Nettable(i), d) + SumUpTo(f, d)
    BY <1>1 DEF WalkIs
  <2>2. p < item[i].safety
    BY <1>3
  <2>3. PlacedOn(i, d, f, q, g)
    BY <1>0, <2>1, <2>2, <1>4, <1>5, OrderFits
  <2> QED BY <2>3 DEF PlacedOn
<1>7. PICK u : u = [r EXCEPT !.ordered[i][d] = @ + q]
  OBVIOUS
<1>8. /\ u \in RowsOfRun /\ r.ordered \in [Items -> [Days -> Nat]]
      /\ HasFields(u, [r.ordered EXCEPT ![i] = g], r.netted, r.sourced, r.dependent, r.requested,
                   r.reported)
  <2>1. r.ordered[i] = f
    BY <1>1 DEF WalkIs
  <2> QED BY <1>5, <1>6, <1>7, <2>1, OrderedAdded
<1>9. PICK v : v = ReportGaps(u, i) /\ Noted(u, v) /\ v \in RowsOfRun
  BY <1>8, GapsNoted
<1>10. PICK t : /\ t = (IF n + 1 = MaxOrders THEN Report(v, i, "TOO_SMALL") ELSE v)
                /\ Noted(v, t) /\ t \in RowsOfRun
                /\ n + 1 = MaxOrders => "TOO_SMALL" \in t.reported[i]
  <2>1. "TOO_SMALL" \in Codes
    BY DEF Codes
  <2> QED BY <1>9, <2>1, ReportNotes, NotedAtAll
<1>11. /\ t.ordered = [r.ordered EXCEPT ![i] = g] /\ t.netted = r.netted /\ t.sourced = r.sourced
       /\ t.dependent = r.dependent /\ t.requested = r.requested
       /\ \A j \in Items : r.reported[j] \subseteq t.reported[j]
  BY <1>8, <1>9, <1>10 DEF Noted, HasFields
<1>12. PICK w : w = [item |-> i, day |-> d, projected |-> p + q, guard |-> n + 1]
  OBVIOUS
<1>13. /\ walk' = w /\ rows' = t /\ agenda' = Entailed(i, q, {}, {}) /\ rows = r
       /\ item' = item /\ todo' = todo /\ saved' = saved /\ saved = s /\ UNCHANGED caches
       /\ asComponent' = asComponent /\ failures' = failures
  <2>1. walk' = [walk EXCEPT !.projected = @ + q, !.guard = @ + 1]
    BY <1>2, <1>4 DEF PlaceOrder
  <2>2. walk = [item |-> i, day |-> d, projected |-> p, guard |-> n] /\ rows = r /\ saved = s
    BY <1>1 DEF WalkIs
  <2>3. walk' = w
    <3>1. PICK before, after : before = walk /\ after = walk'
      OBVIOUS
    <3>2. before = [item |-> i, day |-> d, projected |-> p, guard |-> n]
      BY <2>2, <3>1
    <3>3. after = [before EXCEPT !.projected = @ + q, !.guard = @ + 1]
      BY ONLY <2>1, <3>1
    <3>4. p \in Int /\ n \in Int /\ q \in Int
      BY <1>6, RunAssumption
    <3>5. after = [item |-> i, day |-> d, projected |-> p + q, guard |-> n + 1]
      BY <3>2, <3>3, <3>4
    <3> QED BY <1>12, <3>1, <3>5
  <2>4. rows' = t /\ agenda' = Entailed(i, q, {}, {})
    BY <1>2, <1>4, <1>7, <1>9, <1>10, <2>2 DEF PlaceOrder
  <2> QED BY <2>2, <2>3, <2>4 DEF PlaceOrder, caches
<1>14. w \in Walk /\ w # NoWalk /\ w.item = i /\ i \in todo
  BY <1>1, <1>3, <1>6, <1>12, WalkOfFields DEF WalkIs
<1>15. NettingTyped'
  <2>1. Entailed(i, q, {}, {}) \in Seq(Requirement)
    BY <1>6, EntailedIsAgenda
  <2> QED BY <1>10, <1>13, <1>14, <2>1 DEF NettingTyped, caches
<1>16. OrdersFollowWalks'
  <2>1. t.ordered[i] = g /\ \A j \in Items \ {i} : t.ordered[j] = r.ordered[j]
    BY <1>8, <1>11
  <2>2. p + q = item[i].safety - ShortBy(i, Nettable(i), d) + SumUpTo(g, d)
    <3>1. PICK c \in Int : c = ShortBy(i, Nettable(i), d)
      BY <1>0, NettableIsNumber, ShortIsNumber
    <3>2. PICK z \in Nat : z = SumUpTo(f, d)
      BY UpToTyped
    <3>3. p = item[i].safety - c + z /\ item[i].safety \in Nat
      BY <1>0, <1>1, <3>1, <3>2, ItemNumbers DEF WalkIs
    <3> QED BY <1>6, <3>1, <3>2, <3>3
  <2>3. Clear(t, i) => \A e \in Days : e < d => CoversOn(g, i, e)
    <3>1. Clear(t, i) => Clear(r, i)
      BY <1>11 DEF Clear
    <3>2. Clear(r, i) => \A e \in Days : e < d => CoversOn(f, i, e)
      BY <1>1 DEF WalkIs
    <3> QED BY <1>6, <3>1, <3>2 DEF CoversOn
  <2>4. \A j \in Items \ {i} : t.ordered[j] = s.ordered[j] /\ s.reported[j] \subseteq t.reported[j]
    BY <1>1, <1>11, <2>1 DEF WalkIs
  <2>5. i \in todo /\ item[i].source \in Plannable /\ Settled(s)
    BY <1>1 DEF WalkIs
  <2>6. p + q \in Int
    BY <1>6
  <2> QED BY <1>3, <1>6, <1>10, <1>12, <1>13, <2>1, <2>2, <2>3, <2>4, <2>5, <2>6, WalkStays
<1>17. DrawsCover'
  BY <1>11, <1>13, DrawsStay
<1> QED BY <1>15, <1>16, <1>17

(* When the walk is done with a day, the day is covered, or the planner is told that the
   orders of one day ran out. *)
LEMMA DayCovered ==
  ASSUME NettingTyped, DayIsDone, NEW i \in Items, NEW d \in Days, NEW p \in Int,
         NEW n \in 0 .. MaxOrders, NEW f \in [Days -> Nat], NEW r, NEW s,
         WalkIs(i, d, p, n, f, r, s), Clear(r, i), NEW x \in Days,
         \A e \in Days : d < e /\ e <= x => e \notin EventDays(i)
  PROVE  CoversOn(f, i, x)
<1>0. item \in [Items -> ItemSite] /\ d \in Nat /\ x \in Nat
  BY DaysUpTo DEF NettingTyped
<1>1. walk.item = i /\ walk.projected = p /\ walk.guard = n
  BY DEF WalkIs
<1>2. n # MaxOrders
  BY DEF WalkIs, Clear
<1>3. p >= item[i].safety
  <2>1. ~ (n >= MaxOrders)
    BY <1>2, RunAssumption
  <2>2. item[i].safety \in Nat
    BY <1>0, ItemNumbers
  <2> QED BY <1>1, <2>1, <2>2 DEF DayIsDone, IsShort
<1>4. CoversOn(f, i, d)
  <2>1. PICK c \in Int : c = ShortBy(i, Nettable(i), d)
    BY <1>0, NettableIsNumber, ShortIsNumber
  <2>2. PICK z \in Nat : z = SumUpTo(f, d)
    BY UpToTyped
  <2>3. p = item[i].safety - c + z /\ item[i].safety \in Nat
    BY <1>0, <2>1, <2>2, ItemNumbers DEF WalkIs
  <2>4. z >= c
    BY <1>3, <2>3
  <2> QED BY <2>1, <2>2, <2>4 DEF CoversOn
<1>5. CASE x < d
  BY <1>5 DEF WalkIs
<1>6. CASE d <= x
  <2>1. \A e \in Days : e > d => f[e] = 0
    BY DEF WalkIs
  <2> QED BY <1>0, <1>4, <1>6, <2>1, CoversFlat
<1> QED BY <1>0, <1>5, <1>6

(* A day left behind is covered, or the planner was told that the orders are too small;
   the next event changes the balance by what it brings and takes. *)
LEMMA NextDayStep ==
  ASSUME NettingTyped, OrdersFollowWalks, DrawsCover, NextDay
  PROVE  NettingTyped' /\ OrdersFollowWalks' /\ DrawsCover'
<1>0. item \in [Items -> ItemSite] /\ walk # NoWalk /\ DayIsDone
  BY DEF NettingTyped, NextDay, DayIsDone
<1>1. PICK i \in Items, d \in Days, p \in Int, n \in 0 .. MaxOrders, f \in [Days -> Nat],
           r \in RowsOfRun, s \in RowsOfRun : WalkIs(i, d, p, n, f, r, s)
  BY <1>0, WalkInNumbers
<1>2. walk.item = i /\ walk.day = d
  BY <1>1 DEF WalkIs
<1>3. \A e \in Days : e \in Nat
  BY DaysUpTo
<1>4. PICK x : x = Min(LaterEvents)
  OBVIOUS
<1>5. x \in Days /\ d < x /\ x \in EventDays(i)
      /\ \A e \in Days : d < e /\ e < x => e \notin EventDays(i)
  <2>1. LaterEvents = {e \in EventDays(i) : e > d} /\ LaterEvents # {}
    BY <1>2 DEF LaterEvents, NextDay
  <2>2. EventDays(i) \in SUBSET Days
    BY <1>0, Eventless
  <2>3. LaterEvents \in SUBSET Nat
    BY <1>3, <2>1, <2>2
  <2>4. x \in LaterEvents /\ \A m \in LaterEvents : x <= m
    BY <1>4, <2>1, <2>3, LeastOf
  <2> QED BY <1>3, <2>1, <2>2, <2>4
<1>6. PICK c \in Int : c = Change(i, x) /\ c = Expected(i)[x] - Gross(i)[x]
  BY <1>0, <1>5, ChangeIsNumber
<1>7. PICK w : w = [item |-> i, day |-> x, projected |-> p + c, guard |-> 0]
  OBVIOUS
<1>8. /\ walk' = w /\ rows' = r /\ saved' = s /\ rows = r
      /\ item' = item /\ todo' = todo /\ agenda' = agenda /\ saved' = saved /\ rows' = rows
      /\ UNCHANGED caches /\ asComponent' = asComponent /\ failures' = failures
  <2>1. walk' = [walk EXCEPT !.day = x, !.guard = 0, !.projected = @ + c]
    BY <1>2, <1>4, <1>6 DEF NextDay
  <2>2. walk = [item |-> i, day |-> d, projected |-> p, guard |-> n] /\ rows = r /\ saved = s
    BY <1>1 DEF WalkIs
  <2>3. walk' = w
    <3>1. PICK before, after : before = walk /\ after = walk'
      OBVIOUS
    <3>2. before = [item |-> i, day |-> d, projected |-> p, guard |-> n]
      BY <2>2, <3>1
    <3>3. after = [before EXCEPT !.day = x, !.guard = 0, !.projected = @ + c]
      BY ONLY <2>1, <3>1
    <3>4. p \in Int /\ c \in Int
      OBVIOUS
    <3>5. after = [item |-> i, day |-> x, projected |-> p + c, guard |-> 0]
      BY <3>2, <3>3, <3>4
    <3> QED BY <1>7, <3>1, <3>5
  <2> QED BY <2>2, <2>3 DEF NextDay, caches
<1>9. 0 \in 0 .. MaxOrders /\ 0 # MaxOrders /\ p + c \in Int
  BY RunAssumption
<1>10. w \in Walk /\ w # NoWalk /\ w.item = i /\ i \in todo
  BY <1>1, <1>5, <1>7, <1>9, WalkOfFields DEF WalkIs
<1>11. NettingTyped'
  BY <1>8, <1>10 DEF NettingTyped, caches
<1>12. OrdersFollowWalks'
  <2>1. /\ r.ordered[i] = f /\ i \in todo /\ item[i].source \in Plannable /\ Settled(s)
        /\ Fits(f, i)
        /\ \A j \in Items \ {i} : r.ordered[j] = s.ordered[j] /\ s.reported[j] \subseteq r.reported[j]
    BY <1>1 DEF WalkIs
  <2>2. \A e \in Days : e > x => f[e] = 0
    BY <1>1, <1>3, <1>5 DEF WalkIs
  <2>3. p + c = item[i].safety - ShortBy(i, Nettable(i), x) + SumUpTo(f, x)
    <3>1. PICK h \in Int, y \in Int : h = ShortBy(i, Nettable(i), d) /\ y = ShortBy(i, Nettable(i), x)
      BY <1>0, <1>5, NettableIsNumber, ShortIsNumber
    <3>2. PICK z \in Nat : z = SumUpTo(f, d)
      BY UpToTyped
    <3>3. SumUpTo(f, x) = z
      <4>1. f \in [Days -> Int] /\ \A e \in Days : d < e /\ e <= x => f[e] = 0
        BY <1>1, <1>3 DEF WalkIs
      <4> QED BY <1>3, <1>5, <3>2, <4>1, UpToFlat
    <3>4. p = item[i].safety - h + z /\ item[i].safety \in Nat
      BY <1>0, <1>1, <3>1, <3>2, ItemNumbers DEF WalkIs
    <3>5. y = h + Gross(i)[x] - Expected(i)[x]
      <4>1. Nettable(i) \in Int
        BY <1>0, NettableIsNumber
      <4> QED BY <1>0, <1>5, <3>1, <4>1, ShortLater
    <3>6. Gross(i)[x] \in Nat /\ Expected(i)[x] \in Nat
      BY <1>0, <1>5, GrossIsNumber, ExpectedIsNumber
    <3> QED BY <1>6, <3>1, <3>3, <3>4, <3>5, <3>6
  <2>4. Clear(r, i) => \A e \in Days : e < x => CoversOn(f, i, e)
    <3> SUFFICES ASSUME Clear(r, i), NEW e \in Days, e < x PROVE CoversOn(f, i, e)
      OBVIOUS
    <3>1. \A a \in Days : d < a /\ a <= e => a \notin EventDays(i)
      BY <1>3, <1>5
    <3> QED BY <1>0, <1>1, <3>1, DayCovered
  <2> QED BY <1>5, <1>7, <1>8, <1>9, <2>1, <2>2, <2>3, <2>4, WalkStays
<1>13. DrawsCover'
  BY <1>8, DrawsStay
<1> QED BY <1>11, <1>12, <1>13

(* With no event left, the day the walk stands on covers all later ones. *)
LEMMA FinishProfileStep ==
  ASSUME NettingTyped, OrdersFollowWalks, DrawsCover, FinishProfile
  PROVE  NettingTyped' /\ OrdersFollowWalks' /\ DrawsCover'
<1>0. item \in [Items -> ItemSite] /\ walk # NoWalk /\ DayIsDone
  BY DEF NettingTyped, FinishProfile, DayIsDone
<1>1. PICK i \in Items, d \in Days, p \in Int, n \in 0 .. MaxOrders, f \in [Days -> Nat],
           r \in RowsOfRun, s \in RowsOfRun : WalkIs(i, d, p, n, f, r, s)
  BY <1>0, WalkInNumbers
<1>2. /\ walk.item = i /\ walk.day = d /\ rows = r /\ saved = s /\ r.ordered[i] = f
      /\ i \in todo /\ item[i].source \in Plannable /\ Settled(s) /\ Fits(f, i)
      /\ \A j \in Items \ {i} : r.ordered[j] = s.ordered[j] /\ s.reported[j] \subseteq r.reported[j]
  BY <1>1 DEF WalkIs
<1>3. PICK t : t = rows' /\ Noted(r, t) /\ t \in RowsOfRun
  <2>1. "UNPEGGED" \in Codes
    BY DEF Codes
  <2>2. Noted(r, Report(r, i, "UNPEGGED")) /\ Report(r, i, "UNPEGGED") \in RowsOfRun /\ Noted(r, r)
    BY <2>1, ReportNotes, NotedAtAll
  <2>3. rows' \in {Report(r, i, "UNPEGGED"), r}
    BY <1>2 DEF FinishProfile
  <2> QED BY <2>2, <2>3
<1>4. /\ walk' = NoWalk /\ todo' = todo \ {i} /\ item' = item /\ agenda' = agenda
      /\ agenda = <<>> /\ saved' = saved /\ UNCHANGED caches /\ asComponent' = asComponent
      /\ failures' = failures
  BY <1>2 DEF FinishProfile, DayIsDone, caches
<1>5. NettingTyped'
  BY <1>3, <1>4 DEF NettingTyped, caches
<1>6. Settled(t)'
  <2>1. t.ordered[i] = f /\ \A j \in Items \ {i} : t.ordered[j] = s.ordered[j]
                                                  /\ s.reported[j] \subseteq t.reported[j]
    BY <1>2, <1>3 DEF Noted
  <2>2. ASSUME Clear(t, i), NEW x \in Days PROVE CoversOn(f, i, x)
    <3>1. Clear(r, i)
      BY <1>3, <2>2 DEF Clear, Noted
    <3>2. \A e \in Days : d < e /\ e <= x => e \notin EventDays(i)
      BY <1>2, <1>4 DEF FinishProfile, LaterEvents
    <3> QED BY <1>0, <1>1, <3>1, <3>2, DayCovered
  <2> QED BY <1>2, <1>4, <2>1, <2>2, LeavesSettled
<1>7. OrdersFollowWalks'
  <2>1. Settled(rows)'
    BY <1>3, <1>6 DEF Settled, Clear, Fits, FitsOn, CoversOn, ShortBy, Slack
  <2> QED BY <1>4, <2>1 DEF OrdersFollowWalks
<1>8. DrawsCover'
  BY <1>2, <1>3, <1>4, DrawsStay DEF Noted
<1> QED BY <1>5, <1>7, <1>8

(* A failed profile leaves the rows as they were, and the planner is told. *)
LEMMA ProfileFailsStep ==
  ASSUME NettingTyped, OrdersFollowWalks, DrawsCover, ProfileFails
  PROVE  NettingTyped' /\ OrdersFollowWalks' /\ DrawsCover'
<1>0. item \in [Items -> ItemSite] /\ walk # NoWalk
  BY DEF NettingTyped, ProfileFails
<1>1. PICK i \in Items, d \in Days, p \in Int, n \in 0 .. MaxOrders, f \in [Days -> Nat],
           r \in RowsOfRun, s \in RowsOfRun : WalkIs(i, d, p, n, f, r, s)
  BY <1>0, WalkInNumbers
<1>2. /\ walk.item = i /\ saved = s /\ i \in todo /\ item[i].source \in Plannable /\ Settled(s)
  BY <1>1 DEF WalkIs
<1>3. PICK t : t = rows' /\ Noted(s, t) /\ t \in RowsOfRun /\ "FAILED" \in t.reported[i]
  <2>1. "FAILED" \in Codes
    BY DEF Codes
  <2>2. rows' = Report(s, i, "FAILED")
    BY <1>2 DEF ProfileFails
  <2> QED BY <2>1, <2>2, ReportNotes
<1>4. /\ walk' = NoWalk /\ todo' = todo \ {i} /\ item' = item /\ agenda' = <<>>
      /\ saved' = saved /\ UNCHANGED caches /\ asComponent' = asComponent
      /\ failures' = failures + 1
  BY <1>2 DEF ProfileFails, caches
<1>5. failures \in Nat /\ failures' \in Nat /\ failures' # 0
  BY <1>4 DEF NettingTyped
<1>6. NettingTyped'
  <2>1. <<>> \in Seq(Requirement)
    OBVIOUS
  <2> QED BY <1>3, <1>4, <1>5, <2>1 DEF NettingTyped, caches
<1>7. Settled(t)'
  <2>1. \A j \in Items : t.ordered[j] = s.ordered[j] /\ s.reported[j] \subseteq t.reported[j]
    BY <1>3 DEF Noted
  <2>2. Fits(t.ordered[i], i)
    BY <1>2, <2>1 DEF Settled
  <2>3. ~ Clear(t, i)
    BY <1>3 DEF Clear
  <2> QED BY <1>2, <1>4, <2>1, <2>2, <2>3, LeavesSettled
<1>8. OrdersFollowWalks'
  <2>1. Settled(rows)'
    BY <1>3, <1>7 DEF Settled, Clear, Fits, FitsOn, CoversOn, ShortBy, Slack
  <2> QED BY <1>4, <2>1 DEF OrdersFollowWalks
<1>9. DrawsCover'
  BY <1>5 DEF DrawsCover
<1> QED BY <1>6, <1>8, <1>9

(* Planning what an order entails leaves the walk and its orders alone. *)
LEMMA ExplosionKeepsOrders ==
  ASSUME NettingTyped, OrdersFollowWalks, walk # NoWalk, item' = item, todo' = todo, walk' = walk,
         saved' = saved, asComponent \subseteq asComponent', rows'.ordered = rows.ordered,
         \A j \in Items : rows.reported[j] \subseteq rows'.reported[j]
  PROVE  OrdersFollowWalks'
<1>1. PICK i \in Items, d \in Days, p \in Int, n \in 0 .. MaxOrders, f \in [Days -> Nat],
           r \in RowsOfRun, s \in RowsOfRun : WalkIs(i, d, p, n, f, r, s)
  BY WalkInNumbers
<1>2. PICK t : t = rows'
  OBVIOUS
<1>3. /\ walk' = [item |-> i, day |-> d, projected |-> p, guard |-> n]
      /\ rows = r /\ saved' = s /\ t.ordered = r.ordered /\ t.ordered[i] = f
      /\ \A j \in Items : r.reported[j] \subseteq t.reported[j]
  BY <1>1, <1>2 DEF WalkIs
<1>4. /\ i \in todo /\ item[i].source \in Plannable /\ Settled(s) /\ Fits(f, i)
      /\ \A e \in Days : e > d => f[e] = 0
      /\ p = item[i].safety - ShortBy(i, Nettable(i), d) + SumUpTo(f, d)
  BY <1>1 DEF WalkIs
<1>5. n = MaxOrders => "TOO_SMALL" \in t.reported[i]
  BY <1>1, <1>3 DEF WalkIs
<1>6. Clear(t, i) => \A e \in Days : e < d => CoversOn(f, i, e)
  <2>1. Clear(t, i) => Clear(r, i)
    BY <1>3 DEF Clear
  <2> QED BY <1>1, <2>1 DEF WalkIs
<1>7. \A j \in Items \ {i} : t.ordered[j] = s.ordered[j] /\ s.reported[j] \subseteq t.reported[j]
  BY <1>1, <1>3 DEF WalkIs
<1> QED BY <1>2, <1>3, <1>4, <1>5, <1>6, <1>7, WalkStays

(* What is drawn on the other items stays as it is. *)
LEMMA OthersDrawn ==
  ASSUME item' = item, NEW j \in Items, DrawnOnce(j),
         consumed'[j] = consumed[j], sourceLeft'[j] = sourceLeft[j],
         j \in asComponent' <=> j \in asComponent, j \in withSafety' <=> j \in withSafety,
         rows'.netted[j] = rows.netted[j], rows'.sourced[j] = rows.sourced[j],
         rows'.dependent[j] = rows.dependent[j], rows'.requested[j] = rows.requested[j],
         rows.reported[j] \subseteq rows'.reported[j]
  PROVE  DrawnOnce(j)'
<1>1. Clear(rows, j)' => Clear(rows, j)
  BY DEF Clear
<1>2. Supply(j)' = Supply(j) /\ Nettable(j)' = Nettable(j)
  BY InputsStay
<1> QED BY <1>1, <1>2 DEF DrawnOnce

(* The next requirement, and those after it. *)
LEMMA NextRequirement ==
  ASSUME NettingTyped, agenda # <<>>
  PROVE  /\ Head(agenda) \in Requirement /\ Tail(agenda) \in Seq(Requirement) /\ walk # NoWalk
         /\ Head(agenda).item \in Items /\ Head(agenda).qty \in Nat
         /\ Head(agenda).above \in SUBSET Items
<1>1. agenda \in Seq(Requirement) /\ agenda # <<>> /\ walk # NoWalk
  BY DEF NettingTyped
<1>2. Head(agenda) \in Requirement /\ Tail(agenda) \in Seq(Requirement)
  BY <1>1
<1> QED BY <1>1, <1>2 DEF Requirement

(* What a step of the explosion may change keeps its type. *)
LEMMA ExplosionTyped ==
  ASSUME NettingTyped, walk # NoWalk, item' = item, todo' = todo, walk' = walk, saved' = saved,
         failures' = failures, rows' \in RowsOfRun, agenda' \in Seq(Requirement),
         consumed' \in [Items -> Nat], sourceLeft' \in [Items -> Nat],
         asComponent' \in SUBSET Items, withSafety' \in SUBSET Items
  PROVE  NettingTyped'
BY DEF NettingTyped

(* A line that takes nothing draws nothing. *)
LEMMA PassLineStep ==
  ASSUME NettingTyped, OrdersFollowWalks, DrawsCover, PassLine
  PROVE  NettingTyped' /\ OrdersFollowWalks' /\ DrawsCover'
<1>1. /\ agenda # <<>> /\ agenda' = Tail(agenda) /\ item' = item /\ todo' = todo /\ walk' = walk
      /\ rows' = rows /\ saved' = saved /\ failures' = failures /\ UNCHANGED caches
      /\ consumed' = consumed /\ sourceLeft' = sourceLeft /\ asComponent' = asComponent
      /\ withSafety' = withSafety
  BY DEF PassLine, caches
<1>2. Tail(agenda) \in Seq(Requirement) /\ walk # NoWalk
  BY <1>1, NextRequirement
<1>3. NettingTyped'
  <2>1. rows \in RowsOfRun /\ consumed \in [Items -> Nat] /\ sourceLeft \in [Items -> Nat]
        /\ asComponent \in SUBSET Items /\ withSafety \in SUBSET Items
    BY DEF NettingTyped
  <2> QED BY <1>1, <1>2, <2>1, ExplosionTyped
<1>4. OrdersFollowWalks'
  BY <1>1, <1>2, ExplosionKeepsOrders
<1>5. DrawsCover'
  BY <1>1, DrawsStay
<1> QED BY <1>3, <1>4, <1>5

-----------------------------------------------------------------------------
(* A component whose demand is written, and that cannot be planned. *)
LEMMA GiveUpStep ==
  ASSUME NettingTyped, OrdersFollowWalks, DrawsCover, agenda # <<>>, NEW c \in {"LOOP", "NO_PROFILE"},
         GiveUp([rows EXCEPT !.dependent[Head(agenda).item] = @ + Head(agenda).qty],
                Head(agenda).item, c),
         UNCHANGED <<item, todo, walk, saved, sourceLeft, failures>>
  PROVE  NettingTyped' /\ OrdersFollowWalks' /\ DrawsCover'
<1>1. PICK i \in Items, m \in Nat, r \in RowsOfRun :
        i = Head(agenda).item /\ m = Head(agenda).qty /\ r = rows
  BY NextRequirement DEF NettingTyped
<1>2. PICK u, dep : u = [r EXCEPT !.dependent[i] = @ + m]
                    /\ dep = [r.dependent EXCEPT ![i] = r.dependent[i] + m]
  OBVIOUS
<1>3. u \in RowsOfRun /\ HasFields(u, r.ordered, r.netted, r.sourced, dep, r.requested, r.reported)
  BY <1>2, DependentAdded
<1>4. PICK t : t = Report(u, i, c) /\ Noted(u, t) /\ c \in t.reported[i] /\ t \in RowsOfRun
  <2>1. c \in Codes
    BY DEF Codes
  <2> QED BY <1>3, <2>1, ReportNotes
<1>5. /\ rows' = t /\ agenda' = Tail(agenda) /\ item' = item /\ todo' = todo /\ walk' = walk
      /\ saved' = saved /\ failures' = failures
      /\ consumed' = consumed /\ sourceLeft' = sourceLeft /\ asComponent' = asComponent
      /\ withSafety' = withSafety
  BY <1>1, <1>2, <1>4 DEF GiveUp
<1>6. /\ t.ordered = r.ordered /\ t.netted = r.netted /\ t.sourced = r.sourced
      /\ t.dependent = dep /\ t.requested = r.requested
      /\ \A j \in Items : r.reported[j] \subseteq t.reported[j]
  BY <1>3, <1>4 DEF HasFields, Noted
<1>7. NettingTyped'
  <2>1. consumed \in [Items -> Nat] /\ sourceLeft \in [Items -> Nat]
        /\ asComponent \in SUBSET Items /\ withSafety \in SUBSET Items
    BY DEF NettingTyped
  <2> QED BY <1>4, <1>5, <2>1, NextRequirement, ExplosionTyped
<1>8. OrdersFollowWalks'
  BY <1>1, <1>5, <1>6, NextRequirement, ExplosionKeepsOrders
<1>9. DrawsCover'
  <2> SUFFICES ASSUME failures = 0, NEW j \in Items PROVE DrawnOnce(j)'
    BY <1>5 DEF DrawsCover
  <2>1. DrawnOnce(j)
    BY DEF DrawsCover
  <2>2. CASE j = i
    <3>1. ~ Clear(rows, j)'
      BY <1>4, <1>5, <2>2 DEF Clear
    <3>2. Supply(j)' = Supply(j) /\ Nettable(j)' = Nettable(j)
      BY <1>5, InputsStay
    <3> QED BY <1>5, <2>1, <3>1, <3>2 DEF DrawnOnce
  <2>3. CASE j # i
    <3>1. r.dependent \in [Items -> Nat]
      BY DEF RowsOfRun
    <3>2. dep[j] = r.dependent[j]
      BY <1>2, <2>3, <3>1
    <3> QED BY <1>1, <1>5, <1>6, <2>1, <3>2, OthersDrawn
  <2> QED BY <2>2, <2>3
<1> QED BY <1>7, <1>8, <1>9

(* A phantom: its own components are asked for in its place. *)
LEMMA PhantomStep ==
  ASSUME NettingTyped, OrdersFollowWalks, DrawsCover, agenda # <<>>,
         item[Head(agenda).item].source = "PHANTOM",
         rows' = ReportGaps([rows EXCEPT !.dependent[Head(agenda).item] = @ + Head(agenda).qty],
                            Head(agenda).item),
         agenda' = LinesOf(Head(agenda).item, Head(agenda).qty,
                           Head(agenda).above \cup {Head(agenda).item}) \o Tail(agenda),
         UNCHANGED <<consumed, asComponent, withSafety>>,
         UNCHANGED <<item, todo, walk, saved, sourceLeft, failures>>
  PROVE  NettingTyped' /\ OrdersFollowWalks' /\ DrawsCover'
<1>1. PICK i \in Items, m \in Nat, r \in RowsOfRun, above \in SUBSET Items :
        i = Head(agenda).item /\ m = Head(agenda).qty /\ r = rows /\ above = Head(agenda).above
  BY NextRequirement DEF NettingTyped
<1>2. PICK u, dep : u = [r EXCEPT !.dependent[i] = @ + m]
                    /\ dep = [r.dependent EXCEPT ![i] = r.dependent[i] + m]
  OBVIOUS
<1>3. u \in RowsOfRun /\ HasFields(u, r.ordered, r.netted, r.sourced, dep, r.requested, r.reported)
  BY <1>2, DependentAdded
<1>4. PICK t : t = ReportGaps(u, i) /\ Noted(u, t) /\ t \in RowsOfRun
  BY <1>3, GapsNoted
<1>5. /\ rows' = t /\ item' = item /\ todo' = todo /\ walk' = walk
      /\ saved' = saved /\ failures' = failures
      /\ consumed' = consumed /\ sourceLeft' = sourceLeft /\ asComponent' = asComponent
      /\ withSafety' = withSafety /\ item[i].source = "PHANTOM"
  BY <1>1, <1>2, <1>4
<1>6. /\ t.ordered = r.ordered /\ t.netted = r.netted /\ t.sourced = r.sourced
      /\ t.dependent = dep /\ t.requested = r.requested
      /\ \A j \in Items : r.reported[j] \subseteq t.reported[j]
  BY <1>3, <1>4 DEF HasFields, Noted
<1>7. NettingTyped'
  <2>1. consumed \in [Items -> Nat] /\ sourceLeft \in [Items -> Nat]
        /\ asComponent \in SUBSET Items /\ withSafety \in SUBSET Items
    BY DEF NettingTyped
  <2>2. agenda' = LinesOf(i, m, above \cup {i}) \o Tail(agenda)
    BY <1>1
  <2>3. LinesOf(i, m, above \cup {i}) \in Seq(Requirement)
    BY LinesAreRequirements
  <2>4. agenda' \in Seq(Requirement)
    <3>1. PICK a \in Seq(Requirement), b \in Seq(Requirement) :
            a = LinesOf(i, m, above \cup {i}) /\ b = Tail(agenda)
      BY <2>3, NextRequirement
    <3>2. a \o b \in Seq(Requirement)
      OBVIOUS
    <3> QED BY <2>2, <3>1, <3>2
  <2> QED BY <1>4, <1>5, <2>1, <2>4, NextRequirement, ExplosionTyped
<1>8. OrdersFollowWalks'
  BY <1>1, <1>5, <1>6, NextRequirement, ExplosionKeepsOrders
<1>9. DrawsCover'
  <2> SUFFICES ASSUME failures = 0, NEW j \in Items PROVE DrawnOnce(j)'
    BY <1>5 DEF DrawsCover
  <2>1. DrawnOnce(j)
    BY DEF DrawsCover
  <2>2. CASE j = i
    <3>1. item'[j].source \notin Plannable
      BY <1>5, <2>2 DEF Plannable
    <3>2. Supply(j)' = Supply(j) /\ Nettable(j)' = Nettable(j)
      BY <1>5, InputsStay
    <3> QED BY <1>5, <2>1, <3>1, <3>2 DEF DrawnOnce
  <2>3. CASE j # i
    <3>1. r.dependent \in [Items -> Nat]
      BY DEF RowsOfRun
    <3>2. dep[j] = r.dependent[j]
      BY <1>2, <2>3, <3>1
    <3> QED BY <1>1, <1>5, <1>6, <2>1, <3>2, OthersDrawn
  <2> QED BY <2>2, <2>3
<1> QED BY <1>7, <1>8, <1>9

(* What netting a requirement m and a safety stock of s takes of a supply of which c is
   taken already, and orders. *)
LEMMA NettedInNumbers ==
  ASSUME item \in [Items -> ItemSite], NEW i \in Items, NEW needed \in Nat, NEW c \in Nat,
         NEW take, take = Max({0, Min({needed, Supply(i) - c})}),
         NEW q, q = IF needed - take > 0 THEN SizeOrder(item[i].rules, needed - take) ELSE 0
  PROVE  /\ take \in Nat /\ q \in Nat
         /\ c <= Supply(i) => c + take <= Supply(i)
         /\ \/ needed - take > 0 /\ Capped(item[i].rules, needed - take)
            \/ needed <= take + q
<1>1. PICK a \in Nat : a = Supply(i)
  BY SupplyIsNumber
<1>2. PICK b \in Int : b = Min({needed, a - c}) /\ b = IF needed <= a - c THEN needed ELSE a - c
  BY MinOfTwo
<1>3. take = IF 0 >= b THEN 0 ELSE b
  <2>1. take = Max({0, b})
    BY <1>1, <1>2
  <2>2. Max({0, b}) = IF 0 >= b THEN 0 ELSE b
    BY MaxOfTwo
  <2> QED BY <2>1, <2>2
<1>4. take \in Nat /\ (c <= a => c + take <= a)
  BY <1>2, <1>3
<1>5. CASE needed - take > 0
  <2>1. item[i].rules \in LotRules /\ needed - take \in Nat \ {0}
    BY <1>4, <1>5, ItemNumbers
  <2>2. q \in Nat /\ (Capped(item[i].rules, needed - take) \/ q >= needed - take)
    BY <1>5, <2>1, OrderSize
  <2> QED BY <1>1, <1>4, <1>5, <2>2
<1>6. CASE ~ (needed - take > 0)
  <2>1. q = 0 /\ needed <= take
    BY <1>4, <1>6
  <2> QED BY <1>1, <1>4, <2>1
<1> QED BY <1>5, <1>6

(* A component that is planned. *)
LEMMA NetComponentStep ==
  ASSUME NettingTyped, OrdersFollowWalks, DrawsCover, agenda # <<>>,
         NetComponent(Head(agenda),
                      [rows EXCEPT !.dependent[Head(agenda).item] = @ + Head(agenda).qty]),
         UNCHANGED <<item, todo, walk, saved, sourceLeft, failures>>
  PROVE  NettingTyped' /\ OrdersFollowWalks' /\ DrawsCover'
<1>0. item \in [Items -> ItemSite]
  BY DEF NettingTyped
<1>a. PICK e : e = Head(agenda)
  OBVIOUS
<1>1. PICK i \in Items, m \in Nat, r \in RowsOfRun, above \in SUBSET Items :
        i = e.item /\ m = e.qty /\ r = rows /\ above = e.above
  BY <1>a, NextRequirement DEF NettingTyped
<1>2. PICK u, dep : u = [r EXCEPT !.dependent[i] = @ + m]
                    /\ dep = [r.dependent EXCEPT ![i] = r.dependent[i] + m]
  OBVIOUS
<1>3. u \in RowsOfRun /\ dep \in [Items -> Nat]
      /\ HasFields(u, r.ordered, r.netted, r.sourced, dep, r.requested, r.reported)
  BY <1>2, DependentAdded
<1>4. PICK s \in Nat : s = item[i].safety
  BY <1>0, ItemNumbers
<1>5. PICK needed \in Nat : needed = m + IF i \in withSafety THEN 0 ELSE s
  OBVIOUS
<1>6. PICK c \in Nat, C \in [Items -> Nat] : C = consumed /\ c = C[i]
  BY DEF NettingTyped
<1>7. PICK take : take = Max({0, Min({needed, Supply(i) - c})})
  OBVIOUS
<1>8. PICK q : q = IF needed - take > 0 THEN SizeOrder(item[i].rules, needed - take) ELSE 0
  OBVIOUS
<1>9. PICK capped \in BOOLEAN :
        capped = (needed - take > 0 /\ Capped(item[i].rules, needed - take))
  OBVIOUS
<1>10. /\ take \in Nat /\ q \in Nat /\ (c <= Supply(i) => c + take <= Supply(i))
       /\ capped \/ needed <= take + q
  BY <1>0, <1>7, <1>8, <1>9, NettedInNumbers
<1>11. PICK v, net : v = CreateOrder(u, "netted", i, q)
                     /\ net = [u.netted EXCEPT ![i] = u.netted[i] + q]
  OBVIOUS
<1>12. v \in RowsOfRun /\ net \in [Items -> Nat]
       /\ HasFields(v, u.ordered, net, u.sourced, u.dependent, u.requested, u.reported)
  BY <1>3, <1>10, <1>11, NettedAdded
<1>13. PICK makes \in BOOLEAN : makes = (needed - take > 0 /\ item[i].source = "MAKE")
  OBVIOUS
<1>14. PICK x : x = (IF makes THEN ReportGaps(v, i) ELSE v) /\ Noted(v, x) /\ x \in RowsOfRun
  BY <1>12, GapsNoted, NotedAtAll
<1>15. PICK t : /\ t = (IF capped THEN Report(x, i, "TOO_SMALL") ELSE x)
                /\ Noted(x, t) /\ t \in RowsOfRun /\ (capped => "TOO_SMALL" \in t.reported[i])
  <2>1. "TOO_SMALL" \in Codes
    BY DEF Codes
  <2> QED BY <1>14, <2>1, ReportNotes, NotedAtAll
<1>16. /\ rows' = t /\ consumed' = [C EXCEPT ![i] = c + take]
       /\ asComponent' = asComponent \cup {i}
       /\ withSafety' = (IF s > 0 THEN withSafety \cup {i} ELSE withSafety)
       /\ agenda' = (IF makes THEN LinesOf(i, q, above \cup {i}) ELSE <<>>) \o Tail(agenda)
  BY <1>a, <1>1, <1>2, <1>4, <1>5, <1>6, <1>7, <1>8, <1>9, <1>11, <1>13, <1>14, <1>15, ZenonT(60)
     DEF NetComponent, ConsumedAfter
<1>17. /\ t.ordered = r.ordered /\ t.sourced = r.sourced /\ t.requested = r.requested
       /\ t.dependent = dep /\ t.netted = net /\ net = [r.netted EXCEPT ![i] = r.netted[i] + q]
       /\ \A j \in Items : r.reported[j] \subseteq t.reported[j]
  BY <1>3, <1>11, <1>12, <1>14, <1>15 DEF HasFields, Noted
<1>18. /\ item' = item /\ todo' = todo /\ walk' = walk /\ saved' = saved /\ failures' = failures
       /\ sourceLeft' = sourceLeft /\ asComponent \in SUBSET Items /\ withSafety \in SUBSET Items
       /\ sourceLeft \in [Items -> Nat]
  BY DEF NettingTyped
<1>19. consumed' \in [Items -> Nat] /\ consumed'[i] = c + take
       /\ \A j \in Items \ {i} : consumed'[j] = consumed[j]
  BY <1>6, <1>10, <1>16
<1>20. NettingTyped'
  <2>1. LinesOf(i, q, above \cup {i}) \in Seq(Requirement)
    BY <1>10, LinesAreRequirements
  <2>2. Tail(agenda) \in Seq(Requirement) /\ <<>> \in Seq(Requirement)
    BY NextRequirement
  <2>3. agenda' \in Seq(Requirement)
    BY <1>16, <2>1, <2>2
  <2>4. asComponent' \in SUBSET Items /\ withSafety' \in SUBSET Items
    BY <1>16, <1>18
  <2> QED BY <1>15, <1>16, <1>18, <1>19, <2>3, <2>4, NextRequirement, ExplosionTyped
<1>21. OrdersFollowWalks'
  BY <1>1, <1>16, <1>17, <1>18, NextRequirement, ExplosionKeepsOrders
<1>22. DrawsCover'
  <2> SUFFICES ASSUME failures = 0, NEW j \in Items PROVE DrawnOnce(j)'
    BY <1>18 DEF DrawsCover
  <2>1. DrawnOnce(j)
    BY DEF DrawsCover
  <2>2. r.netted \in [Items -> Nat] /\ r.dependent \in [Items -> Nat]
    BY DEF RowsOfRun
  <2>3. CASE j = i
    <3>1. PICK a \in Nat, b \in Nat : a = r.netted[i] /\ b = r.dependent[i]
      BY <2>2
    <3>2. t.netted[i] = a + q /\ t.dependent[i] = b + m
      BY <1>2, <1>17, <2>2, <3>1
    <3>3. Supply(i)' = Supply(i) /\ Nettable(i)' = Nettable(i)
      BY <1>18, InputsStay
    <3>4. consumed'[i] <= Supply(i)
      BY <1>6, <1>10, <1>19, <2>1, <2>3 DEF DrawnOnce
    <3>5. s > 0 => i \in withSafety'
      BY <1>16
    <3>6. ASSUME item[i].source \in Plannable, Clear(t, i)
          PROVE  b + m + (IF i \in withSafety' THEN s ELSE 0) <= c + take + (a + q)
      <4>1. ~ capped
        BY <1>15, <3>6 DEF Clear
      <4>2. Clear(r, i)
        BY <1>17, <3>6 DEF Clear
      <4>3. b + (IF i \in withSafety THEN s ELSE 0) <= c + a
        BY <1>1, <1>4, <1>6, <2>1, <2>3, <3>1, <3>6, <4>2 DEF DrawnOnce
      <4>4. (IF i \in withSafety' THEN s ELSE 0)
              = (IF i \in withSafety THEN s ELSE 0) + (IF i \in withSafety THEN 0 ELSE s)
        BY <1>16
      <4> QED BY <1>5, <1>10, <4>1, <4>3, <4>4, SMTT(30)
    <3>7. ASSUME item[i].source \in Plannable, Clear(t, i)
          PROVE  t.requested[i] <= Nettable(i) - sourceLeft[i] + t.sourced[i]
      <4>1. Clear(r, i)
        BY <1>17, <3>7 DEF Clear
      <4> QED BY <1>1, <1>17, <2>1, <2>3, <3>7, <4>1 DEF DrawnOnce
    <3>8. sourceLeft[i] <= Nettable(i) /\ i \in asComponent'
      BY <1>16, <2>1, <2>3 DEF DrawnOnce
    <3>9. Clear(rows, i)' <=> Clear(t, i)
      BY <1>16 DEF Clear
    <3> QED BY <1>4, <1>16, <1>18, <1>19, <2>3, <3>2, <3>3, <3>4, <3>5, <3>6, <3>7, <3>8, <3>9
            DEF DrawnOnce
  <2>4. CASE j # i
    <3>1. net[j] = r.netted[j] /\ dep[j] = r.dependent[j]
      BY <1>2, <1>17, <2>2, <2>4
    <3>2. (j \in asComponent' <=> j \in asComponent) /\ (j \in withSafety' <=> j \in withSafety)
      BY <1>16, <2>4
    <3> QED BY <1>1, <1>16, <1>17, <1>18, <1>19, <2>1, <2>4, <3>1, <3>2, OthersDrawn
  <2> QED BY <2>3, <2>4
<1> QED BY <1>20, <1>21, <1>22

(* A component is looped, blown through, unplannable or netted. *)
LEMMA PlanComponentStep ==
  ASSUME NettingTyped, OrdersFollowWalks, DrawsCover, PlanComponent
  PROVE  NettingTyped' /\ OrdersFollowWalks' /\ DrawsCover'
<1> DEFINE e == Head(agenda)
           i == e.item
           written == [rows EXCEPT !.dependent[i] = @ + e.qty]
<1>1. agenda # <<>> /\ UNCHANGED <<item, todo, walk, saved, sourceLeft, failures>>
      /\ \/ GiveUp(written, i, "LOOP")
         \/ /\ item[i].source = "PHANTOM" /\ rows' = ReportGaps(written, i)
            /\ agenda' = LinesOf(i, e.qty, e.above \cup {i}) \o Tail(agenda)
            /\ UNCHANGED <<consumed, asComponent, withSafety>>
         \/ GiveUp(written, i, "NO_PROFILE")
         \/ NetComponent(e, written)
  BY DEF PlanComponent
<1>2. CASE GiveUp(written, i, "LOOP")
  BY <1>1, <1>2, GiveUpStep
<1>3. CASE /\ item[i].source = "PHANTOM" /\ rows' = ReportGaps(written, i)
           /\ agenda' = LinesOf(i, e.qty, e.above \cup {i}) \o Tail(agenda)
           /\ UNCHANGED <<consumed, asComponent, withSafety>>
  BY <1>1, <1>3, PhantomStep
<1>4. CASE GiveUp(written, i, "NO_PROFILE")
  BY <1>1, <1>4, GiveUpStep
<1>5. CASE NetComponent(e, written)
  BY <1>1, <1>5, NetComponentStep
<1> QED BY <1>1, <1>2, <1>3, <1>4, <1>5

(* r becomes t: m of i is asked for, take of it is taken from the source's stock and q
   ordered. *)
RequestTaken(i, m, take, q, r, t) ==
  /\ take = Min({m, sourceLeft[i]}) /\ sourceLeft' = [sourceLeft EXCEPT ![i] = @ - take]
  /\ r = rows /\ t = rows'
  /\ t.ordered = r.ordered /\ t.netted = r.netted /\ t.dependent = r.dependent
  /\ t.requested = [r.requested EXCEPT ![i] = r.requested[i] + m]
  /\ t.sourced = [r.sourced EXCEPT ![i] = r.sourced[i] + q]
  /\ \A j \in Items : r.reported[j] \subseteq t.reported[j]
  /\ ~ Clear(t, i) \/ m <= take + q
  /\ agenda' \in Seq(Requirement)

(* A request takes what is left of the source's stock; the rest is ordered, or the planner
   is told. *)
LEMMA RequestDrawn ==
  ASSUME NettingTyped, OrdersFollowWalks, DrawsCover, agenda # <<>>,
         UNCHANGED <<item, todo, walk, saved, consumed, asComponent, withSafety, failures>>,
         NEW i \in Items, NEW m \in Nat, NEW take, NEW q \in Nat, NEW r \in RowsOfRun,
         NEW t \in RowsOfRun, RequestTaken(i, m, take, q, r, t)
  PROVE  NettingTyped' /\ OrdersFollowWalks' /\ DrawsCover'
<1>1. /\ item' = item /\ todo' = todo /\ walk' = walk /\ saved' = saved /\ failures' = failures
      /\ consumed' = consumed /\ asComponent' = asComponent /\ withSafety' = withSafety
  OBVIOUS
<1>a. /\ take = Min({m, sourceLeft[i]}) /\ sourceLeft' = [sourceLeft EXCEPT ![i] = @ - take]
      /\ r = rows /\ t = rows'
      /\ t.ordered = r.ordered /\ t.netted = r.netted /\ t.dependent = r.dependent
      /\ t.requested = [r.requested EXCEPT ![i] = r.requested[i] + m]
      /\ t.sourced = [r.sourced EXCEPT ![i] = r.sourced[i] + q]
      /\ \A j \in Items : r.reported[j] \subseteq t.reported[j]
      /\ ~ Clear(t, i) \/ m <= take + q
      /\ agenda' \in Seq(Requirement)
  BY DEF RequestTaken
<1>2. PICK left \in [Items -> Nat], l \in Nat : left = sourceLeft /\ l = left[i]
  BY DEF NettingTyped
<1>3. take \in Nat /\ take <= l
  <2>1. m \in Int /\ l \in Int /\ take = Min({m, l})
    BY <1>a, <1>2
  <2>2. Min({m, l}) = IF m <= l THEN m ELSE l
    BY <2>1, MinOfTwo
  <2> QED BY <2>1, <2>2
<1>4. sourceLeft' \in [Items -> Nat] /\ sourceLeft'[i] = l - take
      /\ \A j \in Items \ {i} : sourceLeft'[j] = sourceLeft[j]
  BY <1>a, <1>2, <1>3
<1>5. NettingTyped'
  <2>1. consumed \in [Items -> Nat]
        /\ asComponent \in SUBSET Items /\ withSafety \in SUBSET Items
    BY DEF NettingTyped
  <2> QED BY <1>a, <1>1, <1>4, <2>1, NextRequirement, ExplosionTyped
<1>6. OrdersFollowWalks'
  BY <1>a, <1>1, NextRequirement, ExplosionKeepsOrders
<1>7. DrawsCover'
  <2> SUFFICES ASSUME failures = 0, NEW j \in Items PROVE DrawnOnce(j)'
    BY <1>1 DEF DrawsCover
  <2>1. DrawnOnce(j)
    BY DEF DrawsCover
  <2>2. r.requested \in [Items -> Nat] /\ r.sourced \in [Items -> Nat]
    BY DEF RowsOfRun
  <2>3. CASE j = i
    <3>1. PICK a \in Nat, b \in Nat, n \in Nat :
            a = r.requested[i] /\ b = r.sourced[i] /\ n = Nettable(i)
      BY <2>2, NettableIsNumber DEF NettingTyped
    <3>2. t.requested[i] = a + m /\ t.sourced[i] = b + q
      BY <1>a, <2>2, <3>1
    <3>3. Supply(i)' = Supply(i) /\ Nettable(i)' = n
      BY <1>1, <3>1, InputsStay
    <3>4. sourceLeft'[i] <= n
      BY <1>2, <1>3, <1>4, <2>1, <2>3, <3>1 DEF DrawnOnce
    <3>5. Clear(t, i) => Clear(r, i)
      BY <1>a DEF Clear
    <3>6. ASSUME item[i].source \in Plannable, Clear(t, i)
          PROVE  a + m <= n - sourceLeft'[i] + (b + q)
      <4>1. a <= n - l + b
        BY <1>a, <1>2, <2>1, <2>3, <3>1, <3>5, <3>6 DEF DrawnOnce
      <4>2. m <= take + q
        BY <1>a, <3>6
      <4> QED BY <1>3, <1>4, <4>1, <4>2
    <3>7. Clear(rows, i)' <=> Clear(t, i)
      BY <1>a DEF Clear
    <3> QED BY <1>a, <1>1, <2>1, <2>3, <3>2, <3>3, <3>4, <3>5, <3>6, <3>7 DEF DrawnOnce
  <2>4. CASE j # i
    <3>1. t.requested[j] = r.requested[j] /\ t.sourced[j] = r.sourced[j]
      BY <1>a, <2>2, <2>4
    <3> QED BY <1>a, <1>1, <1>4, <2>1, <2>4, <3>1, OthersDrawn
  <2> QED BY <2>3, <2>4
<1> QED BY <1>5, <1>6, <1>7

(* A request takes stock of the source, and orders or reports the rest. *)
LEMMA PlanRequestStep ==
  ASSUME NettingTyped, OrdersFollowWalks, DrawsCover, PlanRequest
  PROVE  NettingTyped' /\ OrdersFollowWalks' /\ DrawsCover'
<1>0. agenda # <<>> /\ item \in [Items -> ItemSite]
  BY DEF PlanRequest, NettingTyped
<1>a. PICK e : e = Head(agenda)
  OBVIOUS
<1>1. PICK i \in Items, m \in Nat, r \in RowsOfRun, above \in SUBSET Items :
        i = e.item /\ m = e.qty /\ r = rows /\ above = e.above
  BY <1>0, <1>a, NextRequirement DEF NettingTyped
<1>2. PICK rest \in Seq(Requirement) : rest = Tail(agenda)
  BY <1>0, NextRequirement
<1>3. PICK u, asked : u = [r EXCEPT !.requested[i] = @ + m]
                    /\ asked = [r.requested EXCEPT ![i] = r.requested[i] + m]
  OBVIOUS
<1>4. u \in RowsOfRun /\ asked \in [Items -> Nat]
      /\ HasFields(u, r.ordered, r.netted, r.sourced, r.dependent, asked, r.reported)
  BY <1>3, RequestedAdded
<1>5. PICK take \in Nat : take = Min({m, sourceLeft[i]}) /\ take <= m
  <2>1. PICK l \in Nat : l = sourceLeft[i]
    BY DEF NettingTyped
  <2>2. Min({m, l}) = IF m <= l THEN m ELSE l
    BY MinOfTwo
  <2> QED BY <2>1, <2>2
<1>6. PICK short : short = Report(u, i, "SOURCE_SHORT") /\ Noted(u, short) /\ short \in RowsOfRun
  <2>1. "SOURCE_SHORT" \in Codes
    BY DEF Codes
  <2> QED BY <1>4, <2>1, ReportNotes
<1>7. PICK q : q = SizeOrder(item[i].rules, m - take)
  OBVIOUS
<1>8. UNCHANGED <<item, todo, walk, saved, consumed, asComponent, withSafety, failures>>
  BY DEF PlanRequest
<1>9. /\ r.requested \in [Items -> Nat] /\ r.sourced \in [Items -> Nat]
      /\ r.sourced = [r.sourced EXCEPT ![i] = r.sourced[i] + 0]
  <2>1. r.requested \in [Items -> Nat] /\ r.sourced \in [Items -> Nat]
    BY DEF RowsOfRun
  <2>2. r.sourced[i] + 0 = r.sourced[i]
    BY <2>1
  <2> QED BY <2>1, <2>2
<1>10. \/ rows' = Report(r, i, "LOOP") /\ agenda' = rest /\ sourceLeft' = sourceLeft
       \/ /\ sourceLeft' = [sourceLeft EXCEPT ![i] = @ - take]
          /\ \/ m - take = 0 /\ rows' = u /\ agenda' = rest
             \/ m - take > 0 /\ rows' = Report(short, i, "NO_PROFILE") /\ agenda' = rest
             \/ /\ m - take > 0
                /\ LET placed == ReportGaps(CreateOrder(short, "sourced", i, q), i)
                   IN  rows' = IF Capped(item[i].rules, m - take) THEN Report(placed, i, "TOO_SMALL")
                                                                  ELSE placed
                /\ agenda' = Entailed(i, q, {}, above) \o rest
  BY <1>a, <1>1, <1>2, <1>3, <1>5, <1>6, <1>7 DEF PlanRequest
<1>11. CASE rows' = Report(r, i, "LOOP") /\ agenda' = rest /\ sourceLeft' = sourceLeft
  <2>1. PICK t : t = rows' /\ Noted(r, t) /\ t \in RowsOfRun
    <3>1. "LOOP" \in Codes
      BY DEF Codes
    <3> QED BY <1>11, <3>1, ReportNotes
  <2>2. /\ item' = item /\ todo' = todo /\ walk' = walk /\ saved' = saved /\ failures' = failures
        /\ consumed' = consumed /\ asComponent' = asComponent /\ withSafety' = withSafety
        /\ sourceLeft' = sourceLeft /\ UNCHANGED caches
    BY <1>8, <1>11 DEF caches
  <2>3. NettingTyped'
    <3>1. consumed \in [Items -> Nat] /\ sourceLeft \in [Items -> Nat]
          /\ asComponent \in SUBSET Items /\ withSafety \in SUBSET Items
      BY DEF NettingTyped
    <3> QED BY <1>0, <1>11, <2>1, <2>2, <3>1, NextRequirement, ExplosionTyped
  <2>4. OrdersFollowWalks'
    BY <1>0, <1>1, <2>1, <2>2, NextRequirement, ExplosionKeepsOrders DEF Noted
  <2>5. DrawsCover'
    BY <1>1, <2>1, <2>2, DrawsStay DEF Noted
  <2> QED BY <2>3, <2>4, <2>5
<1>12. CASE /\ sourceLeft' = [sourceLeft EXCEPT ![i] = @ - take]
            /\ m - take = 0 /\ rows' = u /\ agenda' = rest
  <2>1. m <= take + 0
    BY <1>12
  <2>2. /\ u.ordered = r.ordered /\ u.netted = r.netted /\ u.dependent = r.dependent
        /\ u.requested = [r.requested EXCEPT ![i] = r.requested[i] + m]
        /\ u.sourced = [r.sourced EXCEPT ![i] = r.sourced[i] + 0]
        /\ \A j \in Items : r.reported[j] \subseteq u.reported[j]
    BY <1>3, <1>4, <1>9 DEF HasFields
  <2>3. agenda' \in Seq(Requirement)
    BY <1>12
  <2>4. RequestTaken(i, m, take, 0, r, u)
    BY <1>1, <1>5, <1>12, <2>1, <2>2, <2>3 DEF RequestTaken
  <2> QED BY <1>0, <1>4, <1>8, <2>4, RequestDrawn
<1>13. CASE /\ sourceLeft' = [sourceLeft EXCEPT ![i] = @ - take]
            /\ m - take > 0 /\ rows' = Report(short, i, "NO_PROFILE") /\ agenda' = rest
  <2>1. PICK t : t = rows' /\ Noted(short, t) /\ t \in RowsOfRun /\ "NO_PROFILE" \in t.reported[i]
    <3>1. "NO_PROFILE" \in Codes
      BY DEF Codes
    <3> QED BY <1>6, <1>13, <3>1, ReportNotes
  <2>2. ~ Clear(t, i)
    BY <2>1 DEF Clear
  <2>3. /\ t.ordered = r.ordered /\ t.netted = r.netted /\ t.dependent = r.dependent
        /\ t.requested = [r.requested EXCEPT ![i] = r.requested[i] + m]
        /\ t.sourced = [r.sourced EXCEPT ![i] = r.sourced[i] + 0]
        /\ \A j \in Items : r.reported[j] \subseteq t.reported[j]
    BY <1>3, <1>4, <1>6, <1>9, <2>1 DEF HasFields, Noted
  <2>4. agenda' \in Seq(Requirement)
    BY <1>13
  <2>5. RequestTaken(i, m, take, 0, r, t)
    BY <1>1, <1>5, <1>13, <2>1, <2>2, <2>3, <2>4 DEF RequestTaken
  <2> QED BY <1>0, <1>8, <2>1, <2>5, RequestDrawn
<1>14. CASE /\ sourceLeft' = [sourceLeft EXCEPT ![i] = @ - take]
            /\ m - take > 0
            /\ LET placed == ReportGaps(CreateOrder(short, "sourced", i, q), i)
               IN  rows' = IF Capped(item[i].rules, m - take) THEN Report(placed, i, "TOO_SMALL")
                                                              ELSE placed
            /\ agenda' = Entailed(i, q, {}, above) \o rest
  <2>1. q \in Nat /\ (Capped(item[i].rules, m - take) \/ q >= m - take)
    <3>1. item[i].rules \in LotRules /\ m - take \in Nat \ {0}
      BY <1>0, <1>14, ItemNumbers
    <3> QED BY <1>7, <3>1, OrderSize
  <2>2. PICK v, src : v = CreateOrder(short, "sourced", i, q)
                      /\ src = [short.sourced EXCEPT ![i] = short.sourced[i] + q]
    OBVIOUS
  <2>3. v \in RowsOfRun
        /\ HasFields(v, short.ordered, short.netted, src, short.dependent, short.requested,
                     short.reported)
    BY <1>6, <2>1, <2>2, SourcedAdded
  <2>4. PICK x : x = ReportGaps(v, i) /\ Noted(v, x) /\ x \in RowsOfRun
    BY <2>3, GapsNoted
  <2>5. PICK t : /\ t = rows' /\ Noted(x, t) /\ t \in RowsOfRun
                 /\ Capped(item[i].rules, m - take) => "TOO_SMALL" \in t.reported[i]
    <3>1. "TOO_SMALL" \in Codes
      BY DEF Codes
    <3>2. rows' = IF Capped(item[i].rules, m - take) THEN Report(x, i, "TOO_SMALL") ELSE x
      BY <1>14, <2>2, <2>4
    <3> QED BY <2>4, <3>1, <3>2, ReportNotes, NotedAtAll
  <2>6. ~ Clear(t, i) \/ m <= take + q
    <3>1. CASE Capped(item[i].rules, m - take)
      BY <2>5, <3>1 DEF Clear
    <3>2. CASE ~ Capped(item[i].rules, m - take)
      BY <2>1, <3>2
    <3> QED BY <3>1, <3>2
  <2>7. /\ t.ordered = r.ordered /\ t.netted = r.netted /\ t.dependent = r.dependent
        /\ t.requested = [r.requested EXCEPT ![i] = r.requested[i] + m]
        /\ t.sourced = [r.sourced EXCEPT ![i] = r.sourced[i] + q]
        /\ \A j \in Items : r.reported[j] \subseteq t.reported[j]
    <3>1. /\ u.ordered = r.ordered /\ u.netted = r.netted /\ u.sourced = r.sourced
          /\ u.dependent = r.dependent /\ u.requested = asked /\ u.reported = r.reported
      BY <1>4 DEF HasFields
    <3>2. /\ short.ordered = u.ordered /\ short.netted = u.netted /\ short.sourced = u.sourced
          /\ short.dependent = u.dependent /\ short.requested = u.requested
          /\ \A j \in Items : u.reported[j] \subseteq short.reported[j]
      BY <1>6 DEF Noted
    <3>3. /\ v.ordered = short.ordered /\ v.netted = short.netted /\ v.sourced = src
          /\ v.dependent = short.dependent /\ v.requested = short.requested
          /\ v.reported = short.reported
      BY <2>3 DEF HasFields
    <3>4. Noted(v, t)
      BY <2>4, <2>5, NotedTwice
    <3>5. /\ t.ordered = v.ordered /\ t.netted = v.netted /\ t.sourced = v.sourced
          /\ t.dependent = v.dependent /\ t.requested = v.requested
          /\ \A j \in Items : v.reported[j] \subseteq t.reported[j]
      BY <3>4 DEF Noted
    <3>6. src = [r.sourced EXCEPT ![i] = r.sourced[i] + q]
      BY <2>2, <3>1, <3>2
    <3>7. \A j \in Items : r.reported[j] \subseteq t.reported[j]
      BY <3>1, <3>2, <3>3, <3>5
    <3> QED BY <1>3, <3>1, <3>2, <3>3, <3>5, <3>6, <3>7
  <2>8. agenda' \in Seq(Requirement)
    <3>1. PICK a \in Seq(Requirement) : a = Entailed(i, q, {}, above)
      BY <2>1, EntailedIsAgenda
    <3>2. a \o rest \in Seq(Requirement)
      OBVIOUS
    <3> QED BY <1>14, <3>1, <3>2
  <2>9. RequestTaken(i, m, take, q, r, t)
    BY <1>1, <1>5, <1>14, <2>5, <2>6, <2>7, <2>8 DEF RequestTaken
  <2> QED BY <1>0, <1>8, <2>1, <2>5, <2>9, RequestDrawn
<1> QED BY <1>10, <1>11, <1>12, <1>13, <1>14

-----------------------------------------------------------------------------
(* A step that changes nothing. *)
LEMMA NettingStutters ==
  ASSUME NettingTyped, OrdersFollowWalks, DrawsCover, UNCHANGED nettingVars
  PROVE  NettingTyped' /\ OrdersFollowWalks' /\ DrawsCover'
<1>1. /\ item' = item /\ todo' = todo /\ walk' = walk /\ agenda' = agenda /\ rows' = rows
      /\ saved' = saved /\ consumed' = consumed /\ sourceLeft' = sourceLeft
      /\ asComponent' = asComponent /\ withSafety' = withSafety /\ failures' = failures
      /\ UNCHANGED caches
  BY DEF nettingVars, caches
<1>2. NettingTyped'
  BY <1>1 DEF NettingTyped
<1>3. OrdersFollowWalks'
  <2>1. CASE walk = NoWalk
    <3>1. PICK r : r = rows /\ Settled(r)
      BY <2>1 DEF OrdersFollowWalks
    <3>2. Settled(r)'
      BY <1>1, <3>1, StaySettled
    <3>3. Settled(rows)'
      BY <1>1, <3>1, <3>2 DEF Settled, Clear, Fits, FitsOn, CoversOn, ShortBy, Slack
    <3> QED BY <1>1, <2>1, <3>3 DEF OrdersFollowWalks
  <2>2. CASE walk # NoWalk
    BY <1>1, <2>2, ExplosionKeepsOrders
  <2> QED BY <2>1, <2>2
<1>4. DrawsCover'
  BY <1>1, DrawsStay
<1> QED BY <1>2, <1>3, <1>4

NettingInvariant == NettingTyped /\ OrdersFollowWalks /\ DrawsCover

(* What holds of a run in every reachable state. *)
THEOREM NettingKeepsTrack == NettingSpec => []NettingInvariant
<1>1. InitNetting => NettingInvariant
  BY InitNettingTyped, InitSettled, InitDrawn DEF NettingInvariant
<1>2. NettingInvariant /\ [NextNetting]_nettingVars => NettingInvariant'
  <2> SUFFICES ASSUME NettingTyped, OrdersFollowWalks, DrawsCover, [NextNetting]_nettingVars
               PROVE  NettingTyped' /\ OrdersFollowWalks' /\ DrawsCover'
    BY DEF NettingInvariant
  <2>1. ASSUME NEW k \in Items, Skip(k)
        PROVE  NettingTyped' /\ OrdersFollowWalks' /\ DrawsCover'
    BY <2>1, SkipStep
  <2>2. ASSUME NEW k \in Items, StartProfile(k)
        PROVE  NettingTyped' /\ OrdersFollowWalks' /\ DrawsCover'
    BY <2>2, StartProfileStep
  <2>3. CASE PlaceOrder
    BY <2>3, PlaceOrderStep
  <2>4. CASE NextDay
    BY <2>4, NextDayStep
  <2>5. CASE FinishProfile
    BY <2>5, FinishProfileStep
  <2>6. CASE ProfileFails
    BY <2>6, ProfileFailsStep
  <2>7. CASE PassLine
    BY <2>7, PassLineStep
  <2>8. CASE PlanComponent
    BY <2>8, PlanComponentStep
  <2>9. CASE PlanRequest
    BY <2>9, PlanRequestStep
  <2>10. CASE UNCHANGED nettingVars
    BY <2>10, NettingStutters
  <2> QED BY <2>1, <2>2, <2>3, <2>4, <2>5, <2>6, <2>7, <2>8, <2>9, <2>10 DEF NextNetting
<1> QED BY <1>1, <1>2, PTL DEF NettingSpec

(* The variables of a run keep their types (run_mrp and the plans it calls). *)
THEOREM NettingTypesHold == NettingSpec => []NettingTyped
<1>1. NettingInvariant => NettingTyped
  BY DEF NettingInvariant
<1> QED BY <1>1, NettingKeepsTrack, PTL

(* Nothing adds up to nothing. *)
LEMMA UpToNothing ==
  ASSUME NEW d \in Days, NEW f \in [Days -> Nat], \A e \in Days : f[e] = 0
  PROVE  SumUpTo(f, d) = 0
<1>1. f = NoDays
  BY DEF NoDays
<1> QED BY <1>1, UpToZero

(* What OrdersFollowWalks says of one item. *)
LEMMA OrdersOfItemFit ==
  ASSUME NettingTyped, OrdersFollowWalks, NEW i \in Items
  PROVE  Fits(rows.ordered[i], i)
<1>1. CASE walk = NoWalk
  BY <1>1 DEF OrdersFollowWalks, Settled
<1>2. CASE walk # NoWalk /\ walk.item = i
  BY <1>2 DEF OrdersFollowWalks, Walking
<1>3. CASE walk # NoWalk /\ walk.item # i
  <2>1. Settled(saved) /\ rows.ordered[i] = saved.ordered[i]
    BY <1>3 DEF OrdersFollowWalks, Walking
  <2>2. Fits(saved.ordered[i], i)
    BY <2>1 DEF Settled
  <2> QED BY <2>1, <2>2
<1> QED BY <1>1, <1>2, <1>3

(* When the run is over, the rows are settled. *)
LEMMA WalkedIsCovered ==
  ASSUME NettingTyped, OrdersFollowWalks, Done, NEW i \in Items, Walked(i), Unsolved(i) = {},
         NEW d \in Days
  PROVE  CoversOn(rows.ordered[i], i, d)
<1>1. walk = NoWalk /\ i \notin todo
  BY DEF Done
<1>2. Settled(rows)
  BY <1>1 DEF OrdersFollowWalks
<1>3. Clear(rows, i)
  BY DEF Unsolved, Clear
<1> QED BY <1>1, <1>2, <1>3 DEF Settled

(* Planned orders fit the shortages (_plan_profile): the walk places no more than the worst
   shortage so far calls for, and when the run is over every day of a planned item is
   covered or the planner has been told. *)
THEOREM OrdersFit == NettingSpec => []OrdersFitShortages
<1>1. NettingInvariant => OrdersFitShortages
  <2> SUFFICES ASSUME NettingTyped, OrdersFollowWalks, NEW i \in Items, NEW d \in Days
               PROVE  /\ FitsOn(rows.ordered[i], i, d)
                      /\ Done /\ Walked(i) /\ Unsolved(i) = {}
                           => CoversOn(rows.ordered[i], i, d)
    BY DEF OrdersFitShortages, NettingInvariant, FitsOn, CoversOn
  <2>1. FitsOn(rows.ordered[i], i, d)
    BY OrdersOfItemFit DEF Fits
  <2>2. Done /\ Walked(i) /\ Unsolved(i) = {} => CoversOn(rows.ordered[i], i, d)
    BY WalkedIsCovered
  <2> QED BY <2>1, <2>2
<1> QED BY <1>1, NettingKeepsTrack, PTL

(* At most one draw is one draw. *)
LEMMA OnlyDraw ==
  ASSUME NEW i \in Items, Cardinality(Draws(i)) <= 1, NEW x \in Draws(i), NEW y \in Draws(i)
  PROVE  x = y
<1> DEFINE D == Draws(i)
           R == D \ {x}
<1>1. D \subseteq {"own", "component", "source"}
  BY DEF Draws
<1>2. IsFiniteSet({"own", "component", "source"})
  <2>1. IsFiniteSet({})
    BY FS_EmptySet
  <2>2. IsFiniteSet({} \cup {"own"})
    BY <2>1, FS_AddElement
  <2>3. IsFiniteSet(({} \cup {"own"}) \cup {"component"})
    BY <2>2, FS_AddElement
  <2>4. IsFiniteSet((({} \cup {"own"}) \cup {"component"}) \cup {"source"})
    BY <2>3, FS_AddElement
  <2>5. (({} \cup {"own"}) \cup {"component"}) \cup {"source"} = {"own", "component", "source"}
    OBVIOUS
  <2> QED BY <2>4, <2>5
<1>3. IsFiniteSet(D) /\ Cardinality(D) \in Nat /\ x \in D /\ Cardinality(D) <= 1
  BY <1>1, <1>2, FS_Subset, FS_CardinalityType
<1>4. IsFiniteSet(R) /\ Cardinality(R) = Cardinality(D) - 1
  BY <1>3, FS_RemoveElement
<1>5. Cardinality(R) \in Nat
  BY <1>4, FS_CardinalityType
<1>6. Cardinality(R) = 0
  BY <1>3, <1>4, <1>5
<1>7. R = {}
  BY <1>4, <1>6, FS_EmptySet
<1> QED BY <1>7

(* The terms of Needed, Planned and Supply. *)
LEMMA TermsOfItem ==
  ASSUME NettingTyped, NEW i \in Items
  PROVE  \E n \in Nat, x \in Nat, g \in Nat, s \in Nat, o \in Nat, c \in Nat, l \in Nat,
             net \in Nat, src \in Nat, dep \in Nat, asked \in Nat :
           /\ n = Nettable(i) /\ x = SumUpTo(Expected(i), LastDay)
           /\ g = SumUpTo(Gross(i), LastDay) /\ s = item[i].safety
           /\ o = SumUpTo(rows.ordered[i], LastDay) /\ c = consumed[i] /\ l = sourceLeft[i]
           /\ net = rows.netted[i] /\ src = rows.sourced[i]
           /\ dep = rows.dependent[i] /\ asked = rows.requested[i]
           /\ Supply(i) = n + x
<1>1. LastDay \in Days
  BY DayAssumption DEF Days
<1>2. item \in [Items -> ItemSite] /\ rows \in RowsOfRun
      /\ consumed \in [Items -> Nat] /\ sourceLeft \in [Items -> Nat]
  BY DEF NettingTyped
<1>3. Nettable(i) \in Nat /\ item[i].safety \in Nat
  BY <1>2, NettableIsNumber, ItemNumbers
<1>4. SumUpTo(Expected(i), LastDay) \in Nat
      /\ Supply(i) = Nettable(i) + SumUpTo(Expected(i), LastDay)
  BY <1>2, SupplyIsNumber
<1>5. SumUpTo(Gross(i), LastDay) \in Nat
  <2>1. 0 \in Int
    OBVIOUS
  <2> QED BY <1>1, <1>2, <2>1, ShortIsNumber
<1>6. PICK f \in [Days -> Nat] : f = rows.ordered[i]
  BY <1>2 DEF RowsOfRun
<1>7. SumUpTo(f, LastDay) \in Nat
  <2>1. f \in [Days -> Int]
    OBVIOUS
  <2> QED BY <1>1, <2>1, UpToTyped
<1>8. rows.netted[i] \in Nat /\ rows.sourced[i] \in Nat /\ rows.dependent[i] \in Nat
      /\ rows.requested[i] \in Nat
  BY <1>2 DEF RowsOfRun
<1> QED BY <1>2, <1>3, <1>4, <1>5, <1>6, <1>7, <1>8

(* What its own walk does not draw is not needed by it: there is no demand of its own, and
   any safety stock is left to the component plan. *)
LEMMA NotDrawnByWalk ==
  ASSUME NettingTyped, NEW i \in Items, item[i].source \in Plannable, "own" \notin Draws(i)
  PROVE  /\ SumUpTo(Gross(i), LastDay) = 0
         /\ item[i].safety = 0 \/ i \in asComponent
<1>1. LastDay \in Days /\ item \in [Items -> ItemSite]
  BY DayAssumption DEF Days, NettingTyped
<1>2. PICK G \in [Days -> Nat], s \in Nat : G = Gross(i) /\ s = item[i].safety
  BY <1>1, GrossIsNumber, ItemNumbers
<1>3. ~ Walked(i) \/ (s = 0 /\ \A d \in Days : G[d] = 0)
  BY <1>2 DEF Draws
<1>4. ~ Walked(i) => i \in asComponent /\ \A d \in Days : G[d] = 0
  BY <1>1, <1>2, GrossIsNumber DEF Walked
<1>5. \A d \in Days : G[d] = 0
  BY <1>3, <1>4
<1>6. SumUpTo(G, LastDay) = 0
  BY <1>1, <1>5, UpToNothing
<1> QED BY <1>2, <1>3, <1>4, <1>6

(* One plan on the stock of an item covers all there is to cover (engine.py:82-90): its own
   walk, its planning as a component (take_component_availability) or as a transfer source
   (take_source_availability). *)
THEOREM OneDrawIsCovered == NettingSpec => []OneDrawCovers
<1>1. NettingInvariant => OneDrawCovers
  <2> SUFFICES ASSUME NettingTyped, OrdersFollowWalks, DrawsCover, Done, failures = 0,
                      NEW i \in Items, item[i].source \in Plannable, Unsolved(i) = {},
                      Cardinality(Draws(i)) <= 1
               PROVE  Supply(i) + Planned(i) >= Needed(i)
    BY DEF OneDrawCovers, NettingInvariant
  <2>1. PICK n \in Nat, x \in Nat, g \in Nat, s \in Nat, o \in Nat, c \in Nat, l \in Nat,
             net \in Nat, src \in Nat, dep \in Nat, asked \in Nat :
           /\ n = Nettable(i) /\ x = SumUpTo(Expected(i), LastDay)
           /\ g = SumUpTo(Gross(i), LastDay) /\ s = item[i].safety
           /\ o = SumUpTo(rows.ordered[i], LastDay) /\ c = consumed[i] /\ l = sourceLeft[i]
           /\ net = rows.netted[i] /\ src = rows.sourced[i]
           /\ dep = rows.dependent[i] /\ asked = rows.requested[i]
           /\ Supply(i) = n + x
    BY TermsOfItem
  <2>2. Clear(rows, i)
    BY DEF Clear, Unsolved
  <2>3. /\ c <= n + x /\ l <= n
        /\ i \in asComponent /\ s > 0 => i \in withSafety
        /\ i \notin asComponent => dep = 0
        /\ dep + (IF i \in withSafety THEN s ELSE 0) <= c + net
        /\ asked <= n - l + src
    <3>1. DrawnOnce(i)
      BY DEF DrawsCover
    <3> QED BY <2>1, <2>2, <3>1 DEF DrawnOnce
  <2>4. /\ i \in asComponent <=> "component" \in Draws(i)
        /\ asked > 0 <=> "source" \in Draws(i)
    BY <2>1 DEF Draws
  <2>5. Supply(i) + Planned(i) >= Needed(i) <=> n + x + (o + net + src) >= g + s + dep + asked
    BY <2>1 DEF Planned, Needed
  <2>6. CASE "own" \in Draws(i)
    <3>1. "component" \notin Draws(i) /\ "source" \notin Draws(i)
      BY <2>6, OnlyDraw
    <3>2. dep = 0 /\ asked = 0
      BY <2>3, <2>4, <3>1
    <3>3. Walked(i)
      BY <2>6 DEF Draws
    <3>4. o >= s + g - n - x
      <4>1. LastDay \in Days /\ item \in [Items -> ItemSite]
        BY DayAssumption DEF Days, NettingTyped
      <4>2. CoversOn(rows.ordered[i], i, LastDay)
        BY <3>3, <4>1, WalkedIsCovered
      <4>3. ShortBy(i, n, LastDay) = s + g - n - x
        BY <2>1, <4>1, ShortIsNumber
      <4> QED BY <2>1, <4>2, <4>3 DEF CoversOn
    <3> QED BY <2>5, <3>2, <3>4
  <2>7. CASE "own" \notin Draws(i)
    <3>1. g = 0 /\ (s = 0 \/ i \in asComponent)
      BY <2>1, <2>7, NotDrawnByWalk
    <3>2. CASE i \in asComponent
      <4>1. asked = 0
        BY <2>4, <3>2, OnlyDraw
      <4> QED BY <2>3, <2>5, <3>1, <3>2, <4>1
    <3>3. CASE i \notin asComponent
      BY <2>3, <2>5, <3>1, <3>3
    <3> QED BY <3>2, <3>3
  <2> QED BY <2>6, <2>7
<1> QED BY <1>1, NettingKeepsTrack, PTL

-----------------------------------------------------------------------------
(* The types of the variables.  An order has operations once it is converted; a request
   has placed those behind it. *)
Converted(o) == order[o].status \notin {"NONE", "SUGGESTED"}
SoFar(r) == LET n == Len(Routing[r.order])
            IN  IF r.mode = "BACKWARD" THEN r.at \in 0 .. n /\ Len(r.slots) = n - r.at
                                       ELSE r.at \in 1 .. n + 1 /\ Len(r.slots) = r.at - 1
Calendars ==
  /\ calendar \in ShopCalendars /\ hist.longest \in ShopCalendars
  /\ \A w \in Centres, d \in Dates : calendar[w][d] <= hist.longest[w][d]
OrderRow == [status : OrderStatuses, start : Int, end : Int, receipt : Int]
SchedulingTyped ==
  /\ Calendars
  /\ order \in [Orders -> OrderRow]
  /\ plan \in [Orders -> Seq(Slots)]
  /\ \A o \in Orders : Len(plan[o]) = IF Converted(o) THEN Len(Routing[o]) ELSE 0
  /\ target \in [Orders -> Int]
  /\ underway \in [Planners -> {NoRequest} \cup Reschedules]
  /\ \A c \in Planners : underway[c] # NoRequest =>
       Converted(underway[c].order) /\ SoFar(underway[c])
  /\ hist \in History

(* Operations follow one another. *)
InOrder(slots) == \A i, j \in DOMAIN slots : i < j => slots[i].end <= slots[j].start

(* So do those placed so far, from the last one back to the one after at, or from the first
   one on to the one before at; the date to go on from lies beyond them. *)
PlacedBack(slots, at, cursor) ==
  \A j \in DOMAIN slots : j > at =>
    /\ cursor <= slots[j].start
    /\ \A i \in DOMAIN slots : at < i /\ i < j => slots[i].end <= slots[j].start
PlacedForth(slots, at, cursor) ==
  \A i \in DOMAIN slots : i < at =>
    /\ slots[i].end <= cursor
    /\ \A j \in DOMAIN slots : i < j /\ j < at => slots[i].end <= slots[j].start
InOrderSoFar(r, slots) ==
  IF r.mode = "BACKWARD" THEN PlacedBack(slots, r.at, r.cursor) ELSE PlacedForth(slots, r.at, r.cursor)

(* One request at a time has placed operations of an order, those it has placed follow one
   another, and all of them do when there is none. *)
Placing(c, o) == underway[c] # NoRequest /\ underway[c].order = o
SequencedAt(o) ==
  /\ \A c, d \in Planners : Placing(c, o) /\ Placing(d, o) => c = d
  /\ \A c \in Planners : Placing(c, o) => InOrderSoFar(underway[c], plan[o])
  /\ (\A c \in Planners : ~ Placing(c, o)) => InOrder(plan[o])
Sequenced == \A o \in Orders \ hist.spoilt : SequencedAt(o)

(* The hours of the open operations of centre w that start and end on day d: no more than
   the longest shift of the day. *)
AllOperations == UNION {{o} \X DOMAIN Routing[o] : o \in Orders}
Within(p, open, w, d, s) ==
  /\ s[1] \in open /\ s[2] \in DOMAIN p[s[1]] /\ Routing[s[1]][s[2]].centre = w
  /\ p[s[1]][s[2]].start = d /\ p[s[1]][s[2]].end = d
HoursWithin(p, open, w, d) ==
  [s \in AllOperations |-> IF Within(p, open, w, d, s) THEN Hours(s[1], s[2]) * Parts ELSE 0]
Roomy(p, open) ==
  \A w \in Finite, d \in Dates :
    SumFunction(HoursWithin(p, open, w, d)) <= Parts * hist.longest[w][d]

SchedulingInvariant == SchedulingTyped /\ Sequenced /\ Roomy(plan, OpenOrders)


(* The last of some dates. *)
LEMMA LatestOf ==
  ASSUME NEW D \in SUBSET Dates, D # {}
  PROVE  Max(D) \in D /\ \A d \in D : d <= Max(D)
<1> DEFINE N == {Horizon - d : d \in D}
<1>1. Horizon \in Nat /\ \A d \in D : d \in Nat /\ Horizon - d \in Nat
  BY PartsAssumption DEF Dates
<1>2. N \in SUBSET Nat /\ N # {}
  BY <1>1
<1> HIDE DEF N
<1>3. PICK n \in N : \A m \in N : n <= m
  BY <1>2, SmallestNumber
<1>4. PICK d \in D : n = Horizon - d
  BY DEF N
<1>5. \A e \in D : e <= d
  <2> SUFFICES ASSUME NEW e \in D PROVE e <= d
    OBVIOUS
  <2>1. Horizon - e \in N
    BY DEF N
  <2>2. Horizon - d <= Horizon - e
    BY <1>3, <1>4, <2>1
  <2> QED BY <1>1, <2>2
<1>6. \E x \in D : \A y \in D : x >= y
  BY <1>1, <1>5
<1>7. Max(D) \in D /\ \A y \in D : Max(D) >= y
  BY <1>6 DEF Max
<1> QED BY <1>1, <1>7

(* The first of some dates. *)
LEMMA EarliestOf ==
  ASSUME NEW D \in SUBSET Dates, D # {}
  PROVE  Min(D) \in D /\ \A d \in D : Min(D) <= d
<1>1. D \in SUBSET Nat
  BY PartsAssumption DEF Dates
<1> QED BY <1>1, LeastOf

(* Among some numbers one is least and one is greatest. *)
LEMMA Extremes ==
  ASSUME NEW n \in Nat \ {0}, NEW f \in [1 .. n -> Int]
  PROVE  /\ \E i \in 1 .. n : \A j \in 1 .. n : f[i] <= f[j]
         /\ \E i \in 1 .. n : \A j \in 1 .. n : f[i] >= f[j]
<1> DEFINE Low(k) == \E i \in 1 .. k : \A j \in 1 .. k : f[i] <= f[j]
           High(k) == \E i \in 1 .. k : \A j \in 1 .. k : f[i] >= f[j]
           Q == {k \in 0 .. n : k = 0 \/ (Low(k) /\ High(k))}
<1>1. 0 \in Q
  OBVIOUS
<1>2. ASSUME NEW k \in 1 .. n, k - 1 \in Q PROVE k \in Q
  <2>1. CASE k = 1
    <3>1. 1 \in 1 .. k /\ f[1] \in Int /\ \A j \in 1 .. k : j = 1
      BY <2>1
    <3>2. \A j \in 1 .. k : f[1] <= f[j] /\ f[1] >= f[j]
      BY <3>1
    <3>3. Low(k)
      BY <3>1, <3>2
    <3>4. High(k)
      BY <3>1, <3>2
    <3>5. k \in 0 .. n
      OBVIOUS
    <3> HIDE DEF Low, High
    <3> QED BY <3>3, <3>4, <3>5
  <2>2. CASE k # 1
    <3>1. PICK a \in 1 .. k - 1, b \in 1 .. k - 1 :
            \A j \in 1 .. k - 1 : f[a] <= f[j] /\ f[b] >= f[j]
      BY <1>2, <2>2
    <3>2. \A j \in 1 .. k : j \in 1 .. k - 1 \/ j = k
      OBVIOUS
    <3>3. \A j \in 1 .. k : f[j] \in Int
      OBVIOUS
    <3>4. k \in 1 .. k /\ a \in 1 .. k /\ b \in 1 .. k
      OBVIOUS
    <3>5. Low(k)
      <4>1. CASE f[a] <= f[k]
        BY <3>1, <3>2, <3>4, <4>1
      <4>2. CASE ~ (f[a] <= f[k])
        <5>1. \A j \in 1 .. k : f[k] <= f[j]
          BY <3>1, <3>2, <3>3, <3>4, <4>2
        <5> QED BY <5>1, <3>4
      <4> QED BY <4>1, <4>2
    <3>6. High(k)
      <4>1. CASE f[b] >= f[k]
        BY <3>1, <3>2, <3>4, <4>1
      <4>2. CASE ~ (f[b] >= f[k])
        <5>1. \A j \in 1 .. k : f[k] >= f[j]
          BY <3>1, <3>2, <3>3, <3>4, <4>2
        <5> QED BY <5>1, <3>4
      <4> QED BY <4>1, <4>2
    <3> QED BY <3>5, <3>6
  <2> QED BY <2>1, <2>2
<1>3. n \in Q
  <2>1. n \in 0 .. n
    OBVIOUS
  <2> HIDE DEF Q
  <2> QED BY <1>1, <1>2, <2>1, IndexInduction
<1> QED BY <1>3

(* The first start and the last end are dates (min(starts), max(ends)). *)
LEMMA EndsAreNumbers ==
  ASSUME NEW s \in Seq(Slots), s # <<>>
  PROVE  FirstStart(s) \in Int /\ LastEnd(s) \in Int
<1>1. PICK n \in Nat \ {0} : n = Len(s) /\ DOMAIN s = 1 .. n /\ \A i \in 1 .. n : s[i] \in Slots
  OBVIOUS
<1> DEFINE f == [i \in 1 .. n |-> s[i].start]
           g == [i \in 1 .. n |-> s[i].end]
           F == {s[i].start : i \in DOMAIN s}
           G == {s[i].end : i \in DOMAIN s}
<1>2. f \in [1 .. n -> Int] /\ g \in [1 .. n -> Int]
  BY <1>1 DEF Slots
<1>3. F = {f[i] : i \in 1 .. n} /\ G = {g[i] : i \in 1 .. n}
  BY <1>1
<1> HIDE DEF f, g
<1>4. (\E i \in 1 .. n : \A j \in 1 .. n : f[i] <= f[j])
      /\ (\E i \in 1 .. n : \A j \in 1 .. n : g[i] >= g[j])
  BY <1>2, Extremes
<1>5. PICK a \in 1 .. n, b \in 1 .. n : \A j \in 1 .. n : f[a] <= f[j] /\ g[b] >= g[j]
  BY <1>4
<1>8. f[a] \in F /\ g[b] \in G
  BY <1>3
<1>9. (\A y \in F : f[a] <= y) /\ (\A y \in G : g[b] >= y)
  BY <1>3, <1>5
<1> HIDE DEF F, G
<1>10. (\E x \in F : \A y \in F : x <= y) /\ (\E x \in G : \A y \in G : x >= y)
  BY <1>8, <1>9
<1>6. Min(F) \in F /\ Max(G) \in G
  BY <1>10 DEF Min, Max
<1>7. Min(F) \in Int /\ Max(G) \in Int
  BY <1>2, <1>3, <1>6
<1> QED BY <1>7 DEF FirstStart, LastEnd, F, G

(* A product of naturals is one. *)
LEMMA TimesNatural == ASSUME NEW a \in Nat, NEW b \in Nat PROVE a * b \in Nat
OBVIOUS

(* The routing an order is made by. *)
LEMMA RoutingTyped ==
  ASSUME NEW o \in Orders
  PROVE  /\ Routing[o] \in Seq(RoutingOperation) /\ Len(Routing[o]) \in Nat \ {0}
         /\ DOMAIN Routing[o] = 1 .. Len(Routing[o])
         /\ \A i \in DOMAIN Routing[o] : Routing[o][i] \in RoutingOperation
<1>1. FindActiveRouting(o) \in ActiveRoutings(o)
  BY RoutingAssumption DEF FindActiveRouting
<1>2. FindActiveRouting(o) \in RoutingHeader
  BY <1>1, RowAssumption DEF ActiveRoutings
<1>3. Routing[o] = FindActiveRouting(o).operations
  BY DEF Routing
<1>4. Routing[o] \in Seq(RoutingOperation) /\ Routing[o] # <<>>
  BY <1>2, <1>3, RoutingAssumption DEF RoutingHeader
<1> QED BY <1>4

(* What a routing operation takes, and where. *)
LEMMA HoursTyped ==
  ASSUME NEW o \in Orders, NEW i \in DOMAIN Routing[o]
  PROVE  /\ Hours(o, i) \in Nat /\ Hours(o, i) * Parts \in Nat
         /\ Routing[o][i].centre \in Centres \cup {NoCentre}
<1>1. /\ Routing[o][i].setup \in Nat /\ Routing[o][i].run \in Nat
      /\ Routing[o][i].centre \in Centres \cup {NoCentre}
  BY RoutingTyped DEF RoutingOperation
<1>2. Quantity[o] \in Nat
  BY RowAssumption
<1>3. Routing[o][i].run * Quantity[o] \in Nat
  BY <1>1, <1>2, TimesNatural
<1>4. Hours(o, i) \in Nat
  BY <1>1, <1>3 DEF Hours
<1>5. Hours(o, i) * Parts \in Nat
  BY <1>4, PartsAssumption, TimesNatural
<1> QED BY <1>1, <1>4, <1>5

(* A centre can work some hours of a day. *)
LEMMA CapacityTyped ==
  ASSUME NEW w \in Centres
  PROVE  /\ Capacity[w] \in Nat \ {0} /\ Centre[w].finite \in BOOLEAN /\ Parts * Capacity[w] \in Nat
<1>1. Centre[w] \in WorkCentre
  BY CentreAssumption
<1>2. Capacity[w] \in Nat \ {0} /\ Centre[w].finite \in BOOLEAN
  BY <1>1 DEF Capacity, WorkCentre
<1>3. Parts * Capacity[w] \in Nat
  BY <1>2, PartsAssumption, TimesNatural
<1> QED BY <1>2, <1>3

(* So it can on any day of its calendar, and at most the longest shift of that day. *)
LEMMA TimesMonotone == ASSUME NEW a \in Nat, NEW b \in Nat, NEW c \in Nat, a <= b PROVE c * a <= c * b
OBVIOUS
LEMMA ShiftTyped ==
  ASSUME Calendars, NEW w \in Centres, NEW d \in Dates
  PROVE  /\ calendar[w][d] \in Nat /\ hist.longest[w][d] \in Nat
         /\ Parts * calendar[w][d] \in Nat /\ Parts * hist.longest[w][d] \in Nat
         /\ Parts * calendar[w][d] <= Parts * hist.longest[w][d]
<1>1. PICK a \in Nat, b \in Nat : a = calendar[w][d] /\ b = hist.longest[w][d] /\ a <= b
  BY DEF Calendars, ShopCalendars
<1>2. Parts * a \in Nat /\ Parts * b \in Nat
  BY PartsAssumption, TimesNatural
<1>3. Parts * a <= Parts * b
  BY <1>1, PartsAssumption, TimesMonotone
<1> QED BY <1>1, <1>2, <1>3

LEMMA PerDayTyped ==
  ASSUME NEW w \in Centres \cup {NoCentre} PROVE PerDay(w) \in Nat \ {0}
<1>1. CASE w = NoCentre
  BY <1>1 DEF PerDay
<1>2. CASE w # NoCentre
  BY <1>2, CapacityTyped DEF PerDay
<1> QED BY <1>1, <1>2

(* Hours take a day or more. *)
LEMMA DaysTaken ==
  ASSUME NEW hours \in Nat, NEW perDay \in Nat \ {0}
  PROVE  HoursToDays(hours, perDay) \in Nat \ {0}
<1> DEFINE a == hours + perDay - 1
<1>1. a \in Int /\ perDay \in Nat /\ perDay > 0
  OBVIOUS
<1> HIDE DEF a
<1>2. a \div perDay \in Int
  BY <1>1
<1> QED BY <1>2 DEF HoursToDays, a

(* Operation i and those behind it take its own days and those of the ones behind it. *)
LEMMA DaysFromNext ==
  ASSUME NEW o \in Orders, NEW i \in DOMAIN Routing[o]
  PROVE  /\ DaysFrom(o, i) \in Nat /\ DaysFrom(o, i + 1) \in Nat
         /\ DaysFrom(o, i + 1) < DaysFrom(o, i)
<1> DEFINE days(j) == HoursToDays(Hours(o, j), PerDay(Routing[o][j].centre))
<1>1. PICK n \in Nat \ {0} : n = Len(Routing[o]) /\ DOMAIN Routing[o] = 1 .. n
  BY RoutingTyped
<1>2. \A j \in 1 .. n : days(j) \in Nat \ {0}
  BY <1>1, HoursTyped, PerDayTyped, DaysTaken
<1> HIDE DEF days
<1>3. i \in Int /\ i \in 1 .. n /\ n \in Int
  BY <1>1
<1> DEFINE S == i .. n
           T == (i + 1) .. n
           f == [j \in S |-> days(j)]
           g == [j \in T |-> days(j)]
<1>4. IsFiniteSet(S) /\ IsFiniteSet(T)
  <2>1. i + 1 \in Int
    BY <1>3
  <2> QED BY <1>3, <2>1, FS_Interval, ZenonT(30)
<1>5. f \in [S -> Nat] /\ g \in [T -> Nat] /\ f \in [S -> Int] /\ g \in [T -> Int]
  BY <1>2, <1>3
<1>6. T = S \ {i} /\ i \in S /\ (\A j \in T : g[j] = f[j]) /\ f[i] = days(i)
  BY <1>3
<1>7. DaysFrom(o, i) = SumFunction(f) /\ DaysFrom(o, i + 1) = SumFunction(g)
  BY <1>1 DEF DaysFrom, days
<1> HIDE DEF f, g, S, T
<1>8. SumFunction(f) = SumFunction(g) + f[i]
  BY <1>4, <1>5, <1>6, SumRemove
<1>9. SumFunction(f) \in Nat /\ SumFunction(g) \in Nat
  BY <1>4, <1>5, SumNatural
<1>10. f[i] \in Nat \ {0}
  BY <1>2, <1>3, <1>6
<1> QED BY <1>7, <1>8, <1>9, <1>10

(* The further on in the routing, the fewer days are left. *)
LEMMA DaysFromLater ==
  ASSUME NEW o \in Orders, NEW i \in DOMAIN Routing[o], NEW j \in DOMAIN Routing[o], i <= j
  PROVE  DaysFrom(o, j) <= DaysFrom(o, i)
<1> DEFINE Q == {k \in 0 .. Len(Routing[o]) : i + k \in DOMAIN Routing[o] => DaysFrom(o, i + k) <= DaysFrom(o, i)}
<1>1. PICK n \in Nat : n = Len(Routing[o]) /\ DOMAIN Routing[o] = 1 .. n
  BY RoutingTyped
<1>2. \A k \in DOMAIN Routing[o] : DaysFrom(o, k) \in Int
  BY DaysFromNext
<1>3. 0 \in Q
  <2>1. i + 0 = i /\ DaysFrom(o, i) \in Int /\ i \in Int
    BY <1>1, <1>2
  <2>2. DaysFrom(o, i + 0) <= DaysFrom(o, i)
    BY <2>1
  <2> QED BY <1>1, <2>2
<1>4. ASSUME NEW k \in 1 .. n, k - 1 \in Q PROVE k \in Q
  <2>1. CASE i + k \in DOMAIN Routing[o]
    <3>1. i + (k - 1) \in DOMAIN Routing[o] /\ (i + (k - 1)) + 1 = i + k
      BY <1>1, <2>1
    <3>2. DaysFrom(o, i + (k - 1)) <= DaysFrom(o, i)
      BY <1>4, <3>1
    <3>3. PICK m \in DOMAIN Routing[o] : m = i + (k - 1)
      BY <3>1
    <3>4. DaysFrom(o, m + 1) < DaysFrom(o, m) /\ m + 1 = i + k
      BY <3>1, <3>3, DaysFromNext
    <3>5. DaysFrom(o, i + k) < DaysFrom(o, m) /\ DaysFrom(o, m) <= DaysFrom(o, i)
      BY <3>2, <3>3, <3>4
    <3>6. DaysFrom(o, i + k) <= DaysFrom(o, i)
      BY <1>2, <2>1, <3>5
    <3> QED BY <1>1, <3>6
  <2> QED BY <1>1, <2>1
<1>5. j - i \in 0 .. n /\ i + (j - i) = j
  BY <1>1
<1> HIDE DEF Q
<1>6. j - i \in Q
  BY <1>1, <1>3, <1>4, <1>5, IndexInduction
<1>7. DaysFrom(o, i + (j - i)) <= DaysFrom(o, i)
  BY <1>5, <1>6 DEF Q
<1> QED BY <1>5, <1>7

(* The rough-cut dates follow one another, and no operation takes less than a day. *)
LEMMA RoughCutFollows ==
  ASSUME NEW o \in Orders, order[o].end \in Int
  PROVE  /\ RoughCut(o) \in Seq(Slots) /\ Len(RoughCut(o)) = Len(Routing[o])
         /\ DOMAIN RoughCut(o) = DOMAIN Routing[o]
         /\ InOrder(RoughCut(o))
         /\ \A i \in DOMAIN Routing[o] : RoughCut(o)[i].start < RoughCut(o)[i].end
<1>1. PICK n \in Nat : n = Len(Routing[o]) /\ DOMAIN Routing[o] = 1 .. n
  BY RoutingTyped
<1>2. PICK e \in Int : e = order[o].end
  OBVIOUS
<1>3. PICK r : r = RoughCut(o)
  OBVIOUS
<1>4. r = [i \in 1 .. n |-> [start |-> e - DaysFrom(o, i), end |-> e - DaysFrom(o, i + 1)]]
  BY <1>1, <1>2, <1>3 DEF RoughCut
<1>5. \A i \in 1 .. n : /\ DaysFrom(o, i) \in Int /\ DaysFrom(o, i + 1) \in Int
                        /\ DaysFrom(o, i + 1) < DaysFrom(o, i)
  <2> SUFFICES ASSUME NEW i \in 1 .. n
               PROVE  /\ DaysFrom(o, i) \in Int /\ DaysFrom(o, i + 1) \in Int
                      /\ DaysFrom(o, i + 1) < DaysFrom(o, i)
    OBVIOUS
  <2>1. i \in DOMAIN Routing[o]
    BY <1>1
  <2> QED BY <2>1, DaysFromNext
<1>6. \A i \in 1 .. n : r[i] \in Slots /\ r[i].start < r[i].end
  BY <1>4, <1>5 DEF Slots
<1>7. r \in Seq(Slots) /\ Len(r) = n /\ DOMAIN r = 1 .. n
  BY <1>4, <1>6
<1>8. ASSUME NEW i \in 1 .. n, NEW j \in 1 .. n, i < j PROVE r[i].end <= r[j].start
  <2>1. PICK k \in 1 .. n : k = i + 1
    BY <1>8
  <2>2. k <= j
    BY <1>8, <2>1
  <2>3. DaysFrom(o, j) <= DaysFrom(o, k)
    BY <1>1, <2>2, DaysFromLater
  <2>4. r[i].end = e - DaysFrom(o, k) /\ r[j].start = e - DaysFrom(o, j)
    BY <1>4, <2>1
  <2>5. DaysFrom(o, k) \in Int /\ DaysFrom(o, j) \in Int
    BY <1>5
  <2> QED BY <2>3, <2>4, <2>5
<1>9. InOrder(r)
  BY <1>7, <1>8 DEF InOrder
<1> QED BY <1>1, <1>3, <1>6, <1>7, <1>9

(* The release date of a rough plan is a date. *)
LEMMA RoughReleaseTyped ==
  ASSUME NEW o \in Orders PROVE RoughRelease(o) \in Int
<1>1. PICK n \in Nat : n = Len(Routing[o]) /\ DOMAIN Routing[o] = 1 .. n
  BY RoutingTyped
<1> DEFINE f == [i \in 1 .. n |-> Hours(o, i)]
           caps == {Capacity[Routing[o][i].centre] :
                      i \in {j \in DOMAIN Routing[o] : Routing[o][j].centre # NoCentre}}
           per == IF caps = {} THEN 8 ELSE Min(caps)
<1>2. f \in [1 .. n -> Nat] /\ IsFiniteSet(1 .. n)
  <2>1. \A i \in 1 .. n : Hours(o, i) \in Nat
    BY <1>1, HoursTyped
  <2>2. 1 \in Int /\ n \in Int
    OBVIOUS
  <2>3. IsFiniteSet(1 .. n)
    BY <2>2, FS_Interval, ZenonT(30)
  <2> QED BY <2>1, <2>3
<1>3. RoutingDuration(o) = SumFunction(f)
  BY <1>1 DEF RoutingDuration
<1> HIDE DEF f
<1>4. RoutingDuration(o) \in Nat
  BY <1>2, <1>3, SumNatural
<1>5. \A i \in DOMAIN Routing[o] : Routing[o][i].centre # NoCentre =>
        Capacity[Routing[o][i].centre] \in Nat \ {0}
  BY HoursTyped, CapacityTyped
<1>6. caps \in SUBSET Nat /\ 0 \notin caps
  BY <1>5
<1> HIDE DEF caps
<1>7. per \in Nat \ {0}
  <2>1. CASE caps = {}
    BY <2>1
  <2>2. CASE caps # {}
    <3>1. Min(caps) \in caps
      BY <1>6, <2>2, LeastOf
    <3> QED BY <1>6, <2>2, <3>1
  <2> QED BY <2>1, <2>2
<1>8. RoughRelease(o) = Due[o] - HoursToDays(RoutingDuration(o), per)
  BY DEF RoughRelease, caps
<1>9. PICK days \in Nat : days = HoursToDays(RoutingDuration(o), per)
  BY <1>4, <1>7, DaysTaken
<1>10. Due[o] \in Nat
  BY RowAssumption
<1> QED BY <1>8, <1>9, <1>10

(* A sum grows with its summands. *)
LEMMA SumAtMost ==
  ASSUME NEW S, IsFiniteSet(S), NEW f \in [S -> Int], NEW h \in [S -> Int], \A x \in S : f[x] <= h[x]
  PROVE  SumFunction(f) <= SumFunction(h)
<1> DEFINE d == [x \in S |-> h[x] - f[x]]
<1>1. d \in [S -> Nat] /\ d \in [S -> Int] /\ \A x \in S : h[x] = f[x] + d[x]
  OBVIOUS
<1> HIDE DEF d
<1>2. SumFunction(h) = SumFunction(f) + SumFunction(d)
  BY <1>1, SumPlus
<1>3. SumFunction(d) \in Nat /\ SumFunction(f) \in Int
  BY <1>1, SumNatural, SumInteger
<1> QED BY <1>2, <1>3

(* A quotient of naturals is one. *)
LEMMA QuotientNatural == ASSUME NEW a \in Nat, NEW b \in Nat \ {0} PROVE a \div b \in Nat
OBVIOUS

(* The operations there are, with the dates of those of some orders. *)
Dated(p) == p \in [Orders -> Seq(Slots)] /\ \A o \in Orders : DOMAIN p[o] \subseteq DOMAIN Routing[o]

LEMMA OperationsFinite ==
  /\ IsFiniteSet(AllOperations)
  /\ \A s : s \in AllOperations <=>
       \E o \in Orders : \E i \in DOMAIN Routing[o] : s = <<o, i>>
<1>1. \A o \in Orders : IsFiniteSet({o} \X DOMAIN Routing[o])
  <2> SUFFICES ASSUME NEW o \in Orders PROVE IsFiniteSet({o} \X DOMAIN Routing[o])
    OBVIOUS
  <2>1. PICK n \in Nat : DOMAIN Routing[o] = 1 .. n
    BY RoutingTyped
  <2>2. 1 \in Int /\ n \in Int
    OBVIOUS
  <2>3. IsFiniteSet(1 .. n)
    BY <2>2, FS_Interval, ZenonT(30)
  <2>4. IsFiniteSet({o})
    BY FS_Singleton
  <2> QED BY <2>1, <2>3, <2>4, FS_Product
<1> DEFINE pairs == {{o} \X DOMAIN Routing[o] : o \in Orders}
<1>2. IsFiniteSet(pairs)
  <2> DEFINE row == [o \in Orders |-> {o} \X DOMAIN Routing[o]]
  <2>1. row \in Surjection(Orders, pairs)
    BY DEF Surjection
  <2> HIDE DEF row, pairs
  <2> QED BY <2>1, OrdersAssumption, FS_Surjection
<1>3. \A s \in pairs : IsFiniteSet(s)
  BY <1>1
<1>4. AllOperations = UNION pairs
  BY DEF AllOperations
<1> HIDE DEF pairs
<1>5. IsFiniteSet(AllOperations)
  BY <1>2, <1>3, <1>4, FS_UNION
<1>6. \A s : s \in AllOperations <=> \E o \in Orders : \E i \in DOMAIN Routing[o] : s = <<o, i>>
  BY DEF AllOperations
<1> QED BY <1>5, <1>6

(* An operation's share of a day it covers is a number, and all of its hours if there is
   no other day. *)
LEMMA ShareTyped ==
  ASSUME Calendars, NEW w \in Centres, NEW d \in Workdays(w), NEW slot \in Slots, Covers(slot, d),
         NEW hours \in Nat
  PROVE  /\ Share(w, slot, hours) \in Nat
         /\ slot.start = slot.end => Share(w, slot, hours) = hours * Parts
<1> DEFINE days == Workdays(w) \cap (slot.start .. slot.end)
<1>1. hours * Parts \in Nat
  BY PartsAssumption, TimesNatural
<1>2. IsFiniteSet(days)
  <2>1. 1 \in Int /\ Horizon \in Int
    BY PartsAssumption
  <2>2. IsFiniteSet(Dates)
    BY <2>1, FS_Interval, ZenonT(30) DEF Dates
  <2>3. days \in SUBSET Dates
    BY DEF Workdays
  <2> QED BY <2>2, <2>3, FS_Subset
<1>3. d \in days /\ d \in Int
  <2>1. slot.start \in Int /\ slot.end \in Int
    BY DEF Slots
  <2>2. d \in Int
    BY PartsAssumption DEF Workdays, Dates
  <2> QED BY <2>1, <2>2 DEF Covers
<1>4. slot.start = slot.end => days = {d}
  <2>1. slot.start \in Int /\ slot.end \in Int
    BY DEF Slots
  <2> QED BY <1>3, <2>1
<1>5. Share(w, slot, hours) = (hours * Parts) \div Cardinality(days)
  BY DEF Share
<1> HIDE DEF days
<1>6. Cardinality(days) \in Nat \ {0}
  BY <1>2, <1>3, FS_CardinalityType, FS_EmptySet
<1>7. Share(w, slot, hours) \in Nat
  BY <1>1, <1>5, <1>6, QuotientNatural
<1>8. ASSUME slot.start = slot.end PROVE Share(w, slot, hours) = hours * Parts
  <2>1. Cardinality(days) = 1
    BY <1>4, <1>8, FS_Singleton
  <2>2. PICK m \in Nat : m = hours * Parts
    BY <1>1
  <2>3. Share(w, slot, hours) = m \div 1
    BY <1>5, <2>1, <2>2
  <2> QED BY <2>2, <2>3
<1> QED BY <1>7, <1>8

(* The operations committed on a day, and what each takes of it. *)
CommittedOn(p, open, w, d, except) ==
  {s \in OperationsOf(p, open) \ {except} :
     Routing[s[1]][s[2]].centre = w /\ Covers(p[s[1]][s[2]], d)}
ShareOf(p, w, s) == Share(w, p[s[1]][s[2]], Hours(s[1], s[2]))
Shares(p, open, w, d, except) ==
  [s \in AllOperations |-> IF s \in CommittedOn(p, open, w, d, except) THEN ShareOf(p, w, s) ELSE 0]

(* The committed operations are operations, with dates and a share. *)
LEMMA CommittedOperation ==
  ASSUME Calendars, NEW p, Dated(p), NEW open \in SUBSET Orders, NEW w \in Centres,
         NEW d \in Workdays(w), NEW except, NEW s \in CommittedOn(p, open, w, d, except)
  PROVE  /\ s \in AllOperations /\ s[1] \in open /\ s[2] \in DOMAIN p[s[1]]
         /\ p[s[1]][s[2]] \in Slots /\ Routing[s[1]][s[2]].centre = w
         /\ Covers(p[s[1]][s[2]], d) /\ ShareOf(p, w, s) \in Nat
         /\ p[s[1]][s[2]].start = p[s[1]][s[2]].end =>
              ShareOf(p, w, s) = Hours(s[1], s[2]) * Parts
<1>1. PICK o \in open : s \in {o} \X DOMAIN p[o]
  BY DEF CommittedOn, OperationsOf
<1>2. PICK i \in DOMAIN p[o] : s = <<o, i>> /\ s[1] = o /\ s[2] = i
  BY <1>1
<1>3. i \in DOMAIN Routing[o] /\ p[o] \in Seq(Slots)
  BY DEF Dated
<1>4. p[o][i] \in Slots
  BY <1>3
<1>5. Routing[o][i].centre = w /\ Covers(p[o][i], d)
  BY <1>2 DEF CommittedOn
<1>6. s \in AllOperations
  BY <1>2, <1>3, OperationsFinite
<1>7. Hours(o, i) \in Nat
  BY <1>3, HoursTyped
<1>8. PICK slot \in Slots, hours \in Nat : slot = p[o][i] /\ hours = Hours(o, i)
  BY <1>4, <1>7
<1>9. Share(w, slot, hours) \in Nat /\ (slot.start = slot.end => Share(w, slot, hours) = hours * Parts)
  BY <1>5, <1>8, ShareTyped
<1> QED BY <1>2, <1>4, <1>5, <1>6, <1>8, <1>9 DEF ShareOf

(* What is committed is the sum of those shares over all operations. *)
LEMMA CommittedIsSum ==
  ASSUME Calendars, NEW p, Dated(p), NEW open \in SUBSET Orders, NEW w \in Centres,
         NEW d \in Workdays(w), NEW except
  PROVE  /\ Shares(p, open, w, d, except) \in [AllOperations -> Nat]
         /\ Committed(p, open, w, d, except) = SumFunction(Shares(p, open, w, d, except))
         /\ Committed(p, open, w, d, except) \in Nat
<1>1. PICK T : T = CommittedOn(p, open, w, d, except)
  OBVIOUS
<1>2. T \in SUBSET AllOperations /\ \A s \in T : ShareOf(p, w, s) \in Nat
  BY <1>1, CommittedOperation
<1> DEFINE f == [s \in T |-> ShareOf(p, w, s)]
           h == Shares(p, open, w, d, except)
<1>3. f \in [T -> Int] /\ h \in [AllOperations -> Nat] /\ h \in [AllOperations -> Int]
  BY <1>1, <1>2 DEF Shares
<1>4. \A s \in AllOperations : h[s] = IF s \in T THEN f[s] ELSE 0
  BY <1>1 DEF Shares
<1>5. Committed(p, open, w, d, except) = SumFunction(f)
  BY <1>1 DEF Committed, CommittedOn, ShareOf
<1> HIDE DEF f, h
<1>8. IsFiniteSet(AllOperations)
  BY OperationsFinite
<1>6. SumFunction(f) = SumFunction(h)
  BY <1>2, <1>3, <1>4, <1>8, SumSubset
<1>7. SumFunction(h) \in Nat
  BY <1>3, OperationsFinite, SumNatural
<1> QED BY <1>3, <1>5, <1>6, <1>7 DEF h

(* The hours of the one-day operations are numbers. *)
LEMMA HoursWithinTyped ==
  ASSUME NEW p, NEW open, NEW w, NEW d
  PROVE  HoursWithin(p, open, w, d) \in [AllOperations -> Nat]
<1>1. ASSUME NEW s \in AllOperations PROVE Hours(s[1], s[2]) * Parts \in Nat
  <2>1. PICK o \in Orders : \E i \in DOMAIN Routing[o] : s = <<o, i>>
    BY OperationsFinite
  <2>2. PICK i \in DOMAIN Routing[o] : s = <<o, i>> /\ s[1] = o /\ s[2] = i
    BY <2>1
  <2>3. Hours(o, i) * Parts \in Nat
    BY HoursTyped
  <2> QED BY <2>2, <2>3
<1> QED BY <1>1 DEF HoursWithin

(* Those of the other operations are committed on a working day ... *)
OtherHours(p, open, w, d, except) ==
  [s \in AllOperations |-> IF s = except THEN 0 ELSE HoursWithin(p, open, w, d)[s]]
LEMMA CommittedAtLeast ==
  ASSUME Calendars, NEW p, Dated(p), NEW open \in SUBSET Orders, NEW w \in Centres,
         NEW d \in Workdays(w), NEW except
  PROVE  SumFunction(OtherHours(p, open, w, d, except)) <= Committed(p, open, w, d, except)
<1> DEFINE g == OtherHours(p, open, w, d, except)
           h == Shares(p, open, w, d, except)
<1>1. /\ h \in [AllOperations -> Nat] /\ h \in [AllOperations -> Int]
      /\ Committed(p, open, w, d, except) = SumFunction(h)
  BY CommittedIsSum
<1>2. g \in [AllOperations -> Int]
  BY HoursWithinTyped DEF OtherHours
<1>3. ASSUME NEW s \in AllOperations PROVE g[s] <= h[s]
  <2>1. CASE s = except \/ ~ Within(p, open, w, d, s)
    <3>1. g[s] = 0
      BY <2>1 DEF OtherHours, HoursWithin
    <3> QED BY <1>1, <3>1
  <2>2. CASE s # except /\ Within(p, open, w, d, s)
    <3>1. g[s] = Hours(s[1], s[2]) * Parts
      BY <2>2 DEF OtherHours, HoursWithin
    <3>2. d \in Int
      BY PartsAssumption DEF Workdays, Dates
    <3>3. s \in CommittedOn(p, open, w, d, except)
      <4>1. PICK o \in Orders : \E i \in DOMAIN Routing[o] : s = <<o, i>>
        BY OperationsFinite
      <4>2. PICK i : s = <<o, i>> /\ s[1] = o /\ s[2] = i
        BY <4>1
      <4>3. /\ o \in open /\ i \in DOMAIN p[o] /\ Routing[o][i].centre = w
            /\ p[o][i].start = d /\ p[o][i].end = d
        BY <2>2, <4>2 DEF Within
      <4>4. s \in OperationsOf(p, open)
        BY <4>2, <4>3 DEF OperationsOf
      <4> QED BY <2>2, <3>2, <4>2, <4>3, <4>4 DEF CommittedOn, Covers
    <3>4. p[s[1]][s[2]].start = p[s[1]][s[2]].end
      BY <2>2 DEF Within
    <3>5. ShareOf(p, w, s) = Hours(s[1], s[2]) * Parts /\ ShareOf(p, w, s) \in Nat
      BY <3>3, <3>4, CommittedOperation
    <3>6. h[s] = ShareOf(p, w, s)
      BY <3>3 DEF Shares
    <3> QED BY <3>1, <3>5, <3>6
  <2> QED BY <2>1, <2>2
<1> HIDE DEF g, h
<1>4. SumFunction(g) <= SumFunction(h)
  BY <1>1, <1>2, <1>3, OperationsFinite, SumAtMost
<1> QED BY <1>1, <1>4 DEF g

(* ... and nothing else is when no operation spans several days. *)
LEMMA CommittedAtMost ==
  ASSUME Calendars, NEW p, Dated(p), NEW open \in SUBSET Orders, NEW w \in Centres,
         NEW d \in Workdays(w), NEW except,
         \A s \in CommittedOn(p, open, w, d, except) :
           ~ (p[s[1]][s[2]].start < p[s[1]][s[2]].end)
  PROVE  Committed(p, open, w, d, except) <= SumFunction(HoursWithin(p, open, w, d))
<1> DEFINE g == HoursWithin(p, open, w, d)
           h == Shares(p, open, w, d, except)
<1>1. /\ h \in [AllOperations -> Int]
      /\ Committed(p, open, w, d, except) = SumFunction(h)
  BY CommittedIsSum
<1>2. g \in [AllOperations -> Nat] /\ g \in [AllOperations -> Int]
  BY HoursWithinTyped
<1>3. ASSUME NEW s \in AllOperations PROVE h[s] <= g[s]
  <2>1. CASE s \notin CommittedOn(p, open, w, d, except)
    <3>1. h[s] = 0
      BY <2>1 DEF Shares
    <3> QED BY <1>2, <3>1
  <2>2. CASE s \in CommittedOn(p, open, w, d, except)
    <3>1. h[s] = ShareOf(p, w, s)
      BY <2>2 DEF Shares
    <3>2. /\ s[1] \in open /\ s[2] \in DOMAIN p[s[1]] /\ p[s[1]][s[2]] \in Slots
          /\ Routing[s[1]][s[2]].centre = w /\ Covers(p[s[1]][s[2]], d) /\ ShareOf(p, w, s) \in Nat
          /\ p[s[1]][s[2]].start = p[s[1]][s[2]].end => ShareOf(p, w, s) = Hours(s[1], s[2]) * Parts
      BY <2>2, CommittedOperation
    <3>3. p[s[1]][s[2]].start \in Int /\ p[s[1]][s[2]].end \in Int
      BY <3>2 DEF Slots
    <3>4. d \in Int
      BY PartsAssumption DEF Workdays, Dates
    <3>5. p[s[1]][s[2]].start = d /\ p[s[1]][s[2]].end = d
      BY <2>2, <3>2, <3>3, <3>4 DEF Covers
    <3>6. Within(p, open, w, d, s)
      BY <3>2, <3>5 DEF Within
    <3>7. g[s] = Hours(s[1], s[2]) * Parts
      BY <3>6 DEF HoursWithin
    <3>8. h[s] = g[s] /\ g[s] \in Nat
      BY <1>2, <3>1, <3>2, <3>5, <3>7
    <3> QED BY <3>8
  <2> QED BY <2>1, <2>2
<1> HIDE DEF g, h
<1>4. SumFunction(h) <= SumFunction(g)
  BY <1>1, <1>2, <1>3, OperationsFinite, SumAtMost
<1> QED BY <1>1, <1>4 DEF g

(* A day's room is what is not committed. *)
LEMMA RoomTyped ==
  ASSUME Calendars, NEW p, Dated(p), NEW open \in SUBSET Orders, NEW w \in Centres, NEW except
  PROVE  /\ Room(p, open, w, except) \in [Dates -> Nat]
         /\ \A d \in Dates : Room(p, open, w, except)[d] > 0 =>
              /\ d \in Workdays(w)
              /\ w \in Finite => Room(p, open, w, except)[d] + Committed(p, open, w, d, except)
                                    <= Parts * calendar[w][d]
<1>1. \A d \in Dates : Parts * calendar[w][d] \in Nat /\ calendar[w][d] \in Nat
  BY ShiftTyped
<1>2. \A d \in Workdays(w) : Committed(p, open, w, d, except) \in Nat
  BY CommittedIsSum
<1>3. PICK room : room = Room(p, open, w, except)
  OBVIOUS
<1>4. room = [d \in Dates |->
        LET load == IF w \in Finite THEN Committed(p, open, w, d, except) ELSE 0
        IN  IF load < Parts * calendar[w][d] THEN Parts * calendar[w][d] - load ELSE 0]
  BY <1>3 DEF Room
<1>5. ASSUME NEW d \in Dates
      PROVE  /\ room[d] \in Nat
             /\ room[d] > 0 =>
                  /\ d \in Workdays(w)
                  /\ w \in Finite =>
                       room[d] + Committed(p, open, w, d, except) <= Parts * calendar[w][d]
  <2>1. PICK cap \in Nat : cap = Parts * calendar[w][d]
    BY <1>1
  <2>2. PICK load : load = IF w \in Finite THEN Committed(p, open, w, d, except) ELSE 0
    OBVIOUS
  <2>3. room[d] = IF load < cap THEN cap - load ELSE 0
    BY <1>4, <2>1, <2>2
  <2>4. CASE d \in Workdays(w)
    BY <1>2, <2>1, <2>2, <2>3, <2>4
  <2>5. CASE d \notin Workdays(w)
    <3>1. calendar[w][d] = 0
      BY <1>1, <2>5 DEF Workdays
    <3>2. cap = 0
      BY <2>1, <3>1, PartsAssumption
    <3>3. load = 0
      BY <2>2, <2>5 DEF Committed
    <3> QED BY <2>3, <3>2, <3>3
  <2> QED BY <2>4, <2>5
<1>6. DOMAIN room = Dates /\ room = [d \in Dates |-> room[d]]
  BY <1>4
<1>7. room \in [Dates -> Nat]
  BY <1>5, <1>6
<1> QED BY <1>3, <1>5, <1>7

(* The room on some days is none when none of them has any, and the room of the one that
   has. *)
LEMMA RoomOnTyped ==
  ASSUME NEW room \in [Dates -> Nat], NEW days \in SUBSET Dates
  PROVE  /\ RoomOn(room, days) \in Nat
         /\ (\A d \in days : room[d] = 0) => RoomOn(room, days) = 0
         /\ \A a \in days : (\A d \in days \ {a} : room[d] = 0) => RoomOn(room, days) = room[a]
<1> DEFINE f == [d \in days |-> room[d]]
<1>1. IsFiniteSet(days)
  <2>1. 1 \in Int /\ Horizon \in Int
    BY PartsAssumption
  <2>2. IsFiniteSet(Dates)
    BY <2>1, FS_Interval, ZenonT(30) DEF Dates
  <2> QED BY <2>2, FS_Subset
<1>2. f \in [days -> Nat] /\ f \in [days -> Int] /\ \A d \in days : f[d] = room[d]
  OBVIOUS
<1>3. RoomOn(room, days) = SumFunction(f)
  BY DEF RoomOn
<1> HIDE DEF f
<1>4. RoomOn(room, days) \in Nat
  BY <1>1, <1>2, <1>3, SumNatural
<1>5. ASSUME \A d \in days : room[d] = 0 PROVE RoomOn(room, days) = 0
  <2>1. \A d \in days : f[d] = 0
    BY <1>2, <1>5
  <2> QED BY <1>1, <1>2, <1>3, <2>1, SumZero
<1>6. ASSUME NEW a \in days, \A d \in days \ {a} : room[d] = 0 PROVE RoomOn(room, days) = room[a]
  <2>1. \A d \in days \ {a} : f[d] = 0
    BY <1>2, <1>6
  <2>2. SumFunction(f) = f[a]
    BY <1>1, <1>2, <2>1, SumPoint
  <2> QED BY <1>2, <1>3, <2>2
<1> QED BY <1>4, <1>5, <1>6

(* A place lies before or after the day it is looked for from, and hours put into one day
   fit the room of that day. *)
FitsDay(room, hours, at) ==
  at.start = at.end /\ hours > 0 => at.start \in Dates /\ hours * Parts <= room[at.start]
LEMMA BackwardFits ==
  ASSUME NEW room \in [Dates -> Nat], NEW hours \in Nat, NEW by \in Int
  PROVE  LET at == Backward(room, hours, by)
         IN  at \in Slots /\ (at # NoPlace => at.start <= at.end /\ at.end <= by /\ FitsDay(room, hours, at))
<1>1. PICK need \in Nat : need = hours * Parts
  BY PartsAssumption, TimesNatural
<1>2. PICK at : at = Backward(room, hours, by)
  OBVIOUS
<1>3. PICK enough : enough = {s \in Dates : RoomOn(room, Since(s) \cap Until(by)) >= need}
  OBVIOUS
<1>4. at = IF hours = 0 THEN [start |-> by, end |-> by] ELSE IF enough = {} THEN NoPlace
           ELSE [start |-> Max(enough), end |-> Max({d \in Until(by) : room[d] > 0})]
  BY <1>1, <1>2, <1>3 DEF Backward
<1>5. CASE hours = 0 \/ enough = {}
  BY <1>2, <1>4, <1>5 DEF Slots, FitsDay, NoPlace
<1>6. CASE hours # 0 /\ enough # {}
  <2>1. need > 0
    <3>1. hours \in Nat \ {0} /\ Parts \in Nat \ {0}
      BY <1>6, PartsAssumption
    <3> QED BY <1>1, <3>1
  <2>2. Dates \in SUBSET Nat
    BY PartsAssumption DEF Dates
  <2>3. PICK s \in Dates : s = Max(enough) /\ RoomOn(room, Since(s) \cap Until(by)) >= need
    <3>1. enough \in SUBSET Dates
      BY <1>3
    <3>2. Max(enough) \in enough
      BY <1>6, <3>1, LatestOf
    <3> QED BY <1>3, <3>2
  <2>4. PICK days \in SUBSET Dates : days = Since(s) \cap Until(by)
    BY DEF Since, Until
  <2>5. RoomOn(room, days) >= need
    BY <2>3, <2>4
  <2>6. PICK busy \in SUBSET Dates : busy = {d \in Until(by) : room[d] > 0}
    BY DEF Until
  <2>7. PICK a \in days : room[a] # 0
    BY <2>1, <2>5, RoomOnTyped
  <2>8. a \in busy /\ s <= a /\ a <= by
    BY <2>2, <2>4, <2>6, <2>7 DEF Since, Until
  <2>9. PICK e \in busy : e = Max(busy) /\ \A d \in busy : d <= e
    BY <2>8, LatestOf
  <2>10. e \in Dates /\ e <= by /\ a <= e
    BY <2>6, <2>8, <2>9 DEF Until
  <2>11. at = [start |-> s, end |-> e]
    BY <1>4, <1>6, <2>3, <2>6, <2>9
  <2>12. s \in Int /\ e \in Int /\ a \in Int
    BY <2>2, <2>10
  <2>13. ASSUME s = e PROVE need <= room[s]
    <3>1. a = s
      BY <2>8, <2>10, <2>12, <2>13
    <3>2. \A d \in days \ {a} : room[d] = 0
      <4> SUFFICES ASSUME NEW d \in days, d # a, room[d] # 0 PROVE FALSE
        OBVIOUS
      <4>1. d \in Until(by) /\ s <= d /\ room[d] \in Nat
        BY <2>4 DEF Since
      <4>2. d \in busy
        BY <2>6, <4>1
      <4>3. d <= e /\ d \in Int
        BY <2>2, <2>9, <4>2
      <4> QED BY <2>12, <2>13, <3>1, <4>1, <4>3
    <3>3. RoomOn(room, days) = room[a]
      BY <3>2, RoomOnTyped
    <3>4. room[a] \in Nat
      OBVIOUS
    <3> QED BY <2>5, <3>1, <3>3, <3>4
  <2>14. FitsDay(room, hours, at)
    BY <1>1, <2>11, <2>13 DEF FitsDay
  <2>15. s <= e
    BY <2>8, <2>10, <2>12
  <2> QED BY <1>2, <2>10, <2>11, <2>12, <2>14, <2>15 DEF Slots
<1> QED BY <1>5, <1>6

LEMMA ForwardFits ==
  ASSUME NEW room \in [Dates -> Nat], NEW hours \in Nat, NEW from \in Int
  PROVE  LET at == Forward(room, hours, from)
         IN  at \in Slots /\ (at # NoPlace => at.start <= at.end /\ from <= at.start /\ FitsDay(room, hours, at))
<1>1. PICK need \in Nat : need = hours * Parts
  BY PartsAssumption, TimesNatural
<1>2. PICK at : at = Forward(room, hours, from)
  OBVIOUS
<1>3. PICK enough : enough = {e \in Dates : RoomOn(room, Since(from) \cap Until(e)) >= need}
  OBVIOUS
<1>4. at = IF hours = 0 THEN [start |-> from, end |-> from] ELSE IF enough = {} THEN NoPlace
           ELSE [start |-> Min({d \in Since(from) : room[d] > 0}), end |-> Min(enough)]
  BY <1>1, <1>2, <1>3 DEF Forward
<1>5. CASE hours = 0 \/ enough = {}
  BY <1>2, <1>4, <1>5 DEF Slots, FitsDay, NoPlace
<1>6. CASE hours # 0 /\ enough # {}
  <2>1. need > 0
    <3>1. hours \in Nat \ {0} /\ Parts \in Nat \ {0}
      BY <1>6, PartsAssumption
    <3> QED BY <1>1, <3>1
  <2>2. Dates \in SUBSET Nat
    BY PartsAssumption DEF Dates
  <2>3. PICK e \in Dates : e = Min(enough) /\ RoomOn(room, Since(from) \cap Until(e)) >= need
    <3>1. enough \in SUBSET Dates
      BY <1>3
    <3>2. Min(enough) \in enough
      BY <1>6, <3>1, EarliestOf
    <3> QED BY <1>3, <3>2
  <2>4. PICK days \in SUBSET Dates : days = Since(from) \cap Until(e)
    BY DEF Since, Until
  <2>5. RoomOn(room, days) >= need
    BY <2>3, <2>4
  <2>6. PICK busy \in SUBSET Dates : busy = {d \in Since(from) : room[d] > 0}
    BY DEF Since
  <2>7. PICK a \in days : room[a] # 0
    BY <2>1, <2>5, RoomOnTyped
  <2>8. a \in busy /\ a <= e /\ from <= a
    BY <2>2, <2>4, <2>6, <2>7 DEF Since, Until
  <2>9. PICK s \in busy : s = Min(busy) /\ \A d \in busy : s <= d
    BY <2>8, EarliestOf
  <2>10. s \in Dates /\ from <= s /\ s <= a
    BY <2>6, <2>8, <2>9 DEF Since
  <2>11. at = [start |-> s, end |-> e]
    BY <1>4, <1>6, <2>3, <2>6, <2>9
  <2>12. s \in Int /\ e \in Int /\ a \in Int
    BY <2>2, <2>10
  <2>13. ASSUME s = e PROVE need <= room[s]
    <3>1. a = s
      BY <2>8, <2>10, <2>12, <2>13
    <3>2. \A d \in days \ {a} : room[d] = 0
      <4> SUFFICES ASSUME NEW d \in days, d # a, room[d] # 0 PROVE FALSE
        OBVIOUS
      <4>1. d \in Since(from) /\ d <= e /\ room[d] \in Nat
        BY <2>4 DEF Until
      <4>2. d \in busy
        BY <2>6, <4>1
      <4>3. s <= d /\ d \in Int
        BY <2>2, <2>9, <4>2
      <4> QED BY <2>12, <2>13, <3>1, <4>1, <4>3
    <3>3. RoomOn(room, days) = room[a]
      BY <3>2, RoomOnTyped
    <3>4. room[a] \in Nat
      OBVIOUS
    <3> QED BY <2>5, <3>1, <3>3, <3>4
  <2>14. FitsDay(room, hours, at)
    BY <1>1, <2>11, <2>13 DEF FitsDay
  <2>15. s <= e
    BY <2>8, <2>10, <2>12
  <2> QED BY <1>2, <2>10, <2>11, <2>12, <2>14, <2>15 DEF Slots
<1> QED BY <1>5, <1>6

(* The working days around a date. *)
LEMMA WorkingDays ==
  ASSUME Calendars, NEW w \in Centres, NEW d \in Int
  PROVE  /\ NextWorkingDay(w, d) \in Int /\ d < NextWorkingDay(w, d)
         /\ PreviousWorkingDay(w, d) \in Int /\ PreviousWorkingDay(w, d) < d
<1>1. Workdays(w) \in SUBSET Dates /\ Dates \in SUBSET Nat
  BY PartsAssumption DEF Workdays, Dates
<1>9. PICK later : later = {e \in Workdays(w) : e > d}
  OBVIOUS
<1>10. PICK earlier : earlier = {e \in Workdays(w) : e < d}
  OBVIOUS
<1>2. /\ later \in SUBSET Dates /\ earlier \in SUBSET Dates
      /\ later = {e \in Workdays(w) : e > d} /\ earlier = {e \in Workdays(w) : e < d}
  BY <1>1, <1>9, <1>10
<1>3. /\ NextWorkingDay(w, d) = IF later # {} THEN Min(later) ELSE d + 1
      /\ PreviousWorkingDay(w, d) = IF earlier # {} THEN Max(earlier) ELSE d - 1
  BY <1>2 DEF NextWorkingDay, PreviousWorkingDay
<1>4. (later # {} => Min(later) \in later) /\ (earlier # {} => Max(earlier) \in earlier)
  BY <1>2, EarliestOf, LatestOf
<1>5. \A e \in later : e \in Int /\ d < e
  BY <1>1, <1>2
<1>6. \A e \in earlier : e \in Int /\ e < d
  BY <1>1, <1>2
<1>7. CASE later = {}
  <2>1. NextWorkingDay(w, d) = d + 1
    BY <1>3, <1>7
  <2>2. CASE earlier = {}
    BY <1>3, <2>1, <2>2
  <2>3. CASE earlier # {}
    BY <1>3, <1>4, <1>6, <2>1, <2>3
  <2> QED BY <2>2, <2>3
<1>8. CASE later # {}
  <2>1. NextWorkingDay(w, d) = Min(later)
    BY <1>3, <1>8
  <2>2. CASE earlier = {}
    BY <1>3, <1>4, <1>5, <1>8, <2>1, <2>2
  <2>3. CASE earlier # {}
    BY <1>3, <1>4, <1>5, <1>6, <1>8, <2>1, <2>3
  <2> QED BY <2>2, <2>3
<1> QED BY <1>7, <1>8

(* One placement: where the operation goes, the date to go on from, and the room it takes. *)
Follows(at, cursor, mode) ==
  /\ at.slot \in Slots /\ at.cursor \in Int
  /\ at.slot # NoPlace =>
       /\ at.slot.start <= at.slot.end
       /\ IF mode = "BACKWARD" THEN at.slot.end <= cursor /\ at.cursor <= at.slot.start
                               ELSE cursor <= at.slot.start /\ at.slot.end <= at.cursor
LEMMA PlacesFollow ==
  ASSUME Calendars, NEW w \in Centres \cup {NoCentre}, NEW room, w \in Centres => room \in [Dates -> Nat],
         NEW hours \in Nat, NEW cursor \in Int, NEW mode
  PROVE  LET at == PlaceIn(w, room, hours, cursor, mode)
         IN  /\ Follows(at, cursor, mode)
             /\ w \in Centres /\ at.slot # NoPlace => FitsDay(room, hours, at.slot)
<1>1. PICK slot : slot = Slot(w, room, hours, cursor, mode)
  OBVIOUS
<1>2. PICK at : at = PlaceIn(w, room, hours, cursor, mode)
  OBVIOUS
<1>3. at = Placed(w, slot, mode) /\ at.slot = slot
  BY <1>1, <1>2 DEF PlaceIn, Placed
<1>4. at.cursor = IF mode = "BACKWARD"
                    THEN IF w = NoCentre THEN slot.start - 1 ELSE PreviousWorkingDay(w, slot.start)
                    ELSE IF w = NoCentre THEN slot.end ELSE NextWorkingDay(w, slot.end)
  BY <1>3 DEF Placed
<1>5. CASE w = NoCentre
  <2>1. slot = [start |-> cursor, end |-> cursor] /\ w \notin Centres
    BY <1>1, <1>5, CentreAssumption DEF Slot
  <2> QED BY <1>2, <1>3, <1>4, <1>5, <2>1 DEF Follows, Slots
<1>6. CASE w # NoCentre
  <2>1. w \in Centres /\ room \in [Dates -> Nat]
    BY <1>6
  <2>2. /\ OnOrBefore(w, cursor) \in Int /\ OnOrBefore(w, cursor) <= cursor
        /\ OnOrAfter(w, cursor) \in Int /\ cursor <= OnOrAfter(w, cursor)
    BY <2>1, WorkingDays DEF OnOrBefore, OnOrAfter
  <2>3. PICK by \in Int, from \in Int : by = OnOrBefore(w, cursor) /\ from = OnOrAfter(w, cursor)
    BY <2>2
  <2>4. slot = IF mode = "BACKWARD" THEN Backward(room, hours, by) ELSE Forward(room, hours, from)
    BY <1>1, <1>6, <2>3 DEF Slot
  <2>5. CASE mode = "BACKWARD"
    <3>1. slot \in Slots /\ (slot # NoPlace => slot.start <= slot.end /\ slot.end <= by /\ FitsDay(room, hours, slot))
      BY <2>1, <2>4, <2>5, BackwardFits
    <3>2. slot.start \in Int /\ slot.end \in Int
      BY <3>1 DEF Slots
    <3>3. at.cursor = PreviousWorkingDay(w, slot.start)
      BY <1>4, <1>6, <2>5
    <3>4. at.cursor \in Int /\ at.cursor < slot.start
      BY <2>1, <3>2, <3>3, WorkingDays
    <3>5. Follows(at, cursor, mode)
      BY <1>3, <2>2, <2>3, <2>5, <3>1, <3>2, <3>4 DEF Follows
    <3> QED BY <1>2, <1>3, <3>1, <3>5
  <2>6. CASE mode # "BACKWARD"
    <3>1. slot \in Slots /\ (slot # NoPlace => slot.start <= slot.end /\ from <= slot.start /\ FitsDay(room, hours, slot))
      BY <2>1, <2>4, <2>6, ForwardFits
    <3>2. slot.start \in Int /\ slot.end \in Int
      BY <3>1 DEF Slots
    <3>3. at.cursor = NextWorkingDay(w, slot.end)
      BY <1>4, <1>6, <2>6
    <3>4. at.cursor \in Int /\ slot.end < at.cursor
      BY <2>1, <3>2, <3>3, WorkingDays
    <3>5. Follows(at, cursor, mode)
      BY <1>3, <2>2, <2>3, <2>6, <3>1, <3>2, <3>4 DEF Follows
    <3> QED BY <1>2, <1>3, <3>1, <3>5
  <2> QED BY <2>5, <2>6
<1> QED BY <1>5, <1>6

(* Where a centre has the room of its calendar and its load, an operation is placed as if
   it were the only one. *)
LEMMA PlaceFollows ==
  ASSUME Calendars, NEW p, Dated(p), NEW open \in SUBSET Orders, NEW o \in Orders,
         NEW i \in DOMAIN Routing[o], NEW cursor \in Int, NEW mode
  PROVE  LET w  == Routing[o][i].centre
             at == Place(p, open, o, i, cursor, mode)
         IN  /\ Follows(at, cursor, mode)
             /\ w \in Centres /\ at.slot # NoPlace =>
                  FitsDay(Room(p, open, w, <<o, i>>), Hours(o, i), at.slot)
<1>1. PICK w \in Centres \cup {NoCentre}, hours \in Nat : w = Routing[o][i].centre /\ hours = Hours(o, i)
  BY HoursTyped
<1>2. PICK room : room = Room(p, open, w, <<o, i>>)
  OBVIOUS
<1>3. w \in Centres => room \in [Dates -> Nat]
  BY <1>2, RoomTyped
<1>4. Place(p, open, o, i, cursor, mode) = PlaceIn(w, room, hours, cursor, mode)
  BY <1>1, <1>2 DEF Place
<1>5. PICK at : at = PlaceIn(w, room, hours, cursor, mode)
  OBVIOUS
<1>6. Follows(at, cursor, mode) /\ (w \in Centres /\ at.slot # NoPlace => FitsDay(room, hours, at.slot))
  BY <1>3, <1>5, PlacesFollow
<1> QED BY <1>1, <1>2, <1>4, <1>5, <1>6

(* An operation placed on a finite centre fits next to the others of the day. *)
Places(p, open, o, i, cursor, mode, at, q) ==
  /\ Dated(p) /\ open \in SUBSET Orders /\ Roomy(p, open)
  /\ o \in Orders /\ i \in DOMAIN p[o] /\ cursor \in Int
  /\ at = Place(p, open, o, i, cursor, mode) /\ at.slot # NoPlace
  /\ q = [p EXCEPT ![o][i] = at.slot]
LEMMA PlacingKeepsRoomy ==
  ASSUME Calendars, NEW p, NEW open, NEW o, NEW i, NEW cursor, NEW mode, NEW at, NEW q,
         Places(p, open, o, i, cursor, mode, at, q)
  PROVE  Dated(q) /\ (\A x \in Orders : DOMAIN q[x] = DOMAIN p[x]) /\ Roomy(q, open)
<1> USE DEF Places
<1>1. i \in DOMAIN Routing[o] /\ p[o] \in Seq(Slots)
  BY DEF Dated
<1>2. Follows(at, cursor, mode) /\ at.slot \in Slots
  BY <1>1, PlaceFollows DEF Follows
<1>3. /\ q[o] = [p[o] EXCEPT ![i] = at.slot] /\ DOMAIN q = Orders
      /\ \A x \in Orders \ {o} : q[x] = p[x]
  BY DEF Dated
<1>4. q[o] \in Seq(Slots) /\ DOMAIN q[o] = DOMAIN p[o] /\ q[o][i] = at.slot
  BY <1>1, <1>2, <1>3
<1>5. \A x \in Orders : q[x] \in Seq(Slots) /\ DOMAIN q[x] = DOMAIN p[x]
  BY <1>3, <1>4 DEF Dated
<1>6. Dated(q)
  <2>1. q = [x \in Orders |-> q[x]]
    BY DEF Dated
  <2>2. q \in [Orders -> Seq(Slots)]
    BY <1>5, <2>1
  <2> QED BY <1>5, <2>2 DEF Dated
<1>7. ASSUME NEW w \in Finite, NEW d \in Dates
      PROVE  SumFunction(HoursWithin(q, open, w, d)) <= Parts * hist.longest[w][d]
  <2> DEFINE f == HoursWithin(p, open, w, d)
             h == HoursWithin(q, open, w, d)
             a == <<o, i>>
             g == OtherHours(p, open, w, d, a)
  <2>1. IsFiniteSet(AllOperations) /\ a \in AllOperations
    BY <1>1, OperationsFinite
  <2>2. /\ f \in [AllOperations -> Nat] /\ h \in [AllOperations -> Nat]
        /\ f \in [AllOperations -> Int] /\ h \in [AllOperations -> Int]
    BY HoursWithinTyped
  <2>3. ASSUME NEW s \in AllOperations, s # a PROVE h[s] = f[s]
    <3>1. PICK x \in Orders : \E j \in DOMAIN Routing[x] : s = <<x, j>>
      BY OperationsFinite
    <3>2. PICK j \in DOMAIN Routing[x] : s = <<x, j>> /\ s[1] = x /\ s[2] = j
      BY <3>1
    <3>3. x # o \/ j # i
      BY <2>3, <3>2
    <3>4. DOMAIN q[x] = DOMAIN p[x] /\ (j \in DOMAIN p[x] => q[x][j] = p[x][j])
      BY <1>1, <1>3, <1>5, <3>3
    <3>5. Within(q, open, w, d, s) <=> Within(p, open, w, d, s)
      BY <3>2, <3>4 DEF Within
    <3> QED BY <3>5 DEF HoursWithin
  <2>4. g = [s \in AllOperations |-> IF s = a THEN 0 ELSE f[s]]
    BY DEF OtherHours
  <2>5. PICK cap \in Nat : cap = Parts * hist.longest[w][d]
    BY ShiftTyped DEF Finite
  <2>6. SumFunction(f) <= cap
    BY <2>5 DEF Roomy
  <2>7. h[a] > 0 => h[a] + SumFunction(g) <= cap
    <3> SUFFICES ASSUME h[a] > 0 PROVE h[a] + SumFunction(g) <= cap
      OBVIOUS
    <3>1. a[1] = o /\ a[2] = i
      OBVIOUS
    <3>2. Within(q, open, w, d, a) /\ h[a] = Hours(o, i) * Parts
      BY <2>1, <3>1 DEF HoursWithin
    <3>3. /\ o \in open /\ Routing[o][i].centre = w
          /\ at.slot.start = d /\ at.slot.end = d
      BY <1>4, <3>1, <3>2 DEF Within
    <3>4. PICK hours \in Nat : hours = Hours(o, i)
      BY <1>1, HoursTyped
    <3>5. hours > 0
      <4>1. hours = 0 => hours * Parts = 0
        BY PartsAssumption
      <4> QED BY <3>2, <3>4, <4>1
    <3>6. w \in Centres
      BY DEF Finite
    <3>7. PICK room \in [Dates -> Nat] : room = Room(p, open, w, a)
      BY <3>6, RoomTyped
    <3>8. FitsDay(room, hours, at.slot)
      BY <1>1, <3>3, <3>4, <3>6, <3>7, PlaceFollows
    <3>9. hours * Parts <= room[d] /\ hours * Parts = h[a]
      BY <3>2, <3>3, <3>4, <3>5, <3>8 DEF FitsDay
    <3>14. h[a] \in Nat /\ room[d] \in Nat
      BY <2>1, <2>2
    <3> HIDE DEF h
    <3>10. room[d] > 0 /\ room[d] \in Nat
      BY <3>9, <3>14
    <3>15. PICK shift \in Nat : shift = Parts * calendar[w][d] /\ shift <= cap
      BY <2>5, <3>6, ShiftTyped
    <3>16. d \in Workdays(w) /\ room[d] + Committed(p, open, w, d, a) <= shift
      BY <3>6, <3>7, <3>10, <3>15, RoomTyped
    <3>12. SumFunction(g) <= Committed(p, open, w, d, a) /\ Committed(p, open, w, d, a) \in Nat
      BY <3>6, <3>16, CommittedAtLeast, CommittedIsSum
    <3>11. room[d] + Committed(p, open, w, d, a) <= cap
      BY <3>10, <3>12, <3>15, <3>16
    <3>13. SumFunction(g) \in Int
      <4>1. g \in [AllOperations -> Int]
        BY <2>2, <2>4
      <4> HIDE DEF g
      <4> QED BY <2>1, <4>1, SumInteger
    <3> HIDE DEF g, a
    <3> QED BY <3>9, <3>10, <3>11, <3>12, <3>13, <3>14
  <2> HIDE DEF f, h, a
  <2>8. SumFunction(h) = SumFunction(f) + h[a] - f[a]
    BY <2>1, <2>2, <2>3, SumUpdate
  <2>9. g \in [AllOperations -> Int] /\ (\A s \in AllOperations \ {a} : g[s] = f[s]) /\ g[a] = 0
    BY <2>1, <2>2, <2>4
  <2> HIDE DEF g
  <2>10. SumFunction(g) = SumFunction(f) + g[a] - f[a]
    BY <2>1, <2>2, <2>9, SumUpdate
  <2>11. SumFunction(f) \in Int /\ SumFunction(g) \in Int /\ h[a] \in Nat /\ f[a] \in Nat
    BY <2>1, <2>2, <2>9, SumInteger
  <2>12. SumFunction(h) <= cap
    BY <2>5, <2>6, <2>7, <2>8, <2>9, <2>10, <2>11
  <2> QED BY <2>5, <2>12 DEF h
<1> QED BY <1>5, <1>6, <1>7 DEF Roomy

(* Orders left out, or with dates of more than a day, take nothing of the room. *)
LEMMA RoomyWithFewer ==
  ASSUME Calendars, NEW p, NEW open, NEW q, NEW some, Roomy(p, open),
         \A w, d, s : s \in AllOperations /\ Within(q, some, w, d, s) => Within(p, open, w, d, s)
  PROVE  Roomy(q, some)
<1> SUFFICES ASSUME NEW w \in Finite, NEW d \in Dates
             PROVE  SumFunction(HoursWithin(q, some, w, d)) <= Parts * hist.longest[w][d]
  BY DEF Roomy
<1> DEFINE f == HoursWithin(p, open, w, d)
           h == HoursWithin(q, some, w, d)
<1>1. /\ f \in [AllOperations -> Nat] /\ h \in [AllOperations -> Nat]
      /\ f \in [AllOperations -> Int] /\ h \in [AllOperations -> Int]
  BY HoursWithinTyped
<1>2. ASSUME NEW s \in AllOperations PROVE h[s] <= f[s]
  <2>1. CASE Within(q, some, w, d, s)
    <3>1. h[s] = f[s]
      BY <2>1 DEF HoursWithin
    <3>2. f[s] \in Nat
      BY <1>1
    <3> HIDE DEF f, h
    <3> QED BY <3>1, <3>2
  <2>2. CASE ~ Within(q, some, w, d, s)
    <3>1. h[s] = 0
      BY <2>2 DEF HoursWithin
    <3> QED BY <1>1, <3>1
  <2> QED BY <2>1, <2>2
<1>3. IsFiniteSet(AllOperations)
  BY OperationsFinite
<1>4. SumFunction(f) <= Parts * hist.longest[w][d]
  BY DEF Roomy
<1>5. Parts * hist.longest[w][d] \in Nat
  BY ShiftTyped DEF Finite
<1> HIDE DEF f, h
<1>6. SumFunction(h) <= SumFunction(f)
  BY <1>1, <1>2, <1>3, SumAtMost
<1>7. SumFunction(h) \in Int /\ SumFunction(f) \in Int
  BY <1>1, <1>3, SumInteger
<1>8. SumFunction(h) <= Parts * hist.longest[w][d]
  BY <1>4, <1>5, <1>6, <1>7
<1> QED BY <1>8 DEF h

(* One more operation placed, and the order goes on. *)
LEMMA PlacingBack ==
  ASSUME NEW s \in Seq(Slots), NEW i \in DOMAIN s, NEW cursor \in Int, PlacedBack(s, i, cursor),
         NEW at, Follows(at, cursor, "BACKWARD"), at.slot # NoPlace
  PROVE  PlacedBack([s EXCEPT ![i] = at.slot], i - 1, at.cursor)
<1>1. PICK t : t = [s EXCEPT ![i] = at.slot]
  OBVIOUS
<1>2. PICK n \in Nat : n = Len(s) /\ DOMAIN s = 1 .. n
  OBVIOUS
<1>3. DOMAIN t = 1 .. n /\ t[i] = at.slot /\ (\A j \in 1 .. n : j # i => t[j] = s[j])
  BY <1>1, <1>2
<1>4. PICK from \in Int, to \in Int, next \in Int :
        from = at.slot.start /\ to = at.slot.end /\ next = at.cursor
  BY DEF Follows, Slots
<1>5. from <= to /\ to <= cursor /\ next <= from
  BY <1>4 DEF Follows
<1>6. \A j \in 1 .. n : s[j].start \in Int /\ s[j].end \in Int
  <2>1. \A j \in 1 .. n : s[j] \in Slots
    BY <1>2
  <2> QED BY <2>1 DEF Slots
<1>7. ASSUME NEW j \in 1 .. n, j > i
      PROVE  cursor <= s[j].start /\ \A k \in 1 .. n : i < k /\ k < j => s[k].end <= s[j].start
  BY <1>2, <1>7 DEF PlacedBack
<1>8. ASSUME NEW j \in 1 .. n, j > i - 1
      PROVE  next <= t[j].start /\ \A k \in 1 .. n : i - 1 < k /\ k < j => t[k].end <= t[j].start
  <2>1. CASE j = i
    <3>1. next <= t[j].start
      BY <1>3, <1>4, <1>5, <2>1
    <3>2. \A k \in 1 .. n : ~ (i - 1 < k /\ k < j)
      BY <1>2, <2>1
    <3> QED BY <3>1, <3>2
  <2>2. CASE j # i
    <3>1. j > i /\ t[j] = s[j]
      BY <1>2, <1>3, <1>8, <2>2
    <3>2. cursor <= s[j].start /\ \A k \in 1 .. n : i < k /\ k < j => s[k].end <= s[j].start
      BY <1>7, <3>1
    <3>3. next <= t[j].start /\ to <= t[j].start
      BY <1>5, <1>6, <3>1, <3>2
    <3>4. ASSUME NEW k \in 1 .. n, i - 1 < k, k < j PROVE t[k].end <= t[j].start
      <4>1. CASE k = i
        BY <1>3, <1>4, <3>3, <4>1
      <4>2. CASE k # i
        <5>1. i < k
          BY <1>2, <3>4, <4>2
        <5> QED BY <1>3, <3>1, <3>2, <3>4, <4>2, <5>1
      <4> QED BY <4>1, <4>2
    <3> QED BY <3>3, <3>4
  <2> QED BY <2>1, <2>2
<1>9. PlacedBack(t, i - 1, next)
  BY <1>3, <1>8 DEF PlacedBack
<1> QED BY <1>1, <1>4, <1>9

LEMMA PlacingForth ==
  ASSUME NEW s \in Seq(Slots), NEW i \in DOMAIN s, NEW cursor \in Int, PlacedForth(s, i, cursor),
         NEW mode, mode # "BACKWARD", NEW at, Follows(at, cursor, mode), at.slot # NoPlace
  PROVE  PlacedForth([s EXCEPT ![i] = at.slot], i + 1, at.cursor)
<1>1. PICK t : t = [s EXCEPT ![i] = at.slot]
  OBVIOUS
<1>2. PICK n \in Nat : n = Len(s) /\ DOMAIN s = 1 .. n
  OBVIOUS
<1>3. DOMAIN t = 1 .. n /\ t[i] = at.slot /\ (\A j \in 1 .. n : j # i => t[j] = s[j])
  BY <1>1, <1>2
<1>4. PICK from \in Int, to \in Int, next \in Int :
        from = at.slot.start /\ to = at.slot.end /\ next = at.cursor
  BY DEF Follows, Slots
<1>5. from <= to /\ cursor <= from /\ to <= next
  BY <1>4 DEF Follows
<1>6. \A j \in 1 .. n : s[j].start \in Int /\ s[j].end \in Int
  <2>1. \A j \in 1 .. n : s[j] \in Slots
    BY <1>2
  <2> QED BY <2>1 DEF Slots
<1>7. ASSUME NEW k \in 1 .. n, k < i
      PROVE  s[k].end <= cursor /\ \A j \in 1 .. n : k < j /\ j < i => s[k].end <= s[j].start
  BY <1>2, <1>7 DEF PlacedForth
<1>8. ASSUME NEW k \in 1 .. n, k < i + 1
      PROVE  t[k].end <= next /\ \A j \in 1 .. n : k < j /\ j < i + 1 => t[k].end <= t[j].start
  <2>1. CASE k = i
    <3>1. t[k].end <= next
      BY <1>3, <1>4, <1>5, <2>1
    <3>2. \A j \in 1 .. n : ~ (k < j /\ j < i + 1)
      BY <1>2, <2>1
    <3> QED BY <3>1, <3>2
  <2>2. CASE k # i
    <3>1. k < i /\ t[k] = s[k]
      BY <1>2, <1>3, <1>8, <2>2
    <3>2. s[k].end <= cursor /\ \A j \in 1 .. n : k < j /\ j < i => s[k].end <= s[j].start
      BY <1>7, <3>1
    <3>3. t[k].end <= next /\ t[k].end <= from
      BY <1>5, <1>6, <3>1, <3>2
    <3>4. ASSUME NEW j \in 1 .. n, k < j, j < i + 1 PROVE t[k].end <= t[j].start
      <4>1. CASE j = i
        BY <1>3, <1>4, <3>3, <4>1
      <4>2. CASE j # i
        <5>1. j < i
          BY <1>2, <3>4, <4>2
        <5> QED BY <1>3, <3>1, <3>2, <3>4, <4>2, <5>1
      <4> QED BY <4>1, <4>2
    <3> QED BY <3>3, <3>4
  <2> QED BY <2>1, <2>2
<1>9. PlacedForth(t, i + 1, next)
  BY <1>3, <1>8 DEF PlacedForth
<1> QED BY <1>1, <1>4, <1>9

(* A loop has values, each of which follows from the one before. *)
IsLoop(n, S, base, next) == n \in Nat /\ base \in S /\ next \in [S \X (1 .. n) -> S]
HasValues(n, S, base, next) ==
  \E t \in [0 .. n -> S] : t[0] = base /\ \A k \in 1 .. n : t[k] = next[<<t[k - 1], k>>]
LEMMA LoopExists ==
  ASSUME NEW n, NEW S, NEW base, NEW next, IsLoop(n, S, base, next)
  PROVE  HasValues(n, S, base, next)
<1> USE DEF IsLoop, HasValues
<1> DEFINE Runs(t, m) == t[0] = base /\ \A k \in 1 .. m : t[k] = next[<<t[k - 1], k>>]
           Q == {m \in 0 .. n : \E t \in [0 .. m -> S] : Runs(t, m)}
<1>1. 0 \in Q
  <2> DEFINE t == [k \in 0 .. 0 |-> base]
  <2>1. t \in [0 .. 0 -> S] /\ t[0] = base
    OBVIOUS
  <2>2. Runs(t, 0)
    BY <2>1
  <2> HIDE DEF t
  <2> QED BY <2>1, <2>2
<1>2. ASSUME NEW m \in 1 .. n, m - 1 \in Q PROVE m \in Q
  <2>1. PICK t \in [0 .. m - 1 -> S] : Runs(t, m - 1)
    BY <1>2
  <2>2. t[m - 1] \in S
    OBVIOUS
  <2>3. PICK new \in S : new = next[<<t[m - 1], m>>]
    BY <2>2
  <2> DEFINE u == [k \in 0 .. m |-> IF k = m THEN new ELSE t[k]]
  <2>4. u \in [0 .. m -> S] /\ u[m] = new /\ \A k \in 0 .. m - 1 : u[k] = t[k]
    OBVIOUS
  <2> HIDE DEF u
  <2>5. u[0] = base
    BY <2>1, <2>4
  <2>6. ASSUME NEW k \in 1 .. m PROVE u[k] = next[<<u[k - 1], k>>]
    <3>1. u[k - 1] = t[k - 1]
      BY <2>4
    <3>2. CASE k = m
      BY <2>3, <2>4, <3>1, <3>2
    <3>3. CASE k # m
      <4>1. k \in 1 .. m - 1
        BY <3>3
      <4> QED BY <2>1, <2>4, <3>1, <4>1
    <3> QED BY <3>2, <3>3
  <2>7. m \in 0 .. n
    OBVIOUS
  <2> QED BY <2>4, <2>5, <2>6, <2>7
<1>3. n \in Q
  <2>1. n \in 0 .. n
    OBVIOUS
  <2> HIDE DEF Q
  <2> QED BY <1>1, <1>2, <2>1, IndexInduction
<1> QED BY <1>3

(* What a loop over the operations of an order goes on with. *)
Turns == [slots : Seq(Slots), cursor : Int, failed : BOOLEAN]

(* A trial places the operations one behind the other. *)
LEMMA TrialTyped ==
  ASSUME Calendars, Dated(plan), NEW o \in Orders
  PROVE  Trial(o) \in Seq(Slots)
<1>1. PICK n \in Nat : n = Len(Routing[o]) /\ DOMAIN Routing[o] = 1 .. n
  BY RoutingTyped
<1>2. PICK base \in Turns : base = [slots |-> <<>>, cursor |-> Due[o], failed |-> FALSE]
  <2>1. Due[o] \in Int /\ <<>> \in Seq(Slots)
    BY RowAssumption
  <2> QED BY <2>1 DEF Turns
<1>3. ASSUME NEW done \in Turns, NEW i \in 1 .. n PROVE TryNext(o, done, i) \in Turns
  <2>1. PICK at : at = Place(plan, OpenOrders, o, i, done.cursor, "BACKWARD")
    OBVIOUS
  <2>2. done.cursor \in Int /\ done.slots \in Seq(Slots)
    BY DEF Turns
  <2>3. OpenOrders \in SUBSET Orders
    BY DEF OpenOrders
  <2>4. at.slot \in Slots /\ at.cursor \in Int
    BY <1>1, <2>1, <2>2, <2>3, PlaceFollows DEF Follows
  <2>5. PICK more \in Seq(Slots) : more = Append(done.slots, at.slot)
    <3>1. PICK s \in Seq(Slots), x \in Slots : s = done.slots /\ x = at.slot
      BY <2>2, <2>4
    <3>2. Append(s, x) \in Seq(Slots)
      OBVIOUS
    <3> QED BY <3>1, <3>2
  <2>6. <<>> \in Seq(Slots)
    OBVIOUS
  <2>7. Added(done, at) \in Turns
    <3>1. CASE done.failed \/ at.slot = NoPlace
      BY <2>6, <3>1 DEF Added, Turns
    <3>2. CASE ~ (done.failed \/ at.slot = NoPlace)
      BY <2>4, <2>5, <3>2 DEF Added, Turns
    <3> QED BY <3>1, <3>2
  <2> QED BY <2>1, <2>7 DEF TryNext
<1> DEFINE Turn(t, k) == IF k = 0 THEN base ELSE TryNext(o, t[k - 1], n + 1 - k)
           tried == CHOOSE t : t = [k \in 0 .. n |-> Turn(t, k)]
<1>4. Trial(o) = tried[n].slots
  BY <1>1, <1>2 DEF Trial
<1>5. PICK next \in [Turns \X (1 .. n) -> Turns] :
        \A x \in Turns, k \in 1 .. n : next[<<x, k>>] = TryNext(o, x, n + 1 - k)
  <2> DEFINE f == [x \in Turns \X (1 .. n) |-> TryNext(o, x[1], n + 1 - x[2])]
  <2>1. \A k \in 1 .. n : n + 1 - k \in 1 .. n
    OBVIOUS
  <2>2. f \in [Turns \X (1 .. n) -> Turns]
    BY <1>3, <2>1
  <2>3. \A x \in Turns, k \in 1 .. n : f[<<x, k>>] = TryNext(o, x, n + 1 - k)
    OBVIOUS
  <2> HIDE DEF f
  <2> QED BY <2>2, <2>3
<1>6. PICK t \in [0 .. n -> Turns] : t[0] = base /\ \A k \in 1 .. n : t[k] = next[<<t[k - 1], k>>]
  <2>1. IsLoop(n, Turns, base, next)
    BY <1>5 DEF IsLoop
  <2>2. HasValues(n, Turns, base, next)
    BY <2>1, LoopExists
  <2> QED BY <2>2 DEF HasValues
<1>7. ASSUME NEW k \in 0 .. n PROVE t[k] = Turn(t, k)
  <2>1. CASE k = 0
    BY <1>6, <2>1
  <2>2. CASE k # 0
    <3>1. k \in 1 .. n /\ k - 1 \in 0 .. n
      BY <2>2
    <3>2. t[k] = next[<<t[k - 1], k>>] /\ t[k - 1] \in Turns
      BY <1>6, <3>1
    <3>3. t[k] = TryNext(o, t[k - 1], n + 1 - k)
      BY <1>5, <3>1, <3>2
    <3> QED BY <2>2, <3>3
  <2> QED BY <2>1, <2>2
<1>8. t = [k \in 0 .. n |-> Turn(t, k)]
  <2> HIDE DEF Turn
  <2> QED BY <1>7
<1>9. tried = [k \in 0 .. n |-> Turn(tried, k)]
  BY <1>8
<1> HIDE DEF tried
<1>10. \A k \in 0 .. n : tried[k] = Turn(tried, k)
  BY <1>9
<1> DEFINE Q == {k \in 0 .. n : tried[k] \in Turns}
<1>11. 0 \in Q
  BY <1>10
<1>12. ASSUME NEW k \in 1 .. n, k - 1 \in Q PROVE k \in Q
  <2>1. k \in 0 .. n /\ k # 0 /\ n + 1 - k \in 1 .. n
    OBVIOUS
  <2>2. tried[k] = TryNext(o, tried[k - 1], n + 1 - k) /\ tried[k - 1] \in Turns
    BY <1>10, <1>12, <2>1
  <2>3. tried[k] \in Turns
    BY <1>3, <2>1, <2>2
  <2> QED BY <2>1, <2>3
<1>13. n \in Q
  <2>1. n \in 0 .. n
    OBVIOUS
  <2> HIDE DEF Q
  <2> QED BY <1>11, <1>12, <2>1, IndexInduction
<1> QED BY <1>4, <1>13 DEF Turns

(* The refinement of an order about to be open: what a turn of its loop goes on with, and
   what is true of it before operation i is placed. *)
WithDates(o, slots) == [plan EXCEPT ![o] = slots]
Refinements(o) == {d \in Turns : Len(d.slots) = Len(Routing[o])}
RefiningFits(o, done, i) ==
  /\ Roomy(WithDates(o, done.slots), OpenOrders \cup {o})
  /\ ~ done.failed => PlacedBack(done.slots, i, done.cursor)

(* Dates for all operations of an order. *)
LEMMA WithDatesDated ==
  ASSUME Dated(plan), NEW o \in Orders, NEW slots \in Seq(Slots), Len(slots) = Len(Routing[o])
  PROVE  Dated(WithDates(o, slots)) /\ WithDates(o, slots)[o] = slots
         /\ \A x \in Orders \ {o} : WithDates(o, slots)[x] = plan[x]
<1>1. DOMAIN slots = DOMAIN Routing[o]
  BY RoutingTyped
<1>2. PICK q : q = WithDates(o, slots)
  OBVIOUS
<1>3. q \in [Orders -> Seq(Slots)] /\ q[o] = slots /\ \A x \in Orders \ {o} : q[x] = plan[x]
  BY <1>2 DEF WithDates, Dated
<1>4. \A x \in Orders : DOMAIN q[x] \subseteq DOMAIN Routing[x]
  BY <1>1, <1>3 DEF Dated
<1> QED BY <1>2, <1>3, <1>4 DEF Dated

(* Each turn keeps it. *)
LEMMA RefineKeeps ==
  ASSUME Calendars, Dated(plan), NEW o \in Orders, NEW done \in Refinements(o),
         NEW i \in DOMAIN Routing[o]
  PROVE  /\ RefineNext(o, done, i) \in Refinements(o)
         /\ RefiningFits(o, done, i) => RefiningFits(o, RefineNext(o, done, i), i - 1)
<1>1. PICK n \in Nat : n = Len(Routing[o]) /\ DOMAIN Routing[o] = 1 .. n
  BY RoutingTyped
<1>2. PICK s \in Seq(Slots), cursor \in Int, failed \in BOOLEAN :
        s = done.slots /\ cursor = done.cursor /\ failed = done.failed
  BY DEF Refinements, Turns
<1>3. done = [slots |-> s, cursor |-> cursor, failed |-> failed]
  BY <1>2 DEF Refinements, Turns
<1>4. Len(s) = n /\ DOMAIN s = 1 .. n
  BY <1>1, <1>2 DEF Refinements
<1>5. PICK p : p = WithDates(o, s)
  OBVIOUS
<1>6. Dated(p) /\ p[o] = s /\ \A x \in Orders \ {o} : p[x] = plan[x]
  BY <1>1, <1>4, <1>5, WithDatesDated
<1>7. PICK open \in SUBSET Orders : open = OpenOrders \cup {o}
  BY DEF OpenOrders
<1>8. PICK at : at = Place(p, open, o, i, cursor, "BACKWARD")
  OBVIOUS
<1>9. Follows(at, cursor, "BACKWARD") /\ at.slot \in Slots /\ at.cursor \in Int
  BY <1>6, <1>8, PlaceFollows DEF Follows
<1>10. RefineNext(o, done, i) = Saved(done, i, at)
  BY <1>2, <1>5, <1>7, <1>8 DEF RefineNext, WithDates
<1>11. CASE failed \/ at.slot = NoPlace
  <2>1. RefineNext(o, done, i) = [slots |-> s, cursor |-> cursor, failed |-> TRUE]
    BY <1>3, <1>10, <1>11 DEF Saved
  <2>2. RefineNext(o, done, i) \in Refinements(o)
    BY <1>1, <1>4, <2>1 DEF Refinements, Turns
  <2>3. RefiningFits(o, done, i) => RefiningFits(o, RefineNext(o, done, i), i - 1)
    BY <1>2, <2>1 DEF RefiningFits
  <2> QED BY <2>2, <2>3
<1>12. CASE ~ (failed \/ at.slot = NoPlace)
  <2>1. PICK t \in Seq(Slots) : t = [s EXCEPT ![i] = at.slot] /\ Len(t) = n
    <3>1. PICK x \in Slots : x = at.slot
      BY <1>9
    <3>2. i \in 1 .. n
      BY <1>1
    <3>3. [s EXCEPT ![i] = x] \in Seq(Slots) /\ Len([s EXCEPT ![i] = x]) = n
      BY <1>4, <3>2
    <3> QED BY <3>1, <3>3
  <2>2. RefineNext(o, done, i) = [slots |-> t, cursor |-> at.cursor, failed |-> failed]
    BY <1>3, <1>10, <1>12, <2>1 DEF Saved
  <2>3. RefineNext(o, done, i) \in Refinements(o)
    BY <1>1, <1>9, <2>1, <2>2 DEF Refinements, Turns
  <2>4. ASSUME RefiningFits(o, done, i) PROVE RefiningFits(o, RefineNext(o, done, i), i - 1)
    <3>1. Roomy(p, open) /\ PlacedBack(s, i, cursor)
      BY <1>2, <1>5, <1>7, <1>12, <2>4 DEF RefiningFits
    <3>2. PlacedBack(t, i - 1, at.cursor)
      BY <1>1, <1>4, <1>9, <1>12, <2>1, <3>1, PlacingBack
    <3>3. PICK q : q = [p EXCEPT ![o][i] = at.slot]
      OBVIOUS
    <3>4. i \in DOMAIN p[o]
      BY <1>1, <1>4, <1>6
    <3>5. Roomy(q, open)
      <4>1. Places(p, open, o, i, cursor, "BACKWARD", at, q)
        BY <1>6, <1>8, <1>12, <3>1, <3>3, <3>4 DEF Places
      <4> QED BY <4>1, PlacingKeepsRoomy
    <3>6. q = WithDates(o, t)
      BY <1>4, <1>5, <2>1, <3>3 DEF WithDates, Dated
    <3> QED BY <1>7, <2>2, <3>2, <3>5, <3>6 DEF RefiningFits
  <2> QED BY <2>3, <2>4
<1> QED BY <1>11, <1>12

(* Rough-cut dates take nothing of a day's room. *)
LEMMA RoughCutFits ==
  ASSUME Calendars, Dated(plan), Roomy(plan, OpenOrders), NEW o \in Orders, order[o].end \in Int
  PROVE  Roomy(WithDates(o, RoughCut(o)), OpenOrders \cup {o})
<1>1. PICK q : q = WithDates(o, RoughCut(o))
  OBVIOUS
<1>2. q[o] = RoughCut(o) /\ \A x \in Orders \ {o} : q[x] = plan[x]
  BY <1>1, RoughCutFollows, WithDatesDated
<1>3. ASSUME NEW w, NEW d, NEW s \in AllOperations, Within(q, OpenOrders \cup {o}, w, d, s)
      PROVE  Within(plan, OpenOrders, w, d, s)
  <2>1. PICK x \in Orders : \E i \in DOMAIN Routing[x] : s = <<x, i>>
    BY OperationsFinite
  <2>2. PICK i \in DOMAIN Routing[x] : s = <<x, i>> /\ s[1] = x /\ s[2] = i
    BY <2>1
  <2>3. x # o
    <3> SUFFICES ASSUME x = o PROVE FALSE
      OBVIOUS
    <3>1. RoughCut(o)[i].start = d /\ RoughCut(o)[i].end = d
      BY <1>2, <1>3, <2>2 DEF Within
    <3>2. RoughCut(o)[i].start < RoughCut(o)[i].end
      BY <2>2, RoughCutFollows
    <3>3. RoughCut(o)[i] \in Slots
      BY <2>2, RoughCutFollows
    <3>4. d \in Int /\ d < d
      BY <3>1, <3>2, <3>3 DEF Slots
    <3> QED BY <3>4
  <2> QED BY <1>2, <1>3, <2>2, <2>3 DEF Within
<1>4. Roomy(q, OpenOrders \cup {o})
  BY <1>3, RoomyWithFewer
<1> QED BY <1>1, <1>4

(* The refined dates fit, and follow one another unless one had no place. *)
LEMMA RefinedFits ==
  ASSUME Calendars, Dated(plan), Roomy(plan, OpenOrders), NEW o \in Orders, order[o].end \in Int
  PROVE  Refined(o) \in Refinements(o) /\ RefiningFits(o, Refined(o), 0)
<1>1. PICK n \in Nat : n = Len(Routing[o]) /\ DOMAIN Routing[o] = 1 .. n
  BY RoutingTyped
<1>2. PICK base : base = [slots |-> RoughCut(o), cursor |-> order[o].end, failed |-> FALSE]
  OBVIOUS
<1>3. base \in Refinements(o)
  BY <1>2, RoughCutFollows DEF Refinements, Turns
<1>4. RefiningFits(o, base, n)
  <2>1. PlacedBack(RoughCut(o), n, order[o].end)
    <3>1. \A j \in DOMAIN RoughCut(o) : ~ (j > n)
      BY <1>1, RoughCutFollows
    <3> QED BY <3>1 DEF PlacedBack
  <2> QED BY <1>2, <2>1, RoughCutFits DEF RefiningFits
<1> DEFINE Turn(t, k) == IF k = 0 THEN base ELSE RefineNext(o, t[k - 1], n + 1 - k)
           refining == CHOOSE t : t = [k \in 0 .. n |-> Turn(t, k)]
<1>5. Refined(o) = refining[n]
  BY <1>1, <1>2 DEF Refined
<1>6. PICK next \in [Refinements(o) \X (1 .. n) -> Refinements(o)] :
        \A x \in Refinements(o), k \in 1 .. n : next[<<x, k>>] = RefineNext(o, x, n + 1 - k)
  <2> DEFINE f == [x \in Refinements(o) \X (1 .. n) |-> RefineNext(o, x[1], n + 1 - x[2])]
  <2>1. \A k \in 1 .. n : n + 1 - k \in DOMAIN Routing[o]
    BY <1>1
  <2>2. f \in [Refinements(o) \X (1 .. n) -> Refinements(o)]
    BY <2>1, RefineKeeps
  <2>3. \A x \in Refinements(o), k \in 1 .. n : f[<<x, k>>] = RefineNext(o, x, n + 1 - k)
    OBVIOUS
  <2> HIDE DEF f
  <2> QED BY <2>2, <2>3
<1>7. PICK t \in [0 .. n -> Refinements(o)] :
        t[0] = base /\ \A k \in 1 .. n : t[k] = next[<<t[k - 1], k>>]
  <2>1. IsLoop(n, Refinements(o), base, next)
    BY <1>3, <1>6 DEF IsLoop
  <2>2. HasValues(n, Refinements(o), base, next)
    BY <2>1, LoopExists
  <2> QED BY <2>2 DEF HasValues
<1>8. ASSUME NEW k \in 0 .. n PROVE t[k] = Turn(t, k)
  <2>1. CASE k = 0
    BY <1>7, <2>1
  <2>2. CASE k # 0
    <3>1. k \in 1 .. n /\ k - 1 \in 0 .. n
      BY <2>2
    <3>2. t[k] = next[<<t[k - 1], k>>] /\ t[k - 1] \in Refinements(o)
      BY <1>7, <3>1
    <3>3. t[k] = RefineNext(o, t[k - 1], n + 1 - k)
      BY <1>6, <3>1, <3>2
    <3> QED BY <2>2, <3>3
  <2> QED BY <2>1, <2>2
<1>9. t = [k \in 0 .. n |-> Turn(t, k)]
  <2> HIDE DEF Turn
  <2> QED BY <1>7, <1>8
<1>10. refining = [k \in 0 .. n |-> Turn(refining, k)]
  BY <1>9
<1> HIDE DEF refining
<1>11. \A k \in 0 .. n : refining[k] = Turn(refining, k)
  BY <1>10
<1> DEFINE Q == {k \in 0 .. n : refining[k] \in Refinements(o) /\ RefiningFits(o, refining[k], n - k)}
<1>12. 0 \in Q
  <2>1. refining[0] = base /\ 0 \in 0 .. n /\ n - 0 = n
    BY <1>11
  <2> QED BY <1>3, <1>4, <2>1
<1>13. ASSUME NEW k \in 1 .. n, k - 1 \in Q PROVE k \in Q
  <2>1. k \in 0 .. n /\ k # 0
    OBVIOUS
  <2>2. PICK i \in DOMAIN Routing[o] : i = n + 1 - k
    <3>1. n + 1 - k \in 1 .. n
      OBVIOUS
    <3>2. n + 1 - k \in DOMAIN Routing[o]
      BY <1>1, <3>1
    <3> QED BY <3>2
  <2>3. n - (k - 1) = i /\ n - k = i - 1
    BY <1>1, <2>2
  <2>4. refining[k - 1] \in Refinements(o) /\ RefiningFits(o, refining[k - 1], i)
    BY <1>13, <2>3
  <2>5. refining[k] = RefineNext(o, refining[k - 1], i)
    BY <1>11, <2>1, <2>2
  <2>6. refining[k] \in Refinements(o) /\ RefiningFits(o, refining[k], i - 1)
    BY <2>4, <2>5, RefineKeeps
  <2> QED BY <2>1, <2>3, <2>6
<1>14. n \in Q
  <2>1. n \in 0 .. n
    OBVIOUS
  <2> HIDE DEF Q
  <2> QED BY <1>12, <1>13, <2>1, IndexInduction
<1>15. n - n = 0
  OBVIOUS
<1> QED BY <1>5, <1>14, <1>15

(* What the invariant says of the plans and the requests. *)
LEMMA InvariantGives ==
  ASSUME SchedulingInvariant
  PROVE  /\ Calendars /\ Dated(plan) /\ OpenOrders \in SUBSET Orders
         /\ \A o \in Orders : Converted(o) => DOMAIN plan[o] = DOMAIN Routing[o] /\ Len(plan[o]) = Len(Routing[o])
         /\ \A o \in Orders : order[o] \in OrderRow
         /\ \A c \in Planners : underway[c] # NoRequest =>
              /\ underway[c] \in Reschedules /\ underway[c].order \in Orders
              /\ Converted(underway[c].order) /\ SoFar(underway[c])
<1>1. SchedulingTyped
  BY DEF SchedulingInvariant
<1>2. Calendars /\ OpenOrders \in SUBSET Orders
  BY <1>1 DEF SchedulingTyped, OpenOrders
<1>3. ASSUME NEW o \in Orders
      PROVE  /\ DOMAIN plan[o] \subseteq DOMAIN Routing[o]
             /\ Converted(o) => DOMAIN plan[o] = DOMAIN Routing[o] /\ Len(plan[o]) = Len(Routing[o])
  <2>1. plan[o] \in Seq(Slots) /\ Len(plan[o]) = IF Converted(o) THEN Len(Routing[o]) ELSE 0
    BY <1>1 DEF SchedulingTyped
  <2>2. DOMAIN plan[o] = 1 .. Len(plan[o])
    BY <2>1
  <2> QED BY <2>1, <2>2, RoutingTyped
<1>4. Dated(plan)
  BY <1>1, <1>3 DEF Dated, SchedulingTyped
<1>5. \A o \in Orders : order[o] \in OrderRow
  BY <1>1 DEF SchedulingTyped
<1>6. ASSUME NEW c \in Planners, underway[c] # NoRequest
      PROVE  /\ underway[c] \in Reschedules /\ underway[c].order \in Orders
             /\ Converted(underway[c].order) /\ SoFar(underway[c])
  BY <1>1, <1>6 DEF SchedulingTyped, Reschedules
<1> QED BY <1>2, <1>3, <1>4, <1>5, <1>6

(* At first there is nothing. *)
LEMMA SchedulingStarts == InitScheduling => SchedulingInvariant
<1> SUFFICES ASSUME InitScheduling PROVE SchedulingInvariant
  OBVIOUS
<1>1. \A o \in Orders : ~ Converted(o) /\ o \notin OpenOrders /\ plan[o] = <<>>
  BY DEF InitScheduling, Converted, OpenOrders, OpenStatuses
<1>10. FirstCalendar \in ShopCalendars
  <2>1. \A w \in Centres : Capacity[w] \in Nat /\ Shift[w] \in [Dates -> Nat]
    BY CapacityTyped, RowAssumption DEF ShopCalendars
  <2> QED BY <2>1 DEF FirstCalendar, ShopCalendars
<1>11. calendar = FirstCalendar /\ hist.longest = FirstCalendar
  BY DEF InitScheduling
<1>2. Calendars
  <2>1. \A w \in Centres, d \in Dates : FirstCalendar[w][d] \in Nat
    BY <1>10 DEF ShopCalendars
  <2>2. \A w \in Centres, d \in Dates : FirstCalendar[w][d] <= FirstCalendar[w][d]
    BY <2>1
  <2> QED BY <1>10, <1>11, <2>2 DEF Calendars
<1>3. order \in [Orders -> OrderRow] /\ target \in [Orders -> Int]
  BY DEF InitScheduling, OrderRow, OrderStatuses
<1>4. hist \in History
  BY <1>10, OrdersAssumption DEF InitScheduling, History
<1>5. plan \in [Orders -> Seq(Slots)] /\ \A o \in Orders : Len(plan[o]) = 0
  BY DEF InitScheduling
<1>6. underway \in [Planners -> {NoRequest} \cup Reschedules] /\ \A c \in Planners : underway[c] = NoRequest
  BY DEF InitScheduling
<1>7. SchedulingTyped
  BY <1>1, <1>2, <1>3, <1>4, <1>5, <1>6 DEF SchedulingTyped
<1>8. Sequenced
  BY <1>1, <1>6 DEF Sequenced, SequencedAt, Placing, InOrder
<1>9. Roomy(plan, OpenOrders)
  <2> SUFFICES ASSUME NEW w \in Finite, NEW d \in Dates
               PROVE  SumFunction(HoursWithin(plan, OpenOrders, w, d)) <= Parts * hist.longest[w][d]
    BY DEF Roomy
  <2> DEFINE f == HoursWithin(plan, OpenOrders, w, d)
  <2>1. ASSUME NEW s \in AllOperations PROVE f[s] = 0
    <3>1. PICK x \in Orders : \E i \in DOMAIN Routing[x] : s = <<x, i>>
      BY OperationsFinite
    <3>2. s[1] = x
      BY <3>1
    <3>3. ~ Within(plan, OpenOrders, w, d, s)
      BY <1>1, <3>2 DEF Within
    <3> QED BY <3>3 DEF HoursWithin
  <2>2. f \in [AllOperations -> Nat]
    BY HoursWithinTyped
  <2>3. f \in [AllOperations -> Int] /\ IsFiniteSet(AllOperations)
    BY <2>2, OperationsFinite
  <2>4. Parts * hist.longest[w][d] \in Nat
    BY <1>2, ShiftTyped DEF Finite
  <2> HIDE DEF f
  <2>5. SumFunction(f) = 0
    BY <2>1, <2>3, SumZero
  <2> QED BY <2>4, <2>5 DEF f
<1> QED BY <1>7, <1>8, <1>9 DEF SchedulingInvariant

(* An order whose operations and requests a step leaves alone. *)
LEMMA SequencedElsewhere ==
  ASSUME NEW x, SequencedAt(x), plan'[x] = plan[x],
         \A c \in Planners : Placing(c, x)' <=> Placing(c, x),
         \A c \in Planners : Placing(c, x) => underway'[c] = underway[c]
  PROVE  SequencedAt(x)'
<1>1. ASSUME NEW c \in Planners, Placing(c, x)' PROVE InOrderSoFar(underway'[c], plan'[x])
  BY <1>1 DEF SequencedAt
<1>2. \A c, d \in Planners : Placing(c, x)' /\ Placing(d, x)' => c = d
  BY DEF SequencedAt
<1>3. (\A c \in Planners : ~ Placing(c, x)') => InOrder(plan'[x])
  BY DEF SequencedAt
<1> QED BY <1>1, <1>2, <1>3 DEF SequencedAt

(* Orders change their dates or are closed; nothing is placed. *)
LEMMA OrdersChange ==
  ASSUME SchedulingInvariant, UNCHANGED <<calendar, plan, underway, hist>>,
         order' \in [Orders -> OrderRow], target' \in [Orders -> Int],
         \A o \in Orders : Converted(o)' <=> Converted(o), OpenOrders' \subseteq OpenOrders
  PROVE  SchedulingInvariant'
<1>1. SchedulingTyped'
  <2>1. SchedulingTyped
    BY DEF SchedulingInvariant
  <2>2. \A o \in Orders : Len(plan'[o]) = IF Converted(o)' THEN Len(Routing[o]) ELSE 0
    BY <2>1 DEF SchedulingTyped
  <2>3. ASSUME NEW c \in Planners, underway'[c] # NoRequest
        PROVE  Converted(underway[c].order)' /\ SoFar(underway'[c])
    <3>1. underway'[c] = underway[c] /\ underway[c] # NoRequest
      BY <2>3
    <3>2. PICK x \in Orders : x = underway[c].order /\ Converted(x)
      BY <3>1, InvariantGives
    <3>3. Converted(x)'
      BY <3>2
    <3>4. Converted(underway[c].order)'
      BY <3>1, <3>2, <3>3 DEF Converted
    <3> QED BY <3>1, <3>4, InvariantGives
  <2> QED BY <2>1, <2>2, <2>3 DEF SchedulingTyped, Calendars
<1>2. Sequenced'
  <2> SUFFICES ASSUME NEW x \in Orders \ hist.spoilt PROVE SequencedAt(x)'
    BY DEF Sequenced
  <2>1. SequencedAt(x)
    BY DEF SchedulingInvariant, Sequenced
  <2> QED BY <2>1, SequencedElsewhere DEF Placing
<1>3. Roomy(plan, OpenOrders')
  <2>1. PICK some : some = OpenOrders'
    OBVIOUS
  <2>2. \A w, d, s : Within(plan, some, w, d, s) => Within(plan, OpenOrders, w, d, s)
    BY <2>1 DEF Within
  <2>3. Roomy(plan, some)
    BY <2>2, InvariantGives, RoomyWithFewer DEF SchedulingInvariant
  <2> QED BY <2>1, <2>3
<1> QED BY <1>1, <1>2, <1>3 DEF SchedulingInvariant, Roomy, HoursWithin, Within

LEMMA PlanSteps ==
  ASSUME SchedulingInvariant, NEW o \in Orders, Plan(o) PROVE SchedulingInvariant'
<1>1. PICK trial : /\ trial = Trial(o)
                   /\ order' = [order EXCEPT ![o] =
                        IF OptsIn(o) /\ trial # <<>>
                          THEN [status |-> "SUGGESTED", start |-> FirstStart(trial),
                                end |-> LastEnd(trial), receipt |-> LastEnd(trial)]
                          ELSE [status |-> "SUGGESTED", start |-> RoughRelease(o), end |-> Due[o],
                                receipt |-> Due[o]]]
  BY DEF Plan
<1>2. order[o].status = "NONE" /\ UNCHANGED <<calendar, plan, target, underway, hist>>
  BY DEF Plan
<1>3. trial \in Seq(Slots)
  BY <1>1, InvariantGives, TrialTyped
<1>4. trial # <<>> => FirstStart(trial) \in Int /\ LastEnd(trial) \in Int
  BY <1>3, EndsAreNumbers
<1>5. RoughRelease(o) \in Int /\ Due[o] \in Int
  BY RoughReleaseTyped, RowAssumption
<1>6. PICK row \in OrderRow : row.status = "SUGGESTED" /\ order' = [order EXCEPT ![o] = row]
  <2>1. CASE OptsIn(o) /\ trial # <<>>
    BY <1>1, <1>4, <2>1 DEF OrderRow, OrderStatuses
  <2>2. CASE ~ (OptsIn(o) /\ trial # <<>>)
    BY <1>1, <1>5, <2>2 DEF OrderRow, OrderStatuses
  <2> QED BY <2>1, <2>2
<1>7. order \in [Orders -> OrderRow] /\ target \in [Orders -> Int]
  BY DEF SchedulingInvariant, SchedulingTyped
<1>8. order' \in [Orders -> OrderRow] /\ \A x \in Orders : order'[x] = IF x = o THEN row ELSE order[x]
  BY <1>6, <1>7
<1>9. \A x \in Orders : Converted(x)' <=> Converted(x)
  BY <1>2, <1>6, <1>8 DEF Converted
<1>10. OpenOrders' \subseteq OpenOrders
  BY <1>2, <1>6, <1>8 DEF OpenOrders, OpenStatuses
<1> QED BY <1>2, <1>7, <1>8, <1>9, <1>10, OrdersChange

LEMMA ApplySteps ==
  ASSUME SchedulingInvariant, NEW o \in Orders, Apply(o) PROVE SchedulingInvariant'
<1>1. order \in [Orders -> OrderRow] /\ target \in [Orders -> Int]
  BY DEF SchedulingInvariant, SchedulingTyped
<1>2. PICK t \in Int : t = target[o]
  BY <1>1
<1>3. UNCHANGED <<calendar, plan, target, underway, hist>>
  BY DEF Apply
<1>4. PICK row \in OrderRow : row.status = order[o].status /\ order' = [order EXCEPT ![o] = row]
  <2>1. order[o] \in OrderRow
    BY <1>1
  <2>2. PICK row : row = [order[o] EXCEPT !.start = t, !.end = t, !.receipt = t]
    OBVIOUS
  <2>3. row \in OrderRow /\ row.status = order[o].status
    BY <2>1, <2>2 DEF OrderRow
  <2>4. order' = [order EXCEPT ![o] = row]
    BY <1>1, <1>2, <2>2 DEF Apply
  <2> QED BY <2>3, <2>4
<1>5. order' \in [Orders -> OrderRow] /\ \A x \in Orders : order'[x] = IF x = o THEN row ELSE order[x]
  BY <1>1, <1>4
<1>6. \A x \in Orders : order'[x].status = order[x].status
  BY <1>4, <1>5
<1>7. \A x \in Orders : Converted(x)' <=> Converted(x)
  BY <1>6 DEF Converted
<1>8. OpenOrders' \subseteq OpenOrders
  BY <1>6 DEF OpenOrders
<1> QED BY <1>1, <1>3, <1>5, <1>7, <1>8, OrdersChange

LEMMA LeaveSteps ==
  ASSUME SchedulingInvariant, NEW o \in Orders, Leave(o) PROVE SchedulingInvariant'
<1>1. order \in [Orders -> OrderRow] /\ target \in [Orders -> Int]
  BY DEF SchedulingInvariant, SchedulingTyped
<1>2. UNCHANGED <<calendar, plan, target, underway, hist>> /\ order[o].status \in OpenStatuses
  BY DEF Leave
<1>3. PICK row \in OrderRow : row.status = "CLOSED" /\ order' = [order EXCEPT ![o] = row]
  <2>1. order[o] \in OrderRow
    BY <1>1
  <2>2. PICK row : row = [order[o] EXCEPT !.status = "CLOSED"]
    OBVIOUS
  <2>3. row \in OrderRow /\ row.status = "CLOSED"
    BY <2>1, <2>2 DEF OrderRow, OrderStatuses
  <2>4. order' = [order EXCEPT ![o] = row]
    BY <1>1, <2>2 DEF Leave
  <2> QED BY <2>3, <2>4
<1>4. order' \in [Orders -> OrderRow] /\ \A x \in Orders : order'[x] = IF x = o THEN row ELSE order[x]
  BY <1>1, <1>3
<1>5. \A x \in Orders : Converted(x)' <=> Converted(x)
  BY <1>2, <1>3, <1>4 DEF Converted, OpenStatuses
<1>6. OpenOrders' \subseteq OpenOrders
  BY <1>2, <1>3, <1>4 DEF OpenOrders, OpenStatuses
<1> QED BY <1>1, <1>2, <1>4, <1>5, <1>6, OrdersChange

LEMMA LevelSteps ==
  ASSUME SchedulingInvariant, NEW w \in Centres, NEW day \in Dates, LevelLoad(w, day)
  PROVE  SchedulingInvariant'
<1>1. order \in [Orders -> OrderRow] /\ target \in [Orders -> Int] /\ Workdays(w) \in SUBSET Dates
  BY DEF SchedulingInvariant, SchedulingTyped, Workdays
<1>2. UNCHANGED <<calendar, order, plan, underway, hist>>
  BY DEF LevelLoad
<1>3. PICK before \in SUBSET Dates, after \in SUBSET Dates, o \in Orders :
        /\ before \cup after # {}
        /\ target' = [target EXCEPT ![o] = IF before # {} THEN Max(before) ELSE Min(after)]
  <2>1. PICK o \in Orders : \E fit :
          LET before == {d \in Workdays(w) : d < day /\ d \in fit}
              after  == {d \in Workdays(w) : d > day /\ d \in fit}
          IN  /\ before \cup after # {}
              /\ target' = [target EXCEPT ![o] = IF before # {} THEN Max(before) ELSE Min(after)]
    <3> DEFINE here(o) == {i \in DOMAIN Routing[o] : Routing[o][i].centre = w}
               fits(o, d) == DailyLoad(w, d).remaining >= Parts * Hours(o, Min(here(o)))
               before(o) == {d \in Workdays(w) : d < day /\ fits(o, d)}
               after(o) == {d \in Workdays(w) : d > day /\ fits(o, d)}
    <3>1. PICK o \in Orders :
            /\ before(o) \cup after(o) # {}
            /\ target' = [target EXCEPT ![o] = IF before(o) # {} THEN Max(before(o)) ELSE Min(after(o))]
      BY DEF LevelLoad
    <3>2. PICK fit : fit = {d \in Workdays(w) : fits(o, d)}
      OBVIOUS
    <3>3. /\ before(o) = {d \in Workdays(w) : d < day /\ d \in fit}
          /\ after(o) = {d \in Workdays(w) : d > day /\ d \in fit}
      <4> HIDE DEF fits
      <4> QED BY <3>2
    <3> HIDE DEF before, after
    <3> QED BY <3>1, <3>3
  <2>6. PICK fit :
          LET before == {d \in Workdays(w) : d < day /\ d \in fit}
              after  == {d \in Workdays(w) : d > day /\ d \in fit}
          IN  /\ before \cup after # {}
              /\ target' = [target EXCEPT ![o] = IF before # {} THEN Max(before) ELSE Min(after)]
    BY <2>1
  <2>2. PICK before : before = {d \in Workdays(w) : d < day /\ d \in fit}
    OBVIOUS
  <2>3. PICK after : after = {d \in Workdays(w) : d > day /\ d \in fit}
    OBVIOUS
  <2>4. before \in SUBSET Dates /\ after \in SUBSET Dates
    BY <1>1, <2>2, <2>3
  <2>5. /\ before \cup after # {}
        /\ target' = [target EXCEPT ![o] = IF before # {} THEN Max(before) ELSE Min(after)]
    BY <2>6, <2>2, <2>3
  <2> QED BY <2>4, <2>5
<1>4. (before # {} => Max(before) \in Dates) /\ (after # {} => Min(after) \in Dates)
  BY <1>3, LatestOf, EarliestOf
<1>5. \A d \in Dates : d \in Int
  BY PartsAssumption DEF Dates
<1>6. PICK t \in Int : target' = [target EXCEPT ![o] = t]
  BY <1>3, <1>4, <1>5
<1>7. target' \in [Orders -> Int]
  BY <1>1, <1>6
<1> QED BY <1>1, <1>2, <1>7, OrdersChange DEF Converted, OpenOrders

(* A calendar changes under what is placed. *)
LEMMA ExceptSteps ==
  ASSUME SchedulingInvariant, NEW w \in Centres, NEW d \in Dates, NEW hours \in Shifts,
         Except(w, d, hours)
  PROVE  SchedulingInvariant'
<1>1. UNCHANGED <<order, plan, target, underway>>
  BY DEF Except
<1>2. SchedulingTyped
  BY DEF SchedulingInvariant
<1>7. Calendars /\ hist \in History
  BY <1>2 DEF SchedulingTyped
<1>8. PICK at \in Nat, most \in Nat, shift \in Nat :
        /\ at = calendar[w][d] /\ most = hist.longest[w][d] /\ shift = hours /\ at <= most
  BY <1>7, ShiftTyped, RowAssumption DEF Calendars
<1>9. PICK more \in Nat : more = (IF most < shift THEN shift ELSE most) /\ most <= more /\ shift <= more
  OBVIOUS
<1>10. PICK longest \in ShopCalendars : longest = [hist.longest EXCEPT ![w][d] = more]
  <2>1. hist.longest \in ShopCalendars
    BY <1>7 DEF Calendars
  <2> QED BY <2>1 DEF ShopCalendars
<1>11. \A v \in Centres, e \in Dates :
         longest[v][e] = IF v = w /\ e = d THEN more ELSE hist.longest[v][e]
  BY <1>7, <1>10 DEF Calendars, ShopCalendars
<1>3. /\ calendar' \in ShopCalendars
      /\ \A v \in Centres, e \in Dates :
           calendar'[v][e] = IF v = w /\ e = d THEN shift ELSE calendar[v][e]
  <2>1. calendar \in ShopCalendars /\ calendar' = [calendar EXCEPT ![w][d] = shift]
    BY <1>7, <1>8 DEF Except, Calendars
  <2> QED BY <2>1 DEF ShopCalendars
<1>4. hist' \in History /\ hist'.spoilt = hist.spoilt /\ hist'.longest = longest
  <2>1. hist.edits < MaxEdits /\ hist' = [hist EXCEPT !.edits = @ + 1, !.longest = longest]
    <3>1. (IF hist.longest[w][d] < hours THEN hours ELSE hist.longest[w][d]) = more
      BY <1>8, <1>9
    <3>2. hist' = [hist EXCEPT !.edits = @ + 1,
             !.longest = [hist.longest EXCEPT ![w][d] =
                            IF hist.longest[w][d] < hours THEN hours ELSE hist.longest[w][d]]]
      BY <1>7 DEF Except, History
    <3> QED BY <1>10, <3>1, <3>2 DEF Except
  <2>2. hist.edits + 1 \in 0 .. MaxEdits
    BY <1>7, <2>1, OrdersAssumption DEF History
  <2> QED BY <1>7, <2>1, <2>2 DEF History
<1>12. Calendars'
  <2>1. ASSUME NEW v \in Centres, NEW e \in Dates PROVE calendar'[v][e] <= longest[v][e]
    <3>1. CASE v = w /\ e = d
      BY <1>3, <1>9, <1>11, <3>1
    <3>2. CASE ~ (v = w /\ e = d)
      BY <1>3, <1>7, <1>11, <3>2 DEF Calendars
    <3> QED BY <3>1, <3>2
  <2> QED BY <1>3, <1>4, <2>1 DEF Calendars
<1>5. SchedulingTyped'
  BY <1>1, <1>2, <1>4, <1>12 DEF SchedulingTyped, Converted
<1>6. Sequenced'
  <2> SUFFICES ASSUME NEW x \in Orders \ hist.spoilt PROVE SequencedAt(x)'
    BY <1>4 DEF Sequenced
  <2>1. SequencedAt(x)
    BY DEF SchedulingInvariant, Sequenced
  <2> QED BY <1>1, <2>1, SequencedElsewhere DEF Placing
<1>13. ASSUME NEW v \in Finite, NEW e \in Dates
       PROVE  SumFunction(HoursWithin(plan, OpenOrders, v, e)) <= Parts * longest[v][e]
  <2>1. v \in Centres
    BY DEF Finite
  <2>2. PICK before \in Nat, after \in Nat :
          before = hist.longest[v][e] /\ after = longest[v][e] /\ before <= after
    BY <1>7, <1>8, <1>9, <1>11, <2>1, ShiftTyped
  <2>3. Parts * before \in Nat /\ Parts * after \in Nat /\ Parts * before <= Parts * after
    BY <2>2, PartsAssumption, TimesNatural, TimesMonotone
  <2>4. SumFunction(HoursWithin(plan, OpenOrders, v, e)) <= Parts * before
    BY <2>2 DEF SchedulingInvariant, Roomy
  <2>5. SumFunction(HoursWithin(plan, OpenOrders, v, e)) \in Nat
    BY HoursWithinTyped, OperationsFinite, SumNatural
  <2> QED BY <2>2, <2>3, <2>4, <2>5
<1>14. OpenOrders' = OpenOrders /\ plan' = plan
  BY <1>1 DEF OpenOrders
<1> QED BY <1>4, <1>5, <1>6, <1>13, <1>14 DEF SchedulingInvariant, Roomy, HoursWithin, Within

(* A converted order has the operations of its routing, one behind the other, on days with
   room for them. *)
LEMMA ConvertSteps ==
  ASSUME SchedulingInvariant, NEW o \in Orders, Convert(o) PROVE SchedulingInvariant'
<1>1. PICK refined : /\ refined = Refined(o)
                     /\ plan' = [plan EXCEPT ![o] = IF OptsIn(o) THEN refined.slots ELSE RoughCut(o)]
                     /\ order' = [order EXCEPT ![o] =
                          IF OptsIn(o) /\ ~refined.failed
                            THEN [@ EXCEPT !.status = "PLANNED", !.start = FirstStart(refined.slots),
                                           !.end = LastEnd(refined.slots)]
                            ELSE [@ EXCEPT !.status = "PLANNED"]]
                     /\ hist' = [hist EXCEPT !.raced = Raced,
                          !.spoilt = IF OptsIn(o) /\ refined.failed THEN @ \cup {o} ELSE @]
  BY DEF Convert
<1>2. order[o].status = "SUGGESTED" /\ UNCHANGED <<calendar, target, underway>>
  BY DEF Convert
<1>3. /\ SchedulingTyped /\ Calendars /\ Dated(plan) /\ Roomy(plan, OpenOrders)
      /\ order[o] \in OrderRow /\ order[o].end \in Int
  BY InvariantGives DEF SchedulingInvariant, OrderRow
<1>4. refined \in Refinements(o) /\ RefiningFits(o, refined, 0)
  BY <1>1, <1>3, RefinedFits
<1>5. /\ refined.slots \in Seq(Slots) /\ Len(refined.slots) = Len(Routing[o])
      /\ refined.failed \in BOOLEAN
  BY <1>4 DEF Refinements, Turns
<1>6. PICK r : r = IF OptsIn(o) THEN refined.slots ELSE RoughCut(o)
  OBVIOUS
<1>7. /\ r \in Seq(Slots) /\ Len(r) = Len(Routing[o]) /\ DOMAIN r = DOMAIN Routing[o]
      /\ Roomy(WithDates(o, r), OpenOrders \cup {o})
  <2>1. CASE OptsIn(o)
    BY <1>4, <1>5, <1>6, <2>1, RoutingTyped DEF RefiningFits
  <2>2. CASE ~ OptsIn(o)
    BY <1>3, <1>6, <2>2, RoughCutFits, RoughCutFollows
  <2> QED BY <2>1, <2>2
<1>8. ~ (OptsIn(o) /\ refined.failed) => InOrder(r)
  <2>1. CASE OptsIn(o) /\ ~ refined.failed
    <3>1. PlacedBack(refined.slots, 0, refined.cursor)
      BY <1>4, <2>1 DEF RefiningFits
    <3>2. PICK n \in Nat : DOMAIN refined.slots = 1 .. n
      BY <1>5
    <3>3. InOrder(refined.slots)
      BY <3>1, <3>2 DEF PlacedBack, InOrder
    <3> QED BY <1>6, <2>1, <3>3
  <2>2. CASE ~ OptsIn(o)
    BY <1>3, <1>6, <2>2, RoughCutFollows
  <2> QED BY <2>1, <2>2
<1>9. plan' = WithDates(o, r)
  BY <1>1, <1>6 DEF WithDates
<1>10. plan' \in [Orders -> Seq(Slots)] /\ plan'[o] = r /\ \A x \in Orders \ {o} : plan'[x] = plan[x]
  BY <1>3, <1>7, <1>9, WithDatesDated DEF Dated
<1>11. PICK row \in OrderRow : row.status = "PLANNED" /\ order' = [order EXCEPT ![o] = row]
  <2>1. CASE OptsIn(o) /\ ~ refined.failed
    <3>1. refined.slots # <<>>
      BY <1>5, RoutingTyped
    <3>2. PICK first \in Int, last \in Int :
            first = FirstStart(refined.slots) /\ last = LastEnd(refined.slots)
      BY <1>5, <3>1, EndsAreNumbers
    <3>3. PICK row : row = [order[o] EXCEPT !.status = "PLANNED", !.start = first, !.end = last]
      OBVIOUS
    <3>4. row \in OrderRow /\ row.status = "PLANNED"
      BY <1>3, <3>3 DEF OrderRow, OrderStatuses
    <3>5. order' = [order EXCEPT ![o] = row]
      BY <1>1, <1>3, <2>1, <3>2, <3>3 DEF SchedulingTyped
    <3> QED BY <3>4, <3>5
  <2>2. CASE ~ (OptsIn(o) /\ ~ refined.failed)
    <3>1. PICK row : row = [order[o] EXCEPT !.status = "PLANNED"]
      OBVIOUS
    <3>2. row \in OrderRow /\ row.status = "PLANNED"
      BY <1>3, <3>1 DEF OrderRow, OrderStatuses
    <3>3. order' = [order EXCEPT ![o] = row]
      BY <1>1, <1>3, <2>2, <3>1 DEF SchedulingTyped
    <3> QED BY <3>2, <3>3
  <2> QED BY <2>1, <2>2
<1>12. order' \in [Orders -> OrderRow] /\ \A x \in Orders : order'[x] = IF x = o THEN row ELSE order[x]
  BY <1>3, <1>11 DEF SchedulingTyped
<1>13. ~ Converted(o) /\ \A x \in Orders : Converted(x)' <=> (x = o \/ Converted(x))
  BY <1>2, <1>11, <1>12 DEF Converted
<1>14. OpenOrders' = OpenOrders \cup {o}
  BY <1>2, <1>11, <1>12 DEF OpenOrders, OpenStatuses
<1>15. hist' \in History /\ hist.spoilt \subseteq hist'.spoilt /\ hist'.longest = hist.longest
       /\ (OptsIn(o) /\ refined.failed => o \in hist'.spoilt)
  <2>1. hist \in History /\ Raced \in BOOLEAN
    BY <1>3 DEF SchedulingTyped, Raced, History
  <2>2. PICK spoilt \in SUBSET Orders :
          spoilt = IF OptsIn(o) /\ refined.failed THEN hist.spoilt \cup {o} ELSE hist.spoilt
    BY <2>1 DEF History
  <2>3. hist' = [hist EXCEPT !.raced = Raced, !.spoilt = spoilt]
    BY <1>1, <2>2
  <2>4. hist' \in History /\ hist'.spoilt = spoilt /\ hist'.longest = hist.longest
    BY <2>1, <2>3 DEF History
  <2> QED BY <2>2, <2>4
<1>16. SchedulingTyped'
  <2>1. \A x \in Orders : Len(plan'[x]) = IF Converted(x)' THEN Len(Routing[x]) ELSE 0
    BY <1>3, <1>7, <1>10, <1>13 DEF SchedulingTyped
  <2>2. ASSUME NEW c \in Planners, underway'[c] # NoRequest
        PROVE  Converted(underway[c].order)' /\ SoFar(underway'[c])
    <3>1. underway'[c] = underway[c] /\ underway[c] # NoRequest
      BY <1>2, <2>2
    <3>2. PICK x \in Orders : x = underway[c].order /\ Converted(x)
      BY <3>1, InvariantGives
    <3>3. Converted(x)'
      BY <1>13, <3>2
    <3>4. Converted(underway[c].order)'
      BY <3>1, <3>2, <3>3 DEF Converted
    <3> QED BY <3>1, <3>4, InvariantGives
  <2> QED BY <1>2, <1>3, <1>10, <1>12, <1>15, <2>1, <2>2 DEF SchedulingTyped, Calendars
<1>17. \A c \in Planners : ~ Placing(c, o)
  BY <1>13, InvariantGives DEF Placing
<1>18. Sequenced'
  <2> SUFFICES ASSUME NEW x \in Orders, x \notin hist'.spoilt PROVE SequencedAt(x)'
    BY DEF Sequenced
  <2>1. SequencedAt(x)
    BY <1>15 DEF SchedulingInvariant, Sequenced
  <2>2. \A c \in Planners : (Placing(c, x)' <=> Placing(c, x)) /\ underway'[c] = underway[c]
    BY <1>2 DEF Placing
  <2>3. CASE x = o
    <3>1. InOrder(plan'[x])
      BY <1>8, <1>10, <1>15, <2>3
    <3>2. \A c \in Planners : ~ Placing(c, x)'
      BY <1>17, <2>2, <2>3
    <3> QED BY <3>1, <3>2 DEF SequencedAt
  <2>4. CASE x # o
    <3>1. plan'[x] = plan[x]
      BY <1>10, <2>4
    <3> QED BY <2>1, <2>2, <3>1, SequencedElsewhere
  <2> QED BY <2>3, <2>4
<1>19. Roomy(plan', OpenOrders')
  BY <1>7, <1>9, <1>14
<1> QED BY <1>15, <1>16, <1>18, <1>19 DEF SchedulingInvariant, Roomy, HoursWithin, Within

(* A request has placed nothing when it starts. *)
LEMMA RescheduleSteps ==
  ASSUME SchedulingInvariant, NEW c \in Planners, NEW o \in Orders, NEW mode \in Modes,
         Reschedule(c, o, mode)
  PROVE  SchedulingInvariant'
<1>1. /\ underway[c] = NoRequest /\ order[o].status \notin {"NONE", "SUGGESTED"}
      /\ hist.requests < MaxRequests /\ UNCHANGED <<calendar, order, plan, target>>
  BY DEF Reschedule
<1>2. SchedulingTyped
  BY DEF SchedulingInvariant
<1>3. Converted(o)
  BY <1>1 DEF Converted
<1>4. PICK n \in Nat \ {0} : n = Len(Routing[o]) /\ n = Len(plan[o]) /\ DOMAIN plan[o] = 1 .. n
  BY <1>3, RoutingTyped, InvariantGives
<1>5. order[o].end \in Int /\ order[o].start \in Int
  BY InvariantGives DEF OrderRow
<1>6. PICK r : r = [order |-> o, mode |-> mode, at |-> IF mode = "BACKWARD" THEN Len(plan[o]) ELSE 1,
                    cursor |-> IF mode = "BACKWARD" THEN order[o].end ELSE order[o].start,
                    slots |-> <<>>]
  OBVIOUS
<1>7. r \in Reschedules /\ r.order = o /\ r # NoRequest
  <2>1. r \in Reschedules
    BY <1>4, <1>5, <1>6 DEF Reschedules
  <2> QED BY <1>6, <2>1, RequestAssumption
<1>8. SoFar(r) /\ InOrderSoFar(r, plan[o])
  <2>1. CASE mode = "BACKWARD"
    <3>1. r.mode = "BACKWARD" /\ r.at = n /\ r.order = o /\ Len(r.slots) = 0
      BY <1>4, <1>6, <2>1
    <3>2. SoFar(r)
      <4>1. SoFar(r) <=> r.at \in 0 .. Len(Routing[o]) /\ Len(r.slots) = Len(Routing[o]) - r.at
        BY <3>1 DEF SoFar
      <4>2. n \in 0 .. n /\ 0 = n - n
        OBVIOUS
      <4> QED BY <1>4, <3>1, <4>1, <4>2
    <3>3. \A j \in DOMAIN plan[o] : ~ (j > n)
      BY <1>4
    <3> QED BY <3>1, <3>2, <3>3 DEF InOrderSoFar, PlacedBack
  <2>2. CASE mode # "BACKWARD"
    BY <1>4, <1>6, <2>2 DEF SoFar, InOrderSoFar, PlacedForth
  <2> QED BY <2>1, <2>2
<1>9. underway' = [underway EXCEPT ![c] = r]
  BY <1>6 DEF Reschedule
<1>10. /\ underway' \in [Planners -> {NoRequest} \cup Reschedules]
       /\ \A d \in Planners : underway'[d] = IF d = c THEN r ELSE underway[d]
  BY <1>2, <1>7, <1>9 DEF SchedulingTyped
<1>11. hist' \in History /\ hist.spoilt \subseteq hist'.spoilt /\ hist'.longest = hist.longest
       /\ (o \notin hist'.spoilt => \A d \in Planners : ~ Placing(d, o))
  <2>1. hist \in History /\ Raced \in BOOLEAN
    BY <1>2 DEF SchedulingTyped, Raced, History
  <2>2. PICK spoilt \in SUBSET Orders :
          spoilt = IF \E d \in Running : underway[d].order = o THEN hist.spoilt \cup {o} ELSE hist.spoilt
    BY <2>1 DEF History
  <2>3. hist' = [hist EXCEPT !.raced = Raced, !.requests = hist.requests + 1, !.spoilt = spoilt]
    BY <2>2 DEF Reschedule
  <2>4. hist.requests + 1 \in 0 .. MaxRequests
    BY <1>1, <2>1, OrdersAssumption DEF History
  <2>5. hist' \in History /\ hist'.spoilt = spoilt /\ hist'.longest = hist.longest
    BY <2>1, <2>3, <2>4 DEF History
  <2> QED BY <2>2, <2>5 DEF Placing, Running
<1>12. SchedulingTyped'
  <2>1. \A x \in Orders : Converted(x)' <=> Converted(x)
    BY <1>1 DEF Converted
  <2>2. ASSUME NEW d \in Planners, underway'[d] # NoRequest
        PROVE  Converted(underway[d].order)' /\ SoFar(underway'[d])
    <3>1. PICK x \in Orders : x = underway'[d].order /\ Converted(x)
      BY <1>3, <1>7, <1>10, <2>2, InvariantGives
    <3>2. Converted(x)'
      BY <2>1, <3>1
    <3>3. Converted(underway[d].order)'
      BY <3>1, <3>2 DEF Converted
    <3>4. SoFar(underway'[d])
      BY <1>8, <1>10, <2>2, InvariantGives
    <3> QED BY <3>3, <3>4
  <2>3. \A x \in Orders : Len(plan'[x]) = IF Converted(x)' THEN Len(Routing[x]) ELSE 0
    BY <1>1, <1>2, <2>1 DEF SchedulingTyped
  <2> QED BY <1>1, <1>2, <1>10, <1>11, <2>2, <2>3 DEF SchedulingTyped, Calendars
<1>13. Sequenced'
  <2> SUFFICES ASSUME NEW x \in Orders, x \notin hist'.spoilt PROVE SequencedAt(x)'
    BY DEF Sequenced
  <2>1. SequencedAt(x)
    BY <1>11 DEF SchedulingInvariant, Sequenced
  <2>2. \A d \in Planners : d # c => ((Placing(d, x)' <=> Placing(d, x)) /\ underway'[d] = underway[d])
    BY <1>10 DEF Placing
  <2>3. ~ Placing(c, x) /\ (Placing(c, x)' <=> x = o) /\ underway'[c] = r
    BY <1>1, <1>7, <1>10 DEF Placing
  <2>4. plan'[x] = plan[x]
    BY <1>1
  <2>5. CASE x = o
    <3>1. \A d \in Planners : Placing(d, x)' => d = c
      BY <1>11, <2>2, <2>5
    <3>2. InOrderSoFar(underway'[c], plan'[x])
      BY <1>8, <2>3, <2>4, <2>5
    <3>3. Placing(c, x)'
      BY <2>3, <2>5
    <3> QED BY <3>1, <3>2, <3>3 DEF SequencedAt
  <2>6. CASE x # o
    <3>1. \A d \in Planners : Placing(d, x)' <=> Placing(d, x)
      BY <2>2, <2>3, <2>6
    <3>2. \A d \in Planners : Placing(d, x) => underway'[d] = underway[d]
      BY <2>2, <2>3
    <3> QED BY <2>1, <2>4, <3>1, <3>2, SequencedElsewhere
  <2> QED BY <2>5, <2>6
<1>14. Roomy(plan', OpenOrders')
  BY <1>1 DEF OpenOrders, SchedulingInvariant
<1> QED BY <1>11, <1>12, <1>13, <1>14 DEF SchedulingInvariant, Roomy, HoursWithin, Within

(* A placement is saved, and the request goes on from it. *)
LEMMA PlaceNextSteps ==
  ASSUME SchedulingInvariant, NEW c \in Planners, PlaceNext(c) PROVE SchedulingInvariant'
<1>1. PICK r : r = underway[c]
  OBVIOUS
<1>2. r # NoRequest /\ r.at \in DOMAIN plan[r.order] /\ UNCHANGED <<calendar, order, target>>
  BY <1>1 DEF PlaceNext
<1>3. /\ SchedulingTyped /\ Calendars /\ Dated(plan) /\ Roomy(plan, OpenOrders)
      /\ OpenOrders \in SUBSET Orders
  BY InvariantGives DEF SchedulingInvariant
<1>4. PICK o \in Orders : o = r.order /\ r \in Reschedules /\ Converted(o) /\ SoFar(r)
  BY <1>1, <1>2, InvariantGives
<1>5. PICK n \in Nat \ {0} : n = Len(Routing[o]) /\ n = Len(plan[o]) /\ DOMAIN plan[o] = 1 .. n
                             /\ DOMAIN Routing[o] = 1 .. n
  BY <1>4, RoutingTyped, InvariantGives
<1>6. PICK i \in 1 .. n, cursor \in Int, mode \in Modes, slots \in Seq(Slots) :
        /\ i = r.at /\ cursor = r.cursor /\ mode = r.mode /\ slots = r.slots
        /\ r = [order |-> o, mode |-> mode, at |-> i, cursor |-> cursor, slots |-> slots]
  BY <1>2, <1>4, <1>5 DEF Reschedules
<1>7. PICK at : /\ at = Place(plan, OpenOrders, o, i, cursor, mode)
                /\ IF at.slot = NoPlace
                     THEN /\ underway' = [underway EXCEPT ![c] = NoRequest]
                          /\ hist' = [hist EXCEPT !.spoilt = @ \cup {r.order}]
                          /\ UNCHANGED plan
                     ELSE /\ plan' = [plan EXCEPT ![r.order][r.at] = at.slot]
                          /\ underway' = [underway EXCEPT ![c] =
                               [r EXCEPT !.at = IF r.mode = "BACKWARD" THEN @ - 1 ELSE @ + 1,
                                         !.cursor = at.cursor, !.slots = Append(@, at.slot)]]
                          /\ UNCHANGED hist
  BY <1>1, <1>4, <1>6 DEF PlaceNext
<1>8. Placing(c, o) /\ \A d \in Planners : o \notin hist.spoilt /\ Placing(d, o) => d = c
  BY <1>1, <1>2, <1>4 DEF Placing, SchedulingInvariant, Sequenced, SequencedAt
<1>9. \A x \in Orders : Converted(x)' <=> Converted(x)
  BY <1>2 DEF Converted
<1>10. OpenOrders' = OpenOrders
  BY <1>2 DEF OpenOrders
<1>11. CASE at.slot = NoPlace
  <2>1. underway' = [underway EXCEPT ![c] = NoRequest] /\ plan' = plan
        /\ hist' = [hist EXCEPT !.spoilt = @ \cup {o}]
    BY <1>4, <1>7, <1>11
  <2>2. hist' \in History /\ hist'.spoilt = hist.spoilt \cup {o} /\ hist'.longest = hist.longest
    BY <1>3, <2>1 DEF SchedulingTyped, History
  <2>3. /\ underway' \in [Planners -> {NoRequest} \cup Reschedules]
        /\ \A d \in Planners : underway'[d] = IF d = c THEN NoRequest ELSE underway[d]
    BY <1>3, <2>1 DEF SchedulingTyped
  <2>4. SchedulingTyped'
    <3>1. ASSUME NEW d \in Planners, underway'[d] # NoRequest
          PROVE  Converted(underway[d].order)' /\ SoFar(underway'[d])
      <4>1. underway'[d] = underway[d] /\ underway[d] # NoRequest
        BY <2>3, <3>1
      <4>2. PICK x \in Orders : x = underway[d].order /\ Converted(x)
        BY <4>1, InvariantGives
      <4>3. Converted(underway[d].order)'
        BY <1>9, <4>1, <4>2 DEF Converted
      <4> QED BY <4>1, <4>3, InvariantGives
    <3>2. \A x \in Orders : Len(plan'[x]) = IF Converted(x)' THEN Len(Routing[x]) ELSE 0
      BY <1>3, <1>9, <2>1 DEF SchedulingTyped
    <3> QED BY <1>2, <1>3, <2>1, <2>2, <2>3, <3>1, <3>2 DEF SchedulingTyped, Calendars
  <2>5. Sequenced'
    <3> SUFFICES ASSUME NEW x \in Orders, x \notin hist'.spoilt PROVE SequencedAt(x)'
      BY DEF Sequenced
    <3>1. SequencedAt(x) /\ x # o
      BY <2>2 DEF SchedulingInvariant, Sequenced
    <3>2. ~ Placing(c, x)
      BY <1>1, <1>4, <3>1 DEF Placing
    <3>3. \A d \in Planners : (Placing(d, x)' <=> Placing(d, x)) /\ (Placing(d, x) => underway'[d] = underway[d])
      BY <2>3, <3>2 DEF Placing
    <3> QED BY <2>1, <3>1, <3>3, SequencedElsewhere
  <2>6. Roomy(plan', OpenOrders')
    BY <1>3, <1>10, <2>1
  <2> QED BY <2>2, <2>4, <2>5, <2>6 DEF SchedulingInvariant, Roomy, HoursWithin, Within
<1>12. CASE at.slot # NoPlace
  <2>1. Follows(at, cursor, mode) /\ at.slot \in Slots /\ at.cursor \in Int
    BY <1>3, <1>5, <1>7, PlaceFollows DEF Follows
  <2>2. PICK j \in Int : j = IF mode = "BACKWARD" THEN i - 1 ELSE i + 1
    OBVIOUS
  <2>3. PICK more \in Seq(Slots) : more = Append(slots, at.slot) /\ Len(more) = Len(slots) + 1
    <3>1. PICK x \in Slots : x = at.slot
      BY <2>1
    <3>2. Append(slots, x) \in Seq(Slots) /\ Len(Append(slots, x)) = Len(slots) + 1
      OBVIOUS
    <3> QED BY <3>1, <3>2
  <2>4. PICK next : next = [r EXCEPT !.at = j, !.cursor = at.cursor, !.slots = more]
    OBVIOUS
  <2>5. /\ underway' = [underway EXCEPT ![c] = next] /\ hist' = hist
        /\ plan' = [plan EXCEPT ![o][i] = at.slot]
    <3>1. (IF r.mode = "BACKWARD" THEN r.at - 1 ELSE r.at + 1) = j
      BY <1>6, <2>2
    <3>2. Append(r.slots, at.slot) = more
      BY <1>6, <2>3
    <3> QED BY <1>4, <1>6, <1>7, <1>12, <2>4, <3>1, <3>2
  <2>6. /\ next \in Reschedules /\ next # NoRequest /\ next.order = o
        /\ next.mode = mode /\ next.at = j /\ next.cursor = at.cursor /\ next.slots = more
    <3>1. /\ next \in Reschedules /\ next.order = o
          /\ next.mode = mode /\ next.at = j /\ next.cursor = at.cursor /\ next.slots = more
      BY <1>4, <1>6, <2>1, <2>4 DEF Reschedules
    <3> QED BY <3>1, RequestAssumption
  <2>7. SoFar(next)
    <3>1. CASE mode = "BACKWARD"
      <4>1. Len(slots) = n - i
        BY <1>4, <1>5, <1>6, <3>1 DEF SoFar
      <4>2. j \in 0 .. n /\ Len(more) = n - j
        BY <2>2, <2>3, <3>1, <4>1
      <4> QED BY <1>5, <2>6, <3>1, <4>2 DEF SoFar
    <3>2. CASE mode # "BACKWARD"
      <4>1. Len(slots) = i - 1
        BY <1>4, <1>5, <1>6, <3>2 DEF SoFar
      <4>2. j \in 1 .. n + 1 /\ Len(more) = j - 1
        BY <2>2, <2>3, <3>2, <4>1
      <4> QED BY <1>5, <2>6, <3>2, <4>2 DEF SoFar
    <3> QED BY <3>1, <3>2
  <2>8. /\ underway' \in [Planners -> {NoRequest} \cup Reschedules]
        /\ \A d \in Planners : underway'[d] = IF d = c THEN next ELSE underway[d]
    BY <1>3, <2>5, <2>6 DEF SchedulingTyped
  <2>9. PICK q : q = [plan EXCEPT ![o][i] = at.slot]
    OBVIOUS
  <2>10. Dated(q) /\ (\A x \in Orders : DOMAIN q[x] = DOMAIN plan[x]) /\ Roomy(q, OpenOrders)
    <3>1. i \in DOMAIN plan[o]
      BY <1>5
    <3>2. at = Place(plan, OpenOrders, o, i, cursor, mode)
      BY <1>7
    <3>3. Places(plan, OpenOrders, o, i, cursor, mode, at, q)
      BY <1>3, <1>12, <2>9, <3>1, <3>2 DEF Places
    <3> QED BY <1>3, <3>3, PlacingKeepsRoomy
  <2>11. plan' = q
    BY <2>5, <2>9
  <2>12. q[o] = [plan[o] EXCEPT ![i] = at.slot] /\ \A x \in Orders \ {o} : q[x] = plan[x]
    BY <1>3, <2>9 DEF Dated
  <2>13. SchedulingTyped'
    <3>1. ASSUME NEW d \in Planners, underway'[d] # NoRequest
          PROVE  Converted(underway[d].order)' /\ SoFar(underway'[d])
      <4>1. PICK x \in Orders : x = underway'[d].order /\ Converted(x)
        BY <1>4, <2>6, <2>8, <3>1, InvariantGives
      <4>2. Converted(underway[d].order)'
        BY <1>9, <4>1 DEF Converted
      <4>3. SoFar(underway'[d])
        BY <2>7, <2>8, <3>1, InvariantGives
      <4> QED BY <4>2, <4>3
    <3>2. ASSUME NEW x \in Orders PROVE Len(q[x]) = IF Converted(x)' THEN Len(Routing[x]) ELSE 0
      <4>1. Len(plan[x]) = IF Converted(x)' THEN Len(Routing[x]) ELSE 0
        BY <1>3, <1>9 DEF SchedulingTyped
      <4>2. q[x] \in Seq(Slots) /\ plan[x] \in Seq(Slots) /\ DOMAIN q[x] = DOMAIN plan[x]
        BY <1>3, <2>10 DEF Dated
      <4>3. Len(q[x]) = Len(plan[x])
        BY <4>2
      <4> QED BY <4>1, <4>3
    <3> QED BY <1>2, <1>3, <2>5, <2>8, <2>10, <2>11, <3>1, <3>2 DEF SchedulingTyped, Dated, Calendars
  <2>14. Sequenced'
    <3> SUFFICES ASSUME NEW x \in Orders, x \notin hist.spoilt PROVE SequencedAt(x)'
      BY <2>5 DEF Sequenced
    <3>1. SequencedAt(x)
      BY DEF SchedulingInvariant, Sequenced
    <3>2. \A d \in Planners : Placing(d, x)' <=> Placing(d, x)
      BY <1>1, <1>2, <1>4, <2>6, <2>8 DEF Placing
    <3>3. CASE x = o
      <4>1. \A d \in Planners : Placing(d, x) => d = c
        BY <1>8, <3>3
      <4>2. InOrderSoFar(r, plan[o])
        BY <1>1, <1>8, <3>1, <3>3 DEF SequencedAt
      <4>3. PICK s \in Seq(Slots) : s = plan[o] /\ i \in DOMAIN s
        BY <1>3, <1>5 DEF Dated
      <4>4. q[o] = [s EXCEPT ![i] = at.slot]
        BY <2>12, <4>3
      <4>5. InOrderSoFar(next, q[o])
        <5>1. CASE mode = "BACKWARD"
          <6>1. PlacedBack(s, i, cursor)
            BY <1>6, <4>2, <4>3, <5>1 DEF InOrderSoFar
          <6>2. PlacedBack(q[o], i - 1, at.cursor)
            BY <1>12, <2>1, <4>3, <4>4, <5>1, <6>1, PlacingBack
          <6> QED BY <2>2, <2>6, <5>1, <6>2 DEF InOrderSoFar
        <5>2. CASE mode # "BACKWARD"
          <6>1. PlacedForth(s, i, cursor)
            BY <1>6, <4>2, <4>3, <5>2 DEF InOrderSoFar
          <6>2. PlacedForth(q[o], i + 1, at.cursor)
            BY <1>12, <2>1, <4>3, <4>4, <5>2, <6>1, PlacingForth
          <6> QED BY <2>2, <2>6, <5>2, <6>2 DEF InOrderSoFar
        <5> QED BY <5>1, <5>2
      <4>6. InOrderSoFar(underway'[c], plan'[x])
        BY <2>8, <2>11, <3>3, <4>5
      <4>7. Placing(c, x)'
        BY <1>8, <3>2, <3>3
      <4> QED BY <3>2, <4>1, <4>6, <4>7 DEF SequencedAt
    <3>4. CASE x # o
      <4>1. plan'[x] = plan[x]
        BY <2>11, <2>12, <3>4
      <4>2. \A d \in Planners : Placing(d, x) => underway'[d] = underway[d]
        BY <1>1, <1>4, <2>8, <3>4 DEF Placing
      <4> QED BY <3>1, <3>2, <4>1, <4>2, SequencedElsewhere
    <3> QED BY <3>3, <3>4
  <2>15. Roomy(plan', OpenOrders')
    BY <1>10, <2>10, <2>11
  <2> QED BY <2>5, <2>13, <2>14, <2>15 DEF SchedulingInvariant, Roomy, HoursWithin, Within
<1> QED BY <1>11, <1>12

(* All operations are placed, and the request is over. *)
LEMMA FinishSteps ==
  ASSUME SchedulingInvariant, NEW c \in Planners, Finish(c) PROVE SchedulingInvariant'
<1>1. PICK r : r = underway[c]
  OBVIOUS
<1>2. /\ r # NoRequest /\ r.at \notin DOMAIN plan[r.order] /\ UNCHANGED <<calendar, plan, target, hist>>
      /\ underway' = [underway EXCEPT ![c] = NoRequest]
      /\ order' = [order EXCEPT ![r.order].start = FirstStart(r.slots), ![r.order].end = LastEnd(r.slots)]
  BY <1>1 DEF Finish
<1>3. SchedulingTyped /\ Roomy(plan, OpenOrders)
  BY DEF SchedulingInvariant
<1>4. PICK o \in Orders : o = r.order /\ r \in Reschedules /\ Converted(o) /\ SoFar(r)
  BY <1>1, <1>2, InvariantGives
<1>5. PICK n \in Nat \ {0} : n = Len(Routing[o]) /\ DOMAIN plan[o] = 1 .. n
  BY <1>4, RoutingTyped, InvariantGives
<1>6. r.slots \in Seq(Slots) /\ r.mode \in Modes /\ r.at \in Int
  BY <1>4 DEF Reschedules
<1>7. (r.mode = "BACKWARD" => r.at = 0) /\ (r.mode # "BACKWARD" => r.at = n + 1) /\ Len(r.slots) = n
  BY <1>2, <1>4, <1>5, <1>6 DEF SoFar
<1>8. PICK first \in Int, last \in Int : first = FirstStart(r.slots) /\ last = LastEnd(r.slots)
  <2>1. r.slots # <<>>
    BY <1>6, <1>7
  <2> QED BY <1>6, <2>1, EndsAreNumbers
<1>9. PICK row \in OrderRow : row.status = order[o].status /\ order' = [order EXCEPT ![o] = row]
  <2>1. order[o] \in OrderRow /\ order \in [Orders -> OrderRow]
    BY <1>3 DEF SchedulingTyped
  <2>2. PICK row : row = [order[o] EXCEPT !.start = first, !.end = last]
    OBVIOUS
  <2>3. row \in OrderRow /\ row.status = order[o].status
    BY <2>1, <2>2 DEF OrderRow
  <2>4. order' = [order EXCEPT ![o] = row]
    BY <1>2, <1>4, <1>8, <2>1, <2>2
  <2> QED BY <2>3, <2>4
<1>10. order' \in [Orders -> OrderRow] /\ \A x \in Orders : order'[x].status = order[x].status
  BY <1>3, <1>9 DEF SchedulingTyped
<1>11. (\A x \in Orders : Converted(x)' <=> Converted(x)) /\ OpenOrders' = OpenOrders
  BY <1>10 DEF Converted, OpenOrders
<1>12. /\ underway' \in [Planners -> {NoRequest} \cup Reschedules]
       /\ \A d \in Planners : underway'[d] = IF d = c THEN NoRequest ELSE underway[d]
  BY <1>2, <1>3 DEF SchedulingTyped
<1>13. SchedulingTyped'
  <2>1. ASSUME NEW d \in Planners, underway'[d] # NoRequest
        PROVE  Converted(underway[d].order)' /\ SoFar(underway'[d])
    <3>1. underway'[d] = underway[d] /\ underway[d] # NoRequest
      BY <1>12, <2>1
    <3>2. PICK x \in Orders : x = underway[d].order /\ Converted(x)
      BY <3>1, InvariantGives
    <3>3. Converted(underway[d].order)'
      BY <1>11, <3>1, <3>2 DEF Converted
    <3> QED BY <3>1, <3>3, InvariantGives
  <2>2. \A x \in Orders : Len(plan'[x]) = IF Converted(x)' THEN Len(Routing[x]) ELSE 0
    BY <1>2, <1>3, <1>11 DEF SchedulingTyped
  <2> QED BY <1>2, <1>3, <1>10, <1>12, <2>1, <2>2 DEF SchedulingTyped, Calendars
<1>14. Sequenced'
  <2> SUFFICES ASSUME NEW x \in Orders, x \notin hist.spoilt PROVE SequencedAt(x)'
    BY <1>2 DEF Sequenced
  <2>1. SequencedAt(x) /\ plan'[x] = plan[x]
    BY <1>2 DEF SchedulingInvariant, Sequenced
  <2>2. \A d \in Planners : d # c => ((Placing(d, x)' <=> Placing(d, x)) /\ underway'[d] = underway[d])
    BY <1>12 DEF Placing
  <2>3. ~ Placing(c, x)' /\ (Placing(c, x) <=> x = o)
    BY <1>1, <1>2, <1>4, <1>12 DEF Placing
  <2>4. CASE x = o
    <3>1. \A d \in Planners : Placing(d, x) => d = c
      BY <2>1, <2>3, <2>4 DEF SequencedAt
    <3>2. \A d \in Planners : ~ Placing(d, x)'
      BY <2>2, <2>3, <3>1
    <3>3. InOrderSoFar(r, plan[o])
      BY <1>1, <2>1, <2>3, <2>4 DEF SequencedAt
    <3>4. InOrder(plan[o])
      <4>1. CASE r.mode = "BACKWARD"
        <5>1. PlacedBack(plan[o], 0, r.cursor)
          BY <1>7, <3>3, <4>1 DEF InOrderSoFar
        <5> QED BY <1>5, <5>1 DEF PlacedBack, InOrder
      <4>2. CASE r.mode # "BACKWARD"
        <5>1. PlacedForth(plan[o], n + 1, r.cursor)
          BY <1>7, <3>3, <4>2 DEF InOrderSoFar
        <5> QED BY <1>5, <5>1 DEF PlacedForth, InOrder
      <4> QED BY <4>1, <4>2
    <3> QED BY <2>1, <2>4, <3>2, <3>4 DEF SequencedAt
  <2>5. CASE x # o
    <3>1. \A d \in Planners : (Placing(d, x)' <=> Placing(d, x)) /\ (Placing(d, x) => underway'[d] = underway[d])
      BY <2>2, <2>3, <2>5
    <3> QED BY <2>1, <3>1, SequencedElsewhere
  <2> QED BY <2>4, <2>5
<1>15. Roomy(plan', OpenOrders')
  BY <1>2, <1>3, <1>11
<1> QED BY <1>2, <1>13, <1>14, <1>15 DEF SchedulingInvariant, Roomy, HoursWithin, Within

(* Every step keeps the invariant. *)
LEMMA SchedulingSteps == SchedulingInvariant /\ [NextScheduling]_schedulingVars => SchedulingInvariant'
<1> SUFFICES ASSUME SchedulingInvariant, [NextScheduling]_schedulingVars PROVE SchedulingInvariant'
  OBVIOUS
<1>1. ASSUME NEW o \in Orders, Plan(o) PROVE SchedulingInvariant'
  BY <1>1, PlanSteps
<1>2. ASSUME NEW o \in Orders, Apply(o) PROVE SchedulingInvariant'
  BY <1>2, ApplySteps
<1>3. ASSUME NEW o \in Orders, Convert(o) PROVE SchedulingInvariant'
  BY <1>3, ConvertSteps
<1>4. ASSUME NEW o \in Orders, Leave(o) PROVE SchedulingInvariant'
  BY <1>4, LeaveSteps
<1>5. ASSUME NEW w \in Centres, NEW d \in Dates, LevelLoad(w, d) PROVE SchedulingInvariant'
  BY <1>5, LevelSteps
<1>6. ASSUME NEW w \in Centres, NEW d \in Dates, NEW hours \in Shifts, Except(w, d, hours)
      PROVE  SchedulingInvariant'
  BY <1>6, ExceptSteps
<1>7. ASSUME NEW c \in Planners, NEW o \in Orders, NEW mode \in Modes, Reschedule(c, o, mode)
      PROVE  SchedulingInvariant'
  BY <1>7, RescheduleSteps
<1>8. ASSUME NEW c \in Planners, PlaceNext(c) PROVE SchedulingInvariant'
  BY <1>8, PlaceNextSteps
<1>9. ASSUME NEW c \in Planners, Finish(c) PROVE SchedulingInvariant'
  BY <1>9, FinishSteps
<1>10. CASE UNCHANGED schedulingVars
  <2>1. UNCHANGED <<calendar, order, plan, target, underway, hist>>
    BY <1>10 DEF schedulingVars
  <2>2. order' \in [Orders -> OrderRow] /\ target' \in [Orders -> Int]
    BY <2>1 DEF SchedulingInvariant, SchedulingTyped
  <2>3. (\A o \in Orders : Converted(o)' <=> Converted(o)) /\ OpenOrders' \subseteq OpenOrders
    BY <2>1 DEF Converted, OpenOrders
  <2> QED BY <2>1, <2>2, <2>3, OrdersChange
<1> QED BY <1>1, <1>2, <1>3, <1>4, <1>5, <1>6, <1>7, <1>8, <1>9, <1>10 DEF NextScheduling

(* On an overloaded day some operation is of several days, or the day has been cut: those
   of the day alone take no more than its longest shift. *)
LEMMA OverloadSpans ==
  ASSUME SchedulingInvariant, NEW w \in Finite, NEW d \in Dates, <<w, d>> \in CapacityLoad
  PROVE  \/ calendar[w][d] < hist.longest[w][d]
            /\ DailyLoad(w, d).scheduled <= Parts * hist.longest[w][d]
         \/ \E o \in OpenOrders : \E i \in DOMAIN plan[o] :
              /\ Routing[o][i].centre = w
              /\ plan[o][i].start <= d /\ d <= plan[o][i].end
              /\ plan[o][i].start < plan[o][i].end
<1>1. /\ Calendars /\ Dated(plan) /\ OpenOrders \in SUBSET Orders /\ Roomy(plan, OpenOrders)
      /\ w \in Centres
  BY InvariantGives DEF SchedulingInvariant, Finite
<1>2. PICK load : load = Committed(plan, OpenOrders, w, d, <<>>)
  OBVIOUS
<1>3. PICK cap \in Nat, now \in Nat :
        cap = Parts * hist.longest[w][d] /\ now = Parts * calendar[w][d] /\ now <= cap
  BY <1>1, ShiftTyped
<1>4. load > now /\ load = DailyLoad(w, d).scheduled
  BY <1>2, <1>3 DEF CapacityLoad, DailyLoad
<1>5. d \in Workdays(w)
  <2>1. d \notin Workdays(w) => load = 0
    BY <1>2 DEF Committed
  <2> QED BY <1>3, <1>4, <2>1
<1>6. load \in Nat
  BY <1>1, <1>2, <1>5, CommittedIsSum
<1>7. SumFunction(HoursWithin(plan, OpenOrders, w, d)) <= cap
  BY <1>1, <1>3 DEF Roomy
<1>8. PICK hours \in Nat : hours = SumFunction(HoursWithin(plan, OpenOrders, w, d))
  <2>1. HoursWithin(plan, OpenOrders, w, d) \in [AllOperations -> Nat] /\ IsFiniteSet(AllOperations)
    BY HoursWithinTyped, OperationsFinite
  <2> QED BY <2>1, SumNatural
<1>9. CASE load <= hours
  <2>1. load <= cap /\ ~ (now = cap)
    BY <1>3, <1>4, <1>6, <1>7, <1>8, <1>9
  <2>2. calendar[w][d] <= hist.longest[w][d] /\ calendar[w][d] # hist.longest[w][d]
    BY <1>1, <1>3, <2>1 DEF Calendars
  <2>3. calendar[w][d] < hist.longest[w][d]
    BY <1>1, <2>2, ShiftTyped
  <2> QED BY <1>3, <1>4, <2>1, <2>3
<1>10. CASE ~ (load <= hours)
  <2>1. PICK s \in CommittedOn(plan, OpenOrders, w, d, <<>>) :
          plan[s[1]][s[2]].start < plan[s[1]][s[2]].end
    BY <1>1, <1>2, <1>5, <1>8, <1>10, CommittedAtMost
  <2>2. /\ s[1] \in OpenOrders /\ s[2] \in DOMAIN plan[s[1]] /\ Routing[s[1]][s[2]].centre = w
        /\ Covers(plan[s[1]][s[2]], d)
    BY <1>1, <1>5, <2>1, CommittedOperation
  <2> QED BY <2>1, <2>2 DEF Covers
<1> QED BY <1>9, <1>10

LEMMA InvariantFits == SchedulingInvariant => OperationsFit
<1> SUFFICES ASSUME SchedulingInvariant PROVE OperationsFit
  OBVIOUS
<1>1. ASSUME NEW o \in Orders \ (hist.spoilt \cup {underway[c].order : c \in Running})
      PROVE  InOrder(plan[o])
  <2>1. SequencedAt(o)
    BY DEF SchedulingInvariant, Sequenced
  <2>2. \A c \in Planners : ~ Placing(c, o)
    BY DEF Placing, Running
  <2> QED BY <2>1, <2>2 DEF SequencedAt
<1>2. \A o \in Orders \ (hist.spoilt \cup {underway[c].order : c \in Running}) :
        \A i, j \in DOMAIN plan[o] : i < j => plan[o][i].end <= plan[o][j].start
  BY <1>1 DEF InOrder
<1> QED BY <1>2, OverloadSpans DEF OperationsFit

(* The operations of an order follow one another, whatever is rescheduled, closed or
   taken from a calendar in between, and a finite centre is overloaded on a day only by an
   operation of several days, or because the day was cut to less than its longest shift. *)
THEOREM OperationsFollowAndFit == SchedulingSpec => []OperationsFit
BY SchedulingStarts, SchedulingSteps, InvariantFits, PTL DEF SchedulingSpec

(* Orders, operations, requests and calendars keep their types, and an order has as many
   operations as its routing once it is converted. *)
THEOREM SchedulingTypesHold == SchedulingSpec => []SchedulingTyped
<1>1. SchedulingInvariant => SchedulingTyped
  BY DEF SchedulingInvariant
<1> QED BY SchedulingStarts, SchedulingSteps, <1>1, PTL DEF SchedulingSpec
================================================================================
