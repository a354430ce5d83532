------------------------------- MODULE WorkOrders -------------------------------
(***************************************************************************)
(* The execution of one work order: release, material issues, completions, *)
(* scrap, reversals, labour and overhead, closing, with the WIP account    *)
(* they post to (services/mrp/work_order_execution.py, _correction.py,     *)
(* _labour.py and _posting.py under the work_order_* endpoints).           *)
(*                                                                         *)
(* A request reads the order, its material line and the movement it        *)
(* reverses without a lock, and writes the fields it changes from what it  *)
(* read: every operation is a Load and a commit.  close_work_order saves   *)
(* the status and posts the variance in two transactions.                  *)
(*                                                                         *)
(* The order has one component, bought at ComponentCost; its manufacturing *)
(* profile has every account.  Products are carried at average cost, under *)
(* strict stock.  Unit costs and amounts are whole numbers.                *)
(***************************************************************************)
EXTENDS Requests, Rounding, Sequences, Functions, FiniteSetsExt

CONSTANTS
  Quantity,      \* finished units planned
  Required,      \* components the order requires
  ComponentCost, \* what a component cost
  StandardCost,  \* Product.standard_cost of the finished product
  Stock,         \* components on hand at first
  Rate,          \* labour and overhead an hour at the work centre absorbs
  Bookings,      \* hours of each a booking may record
  MaxMovements,  \* bound: issues and completions
  MaxHours       \* bound: hours booked

ASSUME PlanAssumption ==
  /\ Quantity \in Nat \ {0} /\ Required \in Nat \ {0} /\ Stock \in Nat
  /\ ComponentCost \in Nat /\ StandardCost \in Nat
  /\ Rate \in [{"labour", "overhead"} -> Nat] /\ Bookings \subseteq [{"labour", "overhead"} -> Nat]
ASSUME WorkAssumption == MaxMovements \in Nat /\ MaxHours \in Nat

VARIABLES
  wo,     \* WorkOrder
  mat,    \* its WorkOrderMaterial
  moves,  \* its issues and completions, in order, and what was taken back of each
  comp,   \* components on hand
  fin,    \* finished units on hand, and their average cost
  hours,  \* the operation's actual hours: labour and overhead
  gl      \* balances of the accounts of the manufacturing profile

workOrderVars == <<wo, mat, moves, comp, fin, hours, gl, req, overlaps>>

OrderStatuses == {"PLANNED", "FIRM", "RELEASED", "PARTIALLY_COMPLETED", "COMPLETED", "CANCELLED",
             "CLOSED"}
Operational == {"RELEASED", "PARTIALLY_COMPLETED"}

(* material, labour, overhead: the wip_*_cost; goods: finished_goods_cost; cleared:
   variance_journal is set. *)
WorkOrder == [status : OrderStatuses, completed : Int, scrapped : Nat, material : Int, labour : Nat,
              overhead : Nat, goods : Int, cleared : BOOLEAN]
WorkOrderMaterial == [status : {"OPEN", "PARTIALLY_ISSUED", "ISSUED"}, issued : Int, scrapped : Nat,
                      cost : Int]
Hours == [{"labour", "overhead"} -> Nat]

NoHours == [k \in {"labour", "overhead"} |-> 0]

(* An issue or a completion; back is the value of the movements that reversed it. *)
OrderMovement == [kind : {"ISSUE", "COMPLETION"}, qty : Nat, cost : Nat, reversed : Nat, back : Int]

(* ManufacturingAccountingProfile, every account of it set. *)
WipAccounts == {"wip", "raw_material", "finished_goods", "variance", "labour", "overhead"}

InitWorkOrder ==
  /\ wo = [status |-> "PLANNED", completed |-> 0, scrapped |-> 0, material |-> 0, labour |-> 0,
           overhead |-> 0, goods |-> 0, cleared |-> FALSE]
  /\ mat = [status |-> "OPEN", issued |-> 0, scrapped |-> 0, cost |-> 0]
  /\ moves = <<>>
  /\ comp = Stock
  /\ fin = [qty |-> 0, avg |-> 0]
  /\ hours = NoHours
  /\ gl = [a \in WipAccounts |-> 0]
  /\ InitRequests

(* A request, of q units, to reverse movement m or to book hours, reads the order, the
   line, the operation and the movement. *)
ReadOrder(c, op, q, m, booked) ==
  /\ req[c] = Idle
  /\ Start
  /\ req' = [req EXCEPT ![c] = [op |-> op, qty |-> q, move |-> m, booked |-> booked, wo |-> wo,
                                mat |-> mat, hours |-> hours,
                                orig |-> IF m = 0 THEN {} ELSE {moves[m]}]]
  /\ UNCHANGED <<wo, mat, moves, comp, fin, hours, gl>>

LoadOrder(c, op, q, m) == ReadOrder(c, op, q, m, NoHours)

Doing(c, op) == req[c] # Idle /\ req[c].op = op

(* The movement a request reverses, as it read it. *)
Original(c) == CHOOSE m \in req[c].orig : TRUE

-----------------------------------------------------------------------------
(* The endpoints' first half: what they check before they move or write. *)
LoadFirm(c) == wo.status = "PLANNED" /\ LoadOrder(c, "firm", 0, 0)

LoadRelease(c) == wo.status \in {"PLANNED", "FIRM"} /\ LoadOrder(c, "release", 0, 0)

LoadCancel(c) ==
  /\ wo.completed <= 0 /\ mat.issued <= 0
  /\ wo.status \in {"PLANNED", "FIRM", "RELEASED"}
  /\ LoadOrder(c, "cancel", 0, 0)

LoadClose(c) == wo.status = "COMPLETED" /\ LoadOrder(c, "close", 0, 0)

LoadIssue(c, q) ==
  /\ wo.status \in Operational
  /\ q <= Required - mat.issued
  /\ comp >= q
  /\ Len(moves) < MaxMovements
  /\ LoadOrder(c, "issue", q, 0)

LoadComplete(c, q) ==
  /\ wo.status \in Operational
  /\ wo.completed + q <= Quantity
  /\ Len(moves) < MaxMovements
  /\ LoadOrder(c, "complete", q, 0)

LoadScrapMaterial(c, q) ==
  /\ wo.status \in Operational
  /\ q <= mat.issued - mat.scrapped
  /\ LoadOrder(c, "scrap_material", q, 0)

LoadScrapGoods(c, q) ==
  /\ wo.status \in Operational
  /\ wo.completed + wo.scrapped + q <= Quantity
  /\ LoadOrder(c, "scrap_goods", q, 0)

(* Reversing looks at the movement, never at what was scrapped of it. *)
LoadReverse(c, m, q) ==
  /\ wo.status \notin {"CLOSED", "CANCELLED"}
  /\ q <= moves[m].qty - moves[m].reversed
  /\ moves[m].kind = "COMPLETION" => fin.qty >= q
  /\ LoadOrder(c, "reverse", q, m)

(* _guard: labour and overhead are booked on orders under way. *)
LoadBook(c, booked) ==
  /\ wo.status \in Operational
  /\ \E k \in DOMAIN booked : booked[k] > 0
  /\ hours["labour"] + hours["overhead"] + booked["labour"] + booked["overhead"] <= MaxHours
  /\ ReadOrder(c, "book", 0, 0, booked)

(* issue_all_available_materials: what is left of the requirement, or what there is. *)
LoadIssueAll(c) == Min({Required - mat.issued, comp}) > 0 /\ LoadIssue(c, Min({Required - mat.issued, comp}))

-----------------------------------------------------------------------------
(* The endpoints of the order's page, one for each form on it. *)
WorkOrderAction(c) == LoadFirm(c) \/ LoadCancel(c) \/ LoadClose(c)
WorkOrderRelease(c) == LoadRelease(c)
WorkOrderIssue(c) == LoadIssueAll(c) \/ \E q \in 1 .. Required : LoadIssue(c, q)
WorkOrderComplete(c) == \E q \in 1 .. Quantity : LoadComplete(c, q)
WorkOrderCorrect(c) ==
  \/ \E q \in 1 .. Required : LoadScrapMaterial(c, q)
  \/ \E q \in 1 .. Quantity : LoadScrapGoods(c, q)
  \/ \E m \in 1 .. Len(moves) : \E q \in 1 .. moves[m].qty : LoadReverse(c, m, q)
WorkOrderBook(c) == \E booked \in Bookings : LoadBook(c, booked)

-----------------------------------------------------------------------------
(* _post: the same amount on both sides; nothing is posted when there is none. *)
Posted(book, debit, credit, amount) ==
  IF amount <= 0 THEN book ELSE [book EXCEPT ![debit] = @ + amount, ![credit] = @ - amount]

PostIssue(amount) == gl' = Posted(gl, "wip", "raw_material", amount)
PostCompletion(amount) == gl' = Posted(gl, "finished_goods", "wip", amount)
PostMaterialScrap(amount) == gl' = Posted(gl, "variance", "wip", amount)
PostGoodsScrap(amount) == gl' = Posted(gl, "variance", "wip", amount)
PostIssueReversal(amount) == gl' = Posted(gl, "raw_material", "wip", amount)
PostCompletionReversal(amount) == gl' = Posted(gl, "wip", "finished_goods", amount)

(* A booking of both kinds is two journals. *)
PostBooking(amount) ==
  gl' = Posted(Posted(gl, "wip", "labour", amount["labour"]), "wip", "overhead", amount["overhead"])

(* _update_material_status. *)
WithMaterialStatus(line) ==
  [line EXCEPT !.status = IF line.issued <= 0 THEN "OPEN"
                          ELSE IF line.issued < Required THEN "PARTIALLY_ISSUED" ELSE "ISSUED"]

-----------------------------------------------------------------------------
(* firm_work_order, release_work_order, cancel_work_order save the status. *)
SaveStatus(c) ==
  /\ req[c] # Idle /\ req[c].op \in {"firm", "release", "cancel"}
  /\ wo' = [wo EXCEPT !.status = CASE req[c].op = "firm" -> "FIRM"
                                   [] req[c].op = "release" -> "RELEASED"
                                   [] req[c].op = "cancel" -> "CANCELLED"]
  /\ Answer(c)
  /\ UNCHANGED <<mat, moves, comp, fin, hours, gl>>

(* issue_material: stock out, cost into the line, the order and the WIP account. *)
Issue(c) ==
  LET q == req[c].qty  cost == q * ComponentCost
  IN  /\ Doing(c, "issue")
      /\ comp >= q
      /\ comp' = comp - q
      /\ moves' = Append(moves, [kind |-> "ISSUE", qty |-> q, cost |-> ComponentCost, reversed |-> 0,
                                 back |-> 0])
      /\ mat' = WithMaterialStatus([mat EXCEPT !.issued = req[c].mat.issued + q,
                                            !.cost = req[c].mat.cost + cost])
      /\ wo' = [wo EXCEPT !.material = req[c].wo.material + cost]
      /\ PostIssue(cost)
      /\ Answer(c)
      /\ UNCHANGED <<fin, hours>>

(* What WIP is left to absorb, by the order's own figures. *)
Remaining(w) == w.material + w.labour + w.overhead - w.goods

(* _completion_unit_cost: it is spread over the units still to complete. *)
CompletionUnitCost(w) ==
  IF Remaining(w) > 0 /\ Quantity > w.completed
    THEN HalfUp(Remaining(w), Quantity - w.completed)
    ELSE StandardCost

Progress(n) == IF n >= Quantity THEN "COMPLETED" ELSE "PARTIALLY_COMPLETED"

(* complete_work_order: finished units in at the completion cost. *)
Complete(c) ==
  LET q == req[c].qty  old == req[c].wo  unit == CompletionUnitCost(old)
  IN  /\ Doing(c, "complete")
      /\ fin' = [qty |-> fin.qty + q,
                 avg |-> HalfUp(fin.qty * fin.avg + q * unit, fin.qty + q)]
      /\ moves' = Append(moves, [kind |-> "COMPLETION", qty |-> q, cost |-> unit, reversed |-> 0,
                                 back |-> 0])
      /\ wo' = [wo EXCEPT !.completed = old.completed + q, !.goods = old.goods + q * unit,
                          !.status = Progress(old.completed + q)]
      /\ PostCompletion(q * unit)
      /\ Answer(c)
      /\ UNCHANGED <<mat, comp, hours>>

(* scrap_work_order_material: its share of the issued cost leaves WIP. *)
ScrapMaterial(c) ==
  LET q == req[c].qty  old == req[c].mat  value == HalfUp(old.cost * q, old.issued)
  IN  /\ Doing(c, "scrap_material")
      /\ mat' = [mat EXCEPT !.scrapped = old.scrapped + q]
      /\ wo' = [wo EXCEPT !.material = req[c].wo.material - value]
      /\ PostMaterialScrap(value)
      /\ Answer(c)
      /\ UNCHANGED <<moves, comp, fin, hours>>

(* Slip: units scrapped before they are stock leave the WIP account untouched. *)
ScrapGoodsUnposted(c) ==
  LET q == req[c].qty  old == req[c].wo  value == q * CompletionUnitCost(old)
  IN  /\ Doing(c, "scrap_goods")
      /\ wo' = [wo EXCEPT !.scrapped = old.scrapped + q, !.material = old.material - value]
      /\ Answer(c)
      /\ UNCHANGED <<mat, moves, comp, fin, hours, gl>>

(* scrap_finished_goods: as if completed, and lost. *)
ScrapGoods(c) ==
  LET q == req[c].qty  old == req[c].wo  value == q * CompletionUnitCost(old)
  IN  /\ Doing(c, "scrap_goods")
      /\ wo' = [wo EXCEPT !.scrapped = old.scrapped + q, !.material = old.material - value]
      /\ PostGoodsScrap(value)
      /\ Answer(c)
      /\ UNCHANGED <<mat, moves, comp, fin, hours>>

(* A reversal is marked on the movement it takes back. *)
MarkReversed(c, value) ==
  moves' = [moves EXCEPT ![req[c].move].reversed = Original(c).reversed + req[c].qty,
                         ![req[c].move].back = @ + value]

(* Slip: the material line is not found, and keeps its issued quantity. *)
ReverseIssueOffLine(c) ==
  LET q == req[c].qty  value == q * Original(c).cost
  IN  /\ Doing(c, "reverse") /\ Original(c).kind = "ISSUE"
      /\ comp' = comp + q
      /\ MarkReversed(c, value)
      /\ wo' = [wo EXCEPT !.material = req[c].wo.material - value]
      /\ PostIssueReversal(value)
      /\ Answer(c)
      /\ UNCHANGED <<mat, fin, hours>>

(* reverse_work_order_issue: back into stock at the issue's cost. *)
ReverseIssue(c) ==
  LET q == req[c].qty  value == q * Original(c).cost
  IN  /\ Doing(c, "reverse") /\ Original(c).kind = "ISSUE"
      /\ comp' = comp + q
      /\ MarkReversed(c, value)
      /\ mat' = WithMaterialStatus([mat EXCEPT !.issued = req[c].mat.issued - q,
                                            !.cost = req[c].mat.cost - value])
      /\ wo' = [wo EXCEPT !.material = req[c].wo.material - value]
      /\ PostIssueReversal(value)
      /\ Answer(c)
      /\ UNCHANGED <<fin, hours>>

(* The status after n units are left completed. *)
StatusAfterReversal(n, status) ==
  IF n <= 0 THEN "RELEASED" ELSE IF n < Quantity THEN "PARTIALLY_COMPLETED" ELSE status

(* reverse_work_order_completion: out of stock at the average cost, and its value
   both off the finished goods cost and onto the material cost. *)
ReverseCompletion(c) ==
  LET q == req[c].qty  old == req[c].wo  value == q * fin.avg
  IN  /\ Doing(c, "reverse") /\ Original(c).kind = "COMPLETION"
      /\ fin.qty >= q
      /\ fin' = [fin EXCEPT !.qty = @ - q]
      /\ MarkReversed(c, value)
      /\ wo' = [wo EXCEPT !.completed = old.completed - q, !.goods = old.goods - value,
                          !.material = old.material + value,
                          !.status = StatusAfterReversal(old.completed - q, old.status)]
      /\ PostCompletionReversal(value)
      /\ Answer(c)
      /\ UNCHANGED <<mat, comp, hours>>

(* _book, for each kind that has hours: they are absorbed at the work centre's rate. *)
Book(c) ==
  LET booked == req[c].booked  old == req[c].wo  amount == [k \in DOMAIN booked |-> booked[k] * Rate[k]]
  IN  /\ Doing(c, "book")
      /\ hours' = [k \in DOMAIN hours |-> IF booked[k] > 0 THEN req[c].hours[k] + booked[k] ELSE hours[k]]
      /\ wo' = [wo EXCEPT !.labour = IF booked["labour"] > 0 THEN old.labour + amount["labour"] ELSE @,
                          !.overhead = IF booked["overhead"] > 0 THEN old.overhead + amount["overhead"] ELSE @]
      /\ PostBooking(amount)
      /\ Answer(c)
      /\ UNCHANGED <<mat, moves, comp, fin>>

(* close_work_order saves the status first ... *)
Close(c) ==
  /\ Doing(c, "close")
  /\ wo' = [wo EXCEPT !.status = "CLOSED"]
  /\ req' = [req EXCEPT ![c].op = "variance"]
  /\ UNCHANGED <<mat, moves, comp, fin, hours, gl, overlaps>>

(* What is left of WIP is a loss, or a gain. *)
PostVariance(left) ==
  gl' = IF left > 0 THEN Posted(gl, "variance", "wip", left) ELSE Posted(gl, "wip", "variance", -left)

(* ... and posts what WIP the order has left to the variance account, once. *)
CloseVariance(c) ==
  LET left == Remaining(req[c].wo)
  IN  /\ Doing(c, "variance")
      /\ IF wo.cleared \/ left = 0
           THEN UNCHANGED <<gl, wo>>
           ELSE PostVariance(left) /\ wo' = [wo EXCEPT !.cleared = TRUE]
      /\ Answer(c)
      /\ UNCHANGED <<mat, moves, comp, fin, hours>>

(* The process dies between the two: a work order that was closed keeps its status
   without the variance.  Any other request that fails has changed nothing. *)
CloseFails(c) ==
  /\ Doing(c, "variance")
  /\ Answer(c)
  /\ UNCHANGED <<wo, mat, moves, comp, fin, hours, gl>>

(* A finished unit is sold. *)
SellFinished ==
  /\ fin.qty > 0
  /\ fin' = [fin EXCEPT !.qty = @ - 1]
  /\ UNCHANGED <<wo, mat, moves, comp, hours, gl, req, overlaps>>

NextWorkOrder ==
  \/ SellFinished
  \/ \E c \in Clients :
       \/ WorkOrderAction(c) \/ WorkOrderRelease(c) \/ WorkOrderIssue(c) \/ WorkOrderComplete(c)
       \/ WorkOrderCorrect(c) \/ WorkOrderBook(c)
       \/ SaveStatus(c) \/ Issue(c) \/ Complete(c) \/ ScrapMaterial(c) \/ ScrapGoods(c)
       \/ ReverseIssue(c) \/ ReverseCompletion(c) \/ Book(c) \/ Close(c) \/ CloseVariance(c)
       \/ CloseFails(c)

WorkOrderSpec == InitWorkOrder /\ [][NextWorkOrder]_workOrderVars

-----------------------------------------------------------------------------
(* Every variable keeps its type, and no more than was moved is marked as
   reversed, though the mark is read before the product is locked. *)
WorkOrderTypes ==
  /\ wo \in WorkOrder /\ mat \in WorkOrderMaterial
  /\ moves \in Seq(OrderMovement)
  /\ \A m \in DOMAIN moves : moves[m].reversed <= moves[m].qty
  /\ comp \in Nat /\ fin \in [qty : Nat, avg : Nat] /\ hours \in Hours
  /\ gl \in [WipAccounts -> Int]
  /\ \A c \in Clients : req[c] = Idle \/ req[c].wo \in WorkOrder
  /\ overlaps \in 0 .. MaxOverlaps

(* The units of a kind of movements that were not reversed. *)
Left(kind) ==
  SumFunction([m \in DOMAIN moves |->
                 IF moves[m].kind = kind THEN moves[m].qty - moves[m].reversed ELSE 0])

(* Value of the completions reversed, which the order's figures count twice. *)
Restored ==
  SumFunction([m \in DOMAIN moves |-> IF moves[m].kind = "COMPLETION" THEN moves[m].back ELSE 0])

(* The value the movements of a kind brought in, less what was taken back. *)
Net(kind) ==
  SumFunction([m \in DOMAIN moves |->
                 IF moves[m].kind = kind THEN moves[m].qty * moves[m].cost - moves[m].back ELSE 0])

(* The accounts follow the movements, through scrap, reversals and races: raw material went
   out by what was issued, finished goods came in by what was completed.  As long as
   requests do not overlap, the WIP account is what the order's own figures say is left,
   nothing once it is closed, but for the completions that were reversed
   (work_order_posting.py against wip_*_cost and finished_goods_cost). *)
WipMatchesOrder ==
  /\ gl["raw_material"] = -Net("ISSUE") /\ gl["finished_goods"] = Net("COMPLETION")
  /\ calm => gl["wip"] = (IF wo.cleared THEN 0 ELSE Remaining(wo)) - Restored

(* As long as requests do not overlap, the line and the order agree with the movements:
   what was issued and not reversed is out of stock and on the line, what was completed
   and not reversed is on the order (issued_quantity, quantity_completed,
   reversed_quantity).  The status follows, through every reversal; only an order with
   nothing issued or completed is cancelled, and only a whole one closed. *)
OrderFollowsMovements ==
  calm =>
    /\ mat.issued = Left("ISSUE") /\ comp = Stock - mat.issued
    /\ mat.status = "ISSUED" <=> mat.issued = Required
    /\ wo.completed = Left("COMPLETION")
    /\ CASE wo.status \in {"PLANNED", "FIRM", "CANCELLED"} -> wo.completed = 0 /\ mat.issued = 0
         [] wo.status = "RELEASED" -> wo.completed = 0
         [] wo.status = "PARTIALLY_COMPLETED" -> wo.completed \in 1 .. Quantity - 1
         [] wo.status \in {"COMPLETED", "CLOSED"} -> wo.completed = Quantity
=============================================================================
