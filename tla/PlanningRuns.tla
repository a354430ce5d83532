----------------------------- MODULE PlanningRuns -----------------------------
(***************************************************************************)
(* The life of one MRP run and its planned orders: the run is executed and *)
(* executed again (views.py mrp_run_run, engine.py run_mrp), planners      *)
(* firm, ignore, cancel and convert its orders one by one or in bulk       *)
(* (conversion.py, bulk.py), and suggestions to cancel them are generated, *)
(* applied and rejected (reschedule.py); the other suggestions only move   *)
(* dates.                                                                  *)
(*                                                                         *)
(* No request locks a row and none is one transaction: a request reads the *)
(* rows it was given, then changes them one at a time, or one group of     *)
(* orders at a time, from what it read.  A row is saved by UPDATE of named *)
(* fields: when a run executed meanwhile has deleted it, the save raises.  *)
(* A server may stop between any two steps.                                *)
(*                                                                         *)
(* What a run plans is one order for each of its needs; Netting says how   *)
(* much.  Orders and documents are numbered as they are created.           *)
(***************************************************************************)
EXTENDS Requests, Integers, FiniteSetsExt, Functions

CONSTANTS
  Needs,         \* item-sites the run has to order for
  Sourcings,     \* the source_types the orders for the needs may have
  GroupOf,       \* supplier and site, or source and destination site, of each need
  Unsupplied,    \* needs whose order names no supplier
  Unrouted,      \* needs without a source site, or a stock location at either site
  NoNeed,
  MaxOrders, MaxDocs, MaxSuggestions,   \* bounds: rows created
  MaxCrashes     \* bound: requests that stop half way

ASSUME RowsAssumption == {MaxOrders, MaxDocs, MaxSuggestions, MaxCrashes} \subseteq Nat
ASSUME NeedAssumption ==
  /\ Sourcings \subseteq [Needs -> {"BUY", "SUBCONTRACT", "TRANSFER", "MAKE"}]
  /\ Unsupplied \cup Unrouted \subseteq Needs /\ NoNeed \notin Needs

Orders == 1..MaxOrders
DocIds == 1..MaxDocs
Suggestions == 1..MaxSuggestions

VARIABLES
  sourceOf,  \* the source_type of the order for each need (does not change)
  mrpRun,  \* MRPRun.status, and the needs it reported it could not plan
  po,      \* Orders -> MRPPlannedOrder
  created, \* DocIds -> the requisition, purchase order, transfer or work order created
  sug,     \* Suggestions -> MRPRescheduleSuggestion of type CANCEL_SUPPLY
  crashes  \* history: requests that stopped half way

planningVars == <<sourceOf, mrpRun, po, created, sug, req, overlaps, crashes>>
counters == <<overlaps, crashes>>

Undecided == {"SUGGESTED", "FIRMED"}

NoPlannedOrder == [status |-> "NONE", need |-> NoNeed, docs |-> {}]
DeletedOrder == [NoPlannedOrder EXCEPT !.status = "DELETED"]
NoDoc == [kind |-> "NONE", lines |-> {}]
NoSuggestion == [status |-> "NONE", order |-> 0]

InitPlanning ==
  /\ sourceOf \in Sourcings
  /\ mrpRun = [status |-> "DRAFT", reported |-> {}]
  /\ po = [o \in Orders |-> NoPlannedOrder]
  /\ created = [d \in DocIds |-> NoDoc]
  /\ sug = [s \in Suggestions |-> NoSuggestion]
  /\ InitRequests
  /\ crashes = 0

Exists(o) == po[o].status \notin {"NONE", "DELETED"}
Live == {o \in Orders : Exists(o)}

-----------------------------------------------------------------------------
(* A request reads the rows it is about and drops those it may not touch: left are
   the others, which it has yet to handle. *)
LoadRows(c, op, arg, left) ==
  /\ req[c] = Idle /\ left # {}
  /\ Start
  /\ req' = [req EXCEPT ![c] = [op |-> op, arg |-> arg, left |-> left]]
  /\ UNCHANGED <<mrpRun, po, created, sug, crashes>>

Handling(c, op, row) == req[c] # Idle /\ req[c].op = op /\ row \in req[c].left

(* The request has handled some rows; with none left it is over. *)
Handled(c, rows) ==
  LET left == req[c].left \ rows
  IN  req' = [req EXCEPT ![c] = IF left = {} THEN Idle ELSE [@ EXCEPT !.left = left]]

Abort(c) == req' = [req EXCEPT ![c] = Idle]

(* The server stops, or an exception nobody catches ends the request. *)
Crash(c) ==
  /\ req[c] # Idle
  /\ crashes < MaxCrashes /\ crashes' = crashes + 1
  /\ Abort(c)
  /\ UNCHANGED <<mrpRun, po, created, sug, overlaps>>

-----------------------------------------------------------------------------
(* mrp_run_run: refused while the run is under way, whoever runs it, or seems to be. *)
LoadMrpRun(c) ==
  /\ mrpRun.status # "RUNNING"
  /\ LoadRows(c, "start", "", Needs)

Running(c, phase) == req[c] # Idle /\ req[c].op = phase

StartRun(c) ==
  /\ Running(c, "start")
  /\ mrpRun' = [mrpRun EXCEPT !.status = "RUNNING"]
  /\ req' = [req EXCEPT ![c].op = "clear"]
  /\ UNCHANGED <<po, created, sug, counters>>

(* Slip: orders the planner has firmed survive a new execution. *)
ClearedButFirmed(o) == IF Exists(o) /\ po[o].status # "FIRMED" THEN DeletedOrder ELSE po[o]

(* run_mrp deletes the results of the run's last execution, converted orders too;
   their suggestions go with them, their documents stay. *)
Cleared(o) == IF Exists(o) THEN DeletedOrder ELSE po[o]

ClearRun(c) ==
  /\ Running(c, "clear")
  /\ po' = [o \in Orders |-> Cleared(o)]
  /\ sug' = [s \in Suggestions |-> IF sug[s].status = "NONE" THEN sug[s]
                                     ELSE [status |-> "DELETED", order |-> 0]]
  /\ mrpRun' = [mrpRun EXCEPT !.reported = {}]
  /\ req' = [req EXCEPT ![c].op = "plan"]
  /\ UNCHANGED <<created, counters>>

NextOrder == Min({o \in Orders : po[o].status = "NONE"})

(* One profile is planned, in a transaction of its own, or fails and is reported. *)
PlanNeed(c, n) ==
  /\ Handling(c, "plan", n)
  /\ req' = [req EXCEPT ![c].left = @ \ {n}]
  /\ \/ /\ \E o \in Orders : po[o].status = "NONE"
        /\ po' = [po EXCEPT ![NextOrder] = [status |-> "SUGGESTED", need |-> n, docs |-> {}]]
        /\ UNCHANGED mrpRun
     \/ mrpRun' = [mrpRun EXCEPT !.reported = @ \cup {n}] /\ UNCHANGED po
  /\ UNCHANGED <<created, sug, counters>>

(* The run completes, or what it does after its profiles raises and it is cancelled. *)
FinishRun(c, status) ==
  /\ Running(c, "plan") /\ req[c].left = {}
  /\ mrpRun' = [mrpRun EXCEPT !.status = status]
  /\ Abort(c)
  /\ UNCHANGED <<po, created, sug, counters>>

-----------------------------------------------------------------------------
Changeable(o) == po[o].status \in Undecided

(* mrp_planned_order_action on one order, bulk_status_action on several. *)
StatusActions == {"FIRMED", "IGNORED", "CANCELLED"}
LoadStatus(c, status, chosen) == LoadRows(c, "status", status, {o \in chosen : Changeable(o)})

SetStatus(c, o) ==
  /\ Handling(c, "status", o)
  /\ \/ Exists(o) /\ po' = [po EXCEPT ![o].status = req[c].arg] /\ Handled(c, {o})
     \/ ~Exists(o) /\ Abort(c) /\ UNCHANGED po
  /\ UNCHANGED <<mrpRun, created, sug, counters>>

-----------------------------------------------------------------------------
BuyTargets == {"REQUISITION", "PURCHASE_ORDER"}

(* What the order of a need is converted to. *)
ConversionTarget(need, buyTarget) ==
  CASE sourceOf[need] \in {"BUY", "SUBCONTRACT"} -> buyTarget
    [] sourceOf[need] = "TRANSFER" -> "TRANSFER_ORDER"
    [] sourceOf[need] = "MAKE" -> "WORK_ORDER"

Grouped(target) == target \in {"REQUISITION", "TRANSFER_ORDER"}

(* What is bought, goods or the service of a subcontractor, needs its supplier ... *)
Supplied(need) == sourceOf[need] \in {"BUY", "SUBCONTRACT"} => need \notin Unsupplied

(* ... and a transfer a location at two different sites. *)
Routed(need) == sourceOf[need] = "TRANSFER" => need \notin Unrouted

(* _eligible, _guard_status and the checks of the order's data. *)
Eligible(o, buyTarget) ==
  /\ \A d \in po[o].docs : created[d].kind # ConversionTarget(po[o].need, buyTarget)
  /\ po[o].status \in Undecided
  /\ Supplied(po[o].need) /\ Routed(po[o].need)

(* convert_planned_order and bulk_convert.  The request holds orders with their needs,
   which it cannot look up again. *)
LoadConvert(c, buyTarget, chosen) ==
  LoadRows(c, "convert", buyTarget,
       {[order |-> o, need |-> po[o].need] : o \in {p \in chosen : Eligible(p, buyTarget)}})

(* Requisitions and transfer orders are shared by the orders of one supplier, or one
   pair of sites; the other documents are made for one order. *)
Together(c, row) ==
  LET target == ConversionTarget(row.need, req[c].arg)
  IN  IF Grouped(target)
        THEN {r \in req[c].left : /\ sourceOf[r.need] = sourceOf[row.need]
                                  /\ GroupOf[r.need] = GroupOf[row.need]}
        ELSE {row}

(* Slip: the link is saved and the status forgotten. *)
MarkedButStatus(order, d) == [order EXCEPT !.docs = @ \cup {d}]

(* _mark_converted *)
Marked(order, d) == [order EXCEPT !.status = "CONVERTED", !.docs = @ \cup {d}]

(* Slip: an order that was deleted meanwhile is not missed. *)
MissingNone(orders) == {}

(* The orders whose save raises. *)
Missing(orders) == {o \in orders : ~Exists(o)}

(* The converters draft a document with a line for each order. *)
Drafted(target, orders) == [kind |-> target, lines |-> orders]

NextDoc == Min({d \in DocIds : created[d].kind = "NONE"})

(* One document for a group of orders, in one transaction.  A group that raises is
   rolled back; a grouped conversion goes on with the next group, any other ends. *)
ConvertGroup(c, row) ==
  /\ Handling(c, "convert", row)
  /\ LET target == ConversionTarget(row.need, req[c].arg)
         group == Together(c, row)
         orders == {r.order : r \in group}
     IN  \/ /\ Missing(orders) = {} /\ \E d \in DocIds : created[d].kind = "NONE"
            /\ created' = [created EXCEPT ![NextDoc] = Drafted(target, orders)]
            /\ po' = [o \in Orders |-> IF o \in orders THEN Marked(po[o], NextDoc) ELSE po[o]]
            /\ Handled(c, group)
         \/ /\ Missing(orders) # {}
            /\ IF Grouped(target) THEN Handled(c, group) ELSE Abort(c)
            /\ UNCHANGED <<po, created>>
  /\ UNCHANGED <<mrpRun, sug, counters>>

(* mrp_bulk_action on the orders selected in the workbench; one order has the same
   operations on its own page. *)
BulkAction(c, selected) ==
  \/ \E status \in StatusActions : LoadStatus(c, status, selected)
  \/ \E target \in BuyTargets : LoadConvert(c, target, selected)

-----------------------------------------------------------------------------
(* Suggestions still open are deleted when new ones are generated. *)
Regenerated(s) ==
  IF sug[s].status = "SUGGESTED" THEN [status |-> "DELETED", order |-> 0] ELSE sug[s]

(* The orders a suggestion to cancel may be about: those of them that are pegged to
   no demand. *)
Cancellable == {o \in Live : po[o].status \in Undecided /\ po[o].docs = {}}

(* mrp_generate_suggestions: generate_reschedule_suggestions, one transaction. *)
Generate(about) ==
  /\ about \subseteq Cancellable
  /\ \E new \in kSubset(Cardinality(about), {s \in Suggestions : sug[s].status = "NONE"}) :
       \E orderOf \in Bijection(new, about) :
         sug' = [s \in Suggestions |->
                   IF s \in new THEN [status |-> "SUGGESTED", order |-> orderOf[s]]
                              ELSE Regenerated(s)]
  /\ UNCHANGED <<mrpRun, po, created, req, counters>>

(* apply_suggestion refuses a decided or converted order. *)
Applicable(s) ==
  /\ sug[s].status = "SUGGESTED"
  /\ po[sug[s].order].status \in Undecided /\ po[sug[s].order].docs = {}

LoadApply(c, chosen) ==
  LoadRows(c, "apply", "",
       {[id |-> s, order |-> sug[s].order] : s \in {t \in chosen : Applicable(t)}})

(* Each suggestion is applied in one transaction: both rows, or neither. *)
ApplySuggestion(c, row) ==
  /\ Handling(c, "apply", row)
  /\ \/ /\ sug[row.id].status # "DELETED"
        /\ po' = [po EXCEPT ![row.order].status = "CANCELLED"]
        /\ sug' = [sug EXCEPT ![row.id].status = "APPLIED"]
        /\ Handled(c, {row})
     \/ sug[row.id].status = "DELETED" /\ Abort(c) /\ UNCHANGED <<po, sug>>
  /\ UNCHANGED <<mrpRun, created, counters>>

(* reject_suggestion *)
LoadReject(c, chosen) == LoadRows(c, "reject", "", {s \in chosen : sug[s].status = "SUGGESTED"})

Reject(c, s) ==
  /\ Handling(c, "reject", s)
  /\ \/ /\ sug[s].status # "DELETED"
        /\ sug' = [sug EXCEPT ![s].status = "REJECTED"]
        /\ Handled(c, {s})
     \/ sug[s].status = "DELETED" /\ Abort(c) /\ UNCHANGED sug
  /\ UNCHANGED <<mrpRun, po, created, counters>>

-----------------------------------------------------------------------------
PlanningStep ==
  \/ \E c \in Clients :
       \/ LoadMrpRun(c) \/ StartRun(c) \/ ClearRun(c)
       \/ \E n \in Needs : PlanNeed(c, n)
       \/ \E status \in {"COMPLETED", "CANCELLED"} : FinishRun(c, status)
       \/ \E chosen \in SUBSET Live : BulkAction(c, chosen)
       \/ \E chosen \in SUBSET Suggestions : LoadApply(c, chosen) \/ LoadReject(c, chosen)
       \/ \E o \in Orders : SetStatus(c, o)
       \/ \E o \in Orders, n \in Needs : ConvertGroup(c, [order |-> o, need |-> n])
       \/ \E s \in Suggestions : Reject(c, s)
       \/ \E s \in Suggestions, o \in Orders : ApplySuggestion(c, [id |-> s, order |-> o])
       \/ Crash(c)
  \/ \E about \in SUBSET Live \ {{}} : Generate(about)

NextPlanning == PlanningStep /\ UNCHANGED sourceOf

PlanningSpec == InitPlanning /\ [][NextPlanning]_planningVars

-----------------------------------------------------------------------------
(* Requests one after the other, even when they stop half way, keep order and document
   together: a converted order has one document, which lists it, and an order that was
   ignored or cancelled has none. *)
OneDocument ==
  calm => \A o \in Live :
    /\ (po[o].status = "CONVERTED") = (po[o].docs # {})
    /\ Cardinality(po[o].docs) <= 1
    /\ po[o].docs = {d \in DocIds : o \in created[d].lines}

(* A completed run has one order for each need it did not report, whatever was firmed,
   converted or left behind by an execution that was cancelled. *)
EachNeedOnce ==
  calm /\ mrpRun.status = "COMPLETED" =>
    \A n \in Needs : Cardinality({o \in Live : po[o].need = n}) =
                       IF n \in mrpRun.reported THEN 0 ELSE 1

(* Whatever races, no document is made for an order that is no longer there: its save
   fails, and with it the document. *)
DocumentsHaveOrders ==
  [][\A d \in DocIds : created'[d] # created[d] => \A o \in created'[d].lines : Exists(o)]_planningVars
=============================================================================
