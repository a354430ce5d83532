------------------------------- MODULE Netting -------------------------------
(***************************************************************************)
(* One MRP run (services/mrp/engine.py run_mrp): item-sites are planned    *)
(* one by one, each by a walk over its event days that places an order     *)
(* whenever the projected balance falls below safety stock; an order for a *)
(* made item explodes into component requirements (bom_explosion.py), an   *)
(* order for a transferred one into a request at the source site           *)
(* (transfer_planning.py), and both are planned before the walk goes on.   *)
(*                                                                         *)
(* An item-site is a member of Items.  The recursion of the code is the    *)
(* stack agenda.  A profile is planned in one transaction: when it fails,  *)
(* its rows are rolled back, but what the run keeps in memory is not.      *)
(* Dates of dependent demand, lead times and capacity, which decide no     *)
(* quantity, are left out, and so are the depth limits (20 and 10 levels): *)
(* no BOM of an instance is so deep.                                       *)
(***************************************************************************)
EXTENDS LotSizing, Sequences, SequencesExt, FiniteSetsExt

CONSTANTS
  Items,
  LastDay,      \* the days of the plan are 0..LastDay; earlier dates count as 0
  Width,        \* days in a forecast bucket
  Level,        \* low-level code of each item-site's product
  Boms,         \* the BOMs of each product, the earliest first
  From,         \* default_transfer_from_site, as an item-site
  Inputs,       \* what the records may say: functions from Items
  MaxOrders,    \* _MAX_ORDERS_PER_BUCKET
  MaxFailures,  \* bound: profiles that fail
  NoSource,
  NoWalk        \* between two profiles

ASSUME RunAssumption == MaxOrders \in Nat \ {0} /\ MaxFailures \in Nat
ASSUME DayAssumption == LastDay \in Nat /\ Width \in Nat \ {0}
ASSUME SourceAssumption == From \in [Items -> Items \cup {NoSource}] /\ NoSource \notin Items

Days == 0..LastDay

Plannable == {"BUY", "MAKE", "TRANSFER"}

(* ItemSitePlanning (NONE: the item-site has no profile), and what the collectors find:
   stock, what is reserved of it and what open transfers have still to send away, the
   receipts, confirmed sales and forecast lines of each day, whether an order or a forecast
   names the item though it asks for nothing in the plan, and the line of an open transfer
   to the site. *)
ItemSite == [source : Plannable \cup {"PHANTOM", "NONE"}, rules : LotRules, safety : Nat,
             onHand : Nat, reserved : Nat, outbound : Nat, receipts : [Days -> Nat],
             sales : [Days -> Nat], forecast : [Days -> Nat], named : BOOLEAN,
             transfer : [qty : Nat, dispatched : Nat, received : Nat]]

(* BillOfMaterialsLine; the scrap is a percentage. *)
BomLine == [component : Items, qty : Nat, fixed : Nat, scrap : Nat]

BillOfMaterials == [isDefault : BOOLEAN, active : BOOLEAN, output : Nat, lines : Seq(BomLine)]

ASSUME BomAssumption == Boms \in [Items -> Seq(BillOfMaterials)]
ASSUME InputAssumption == Inputs \subseteq [Items -> ItemSite]

(* A walk under way, and a requirement it has come to. *)
Walk == [item : Items, day : Days, projected : Int, guard : 0..MaxOrders]
Requirement == [kind : {"component", "request"}, item : Items, qty : Nat, above : SUBSET Items]

ASSUME WalkAssumption == NoWalk \notin Walk

VARIABLES
  item,      \* the profile, stock, receipts and demand of each item-site
  todo,      \* profiles of the main loop not planned yet
  walk,      \* the profile being planned: item, day, projected balance, guard
  agenda,    \* requirements to plan before the walk goes on, the next one first
  rows,      \* the rows written: orders, demands and exceptions
  saved,     \* the rows when the profile's transaction began
  consumed,  \* run._comp_consumed
  sourceLeft,   \* run._transfer_src_avail
  asComponent,  \* run._planned_as_component
  withSafety,   \* run._safety_in_component_applied
  failures   \* history: profiles that failed

nettingVars == <<item, todo, walk, agenda, rows, saved, consumed, sourceLeft, asComponent,
          withSafety, failures>>
caches == <<consumed, sourceLeft, asComponent, withSafety>>

NoDays == [d \in Days |-> 0]
NoItems == [i \in Items |-> 0]

(* The rows of a run, summed: MRPPlannedOrder by the plan that placed it, the walk's orders
   by their day; MRPDemand by what asked for it; MRPException by what it is about. *)
NoOrders == [i \in Items |-> NoDays]
NoDemands == NoItems
NoExceptions == [i \in Items |-> {}]
NoRows == [ordered |-> NoOrders, netted |-> NoItems, sourced |-> NoItems,
           dependent |-> NoDemands, requested |-> NoDemands, reported |-> NoExceptions]

SumUpTo(f, d) == SumFunction([e \in 0..d |-> f[e]])

(* nettable_on_hand: a location whose reservations exceed its stock counts zero. *)
Nettable(i) == Max({0, item[i].onHand - item[i].reserved})

(* source_available: less what is to leave on other open transfers. *)
SourceAvailable(i) == Max({0, Nettable(i) - item[i].outbound})

InitNetting ==
  /\ item \in Inputs
  /\ todo = {i \in Items : item[i].source \in Plannable}
  /\ walk = NoWalk
  /\ agenda = <<>>
  /\ rows = NoRows
  /\ saved = rows
  /\ consumed = NoItems
  /\ sourceLeft = [i \in Items |-> SourceAvailable(i)]
  /\ asComponent = {}
  /\ withSafety = {}
  /\ failures = 0

-----------------------------------------------------------------------------
(* Demand and supply of one item-site. *)
SameBucket(d) == {e \in Days : e \div Width = d \div Width}
SalesIn(i, days) == SumFunction([e \in days |-> item[i].sales[e]])

(* consume: the confirmed sales of a bucket are used up by its forecast lines,
   the earliest first; what remains of a line is demand. *)
Remaining(i, d) ==
  LET forecast == item[i].forecast[d]
      before == SumFunction([e \in {b \in SameBucket(d) : b < d} |-> item[i].forecast[e]])
      available == Max({0, SalesIn(i, SameBucket(d)) - before})
  IN  forecast - Min({forecast, available})

Gross(i) == [d \in Days |-> item[i].sales[d] + Remaining(i, d)]

(* _inbound_transfer_supply: what the transfer has still to send, and what is on its way;
   it carries no date, and counts from the start. *)
Inbound(i) ==
  LET t == item[i].transfer
  IN  Max({0, t.qty - t.dispatched}) + Max({0, t.dispatched - t.received})

Expected(i) == [item[i].receipts EXCEPT ![0] = @ + Inbound(i)]

(* What the day adds to the projected balance. *)
Change(i, d) == Expected(i)[d] - Gross(i)[d]

EventDays(i) == {0} \cup {d \in Days : Expected(i)[d] > 0 \/ Gross(i)[d] > 0}

(* Any confirmed order line or forecast line counts, of another version, zero or past the
   horizon too. *)
HasIndependentDemand(i) ==
  item[i].named \/ \E d \in Days : item[i].sales[d] > 0 \/ item[i].forecast[d] > 0

Supply(i) == Nettable(i) + SumUpTo(Expected(i), LastDay)

(* find_active_bom: the default one, or else the earliest; none is like one with no lines. *)
NoBom == [isDefault |-> FALSE, active |-> FALSE, output |-> 1, lines |-> <<>>]
ActiveBom(i) ==
  LET active == {n \in DOMAIN Boms[i] : Boms[i][n].active}
      default == {n \in active : Boms[i][n].isDefault}
  IN  IF active = {} THEN NoBom ELSE Boms[i][Min(IF default # {} THEN default ELSE active)]

(* create_planned_order, outside the walk, which keeps its orders by day. *)
CreateOrder(r, plan, i, qty) == [r EXCEPT ![plan][i] = @ + qty]

Report(r, i, code) == [r EXCEPT !.reported[i] = @ \cup {code}]

-----------------------------------------------------------------------------
(* What an order of an item entails: the requirements of its BOM lines, or a
   request at its source site.  above is what it was reached through. *)
LinesOf(i, qty, above) ==
  LET bom == ActiveBom(i)
  IN  [n \in DOMAIN bom.lines |->
         [kind |-> "component", item |-> bom.lines[n].component, above |-> above,
          qty |-> RequiredQty(bom.lines[n], bom.output, qty)]]

Entailed(i, qty, bomAbove, siteAbove) ==
  CASE item[i].source = "MAKE" -> LinesOf(i, qty, bomAbove \cup {i})
    [] item[i].source = "TRANSFER" /\ From[i] \notin {NoSource, i} ->
         <<[kind |-> "request", item |-> From[i], qty |-> qty, above |-> siteAbove \cup {i}]>>
    [] OTHER -> <<>>

(* MISSING_BOM, MISSING_TRANSFER_SOURCE_SITE, INVALID_TRANSFER_SOURCE_SITE. *)
ReportGaps(r, i) ==
  CASE item[i].source \in {"MAKE", "PHANTOM"} /\ ActiveBom(i).lines = <<>> -> Report(r, i, "NO_BOM")
    [] item[i].source = "TRANSFER" /\ From[i] \in {NoSource, i} -> Report(r, i, "NO_SOURCE")
    [] OTHER -> r

-----------------------------------------------------------------------------
(* The main loop, parents before components. *)
NextUp == {i \in todo : \A j \in todo : Level[i] <= Level[j]}

(* An item already planned as a component is planned again only for demand of
   its own. *)
Skip(i) ==
  /\ walk = NoWalk /\ i \in NextUp
  /\ i \in asComponent /\ ~HasIndependentDemand(i)
  /\ todo' = todo \ {i}
  /\ UNCHANGED <<item, walk, agenda, rows, saved, caches, failures>>

StartProfile(i) ==
  /\ walk = NoWalk /\ i \in NextUp
  /\ i \notin asComponent \/ HasIndependentDemand(i)
  /\ walk' = [item |-> i, day |-> 0, projected |-> Nettable(i) + Change(i, 0), guard |-> 0]
  /\ saved' = rows
  /\ UNCHANGED <<item, todo, agenda, rows, caches, failures>>

(* Slip: an order is placed only once the stock is gone. *)
IsShortOfStock == walk.projected < 0

IsShort == walk.projected < item[walk.item].safety

(* One turn of the loop of _plan_profile: size an order, write it, explode it. *)
PlaceOrder ==
  /\ walk # NoWalk /\ agenda = <<>>
  /\ IsShort /\ walk.guard < MaxOrders
  /\ LET i == walk.item
         qty == SizeOrder(item[i].rules, item[i].safety - walk.projected)
         written == ReportGaps([rows EXCEPT !.ordered[i][walk.day] = @ + qty], i)
     IN  /\ rows' = IF walk.guard + 1 = MaxOrders THEN Report(written, i, "TOO_SMALL")
                                                  ELSE written
         /\ agenda' = Entailed(i, qty, {}, {})
         /\ walk' = [walk EXCEPT !.projected = @ + qty, !.guard = @ + 1]
  /\ UNCHANGED <<item, todo, saved, caches, failures>>

DayIsDone == walk # NoWalk /\ agenda = <<>> /\ (~IsShort \/ walk.guard >= MaxOrders)
LaterEvents == {d \in EventDays(walk.item) : d > walk.day}

NextDay ==
  /\ DayIsDone /\ LaterEvents # {}
  /\ LET d == Min(LaterEvents)
     IN  walk' = [walk EXCEPT !.day = d, !.guard = 0, !.projected = @ + Change(walk.item, d)]
  /\ UNCHANGED <<item, todo, agenda, rows, saved, caches, failures>>

(* peg: the walk's orders cover its demands, the earliest first and whatever day they come,
   sales before the forecast of a day and the safety stock at the end of the first; stock
   and receipts cover nothing. *)
Unpegged(i) ==
  {d \in Days : /\ item[i].sales[d] > 0
                /\ SumUpTo(rows.ordered[i], LastDay)
                     < SumUpTo(Gross(i), d - 1) + item[i].sales[d]
                         + IF d > 0 THEN item[i].safety ELSE 0}

FinishProfile ==
  /\ DayIsDone /\ LaterEvents = {}
  /\ rows' = IF Unpegged(walk.item) # {} THEN Report(rows, walk.item, "UNPEGGED") ELSE rows
  /\ walk' = NoWalk
  /\ todo' = todo \ {walk.item}
  /\ UNCHANGED <<item, agenda, saved, caches, failures>>

(* Planning a profile raises: its transaction is rolled back and the run goes on. *)
ProfileFails ==
  /\ walk # NoWalk
  /\ failures < MaxFailures /\ failures' = failures + 1
  /\ rows' = Report(saved, walk.item, "FAILED")
  /\ walk' = NoWalk /\ agenda' = <<>>
  /\ todo' = todo \ {walk.item}
  /\ UNCHANGED <<item, saved, caches>>

-----------------------------------------------------------------------------
(* Slip: what is taken is not remembered. *)
ConsumedAfterForgotten(i, take) == consumed

(* take_component_availability: what is taken is shared by all dependent demand. *)
ConsumedAfter(i, take) == [consumed EXCEPT ![i] = @ + take]

(* _plan_component, after its guards: the requirement and, once per run, the safety
   stock are netted against all supply, whatever its date, and one order is placed. *)
NetComponent(e, written) ==
  LET i == e.item
      needed == e.qty + IF i \in withSafety THEN 0 ELSE item[i].safety
      take == Max({0, Min({needed, Supply(i) - consumed[i]})})
      net == needed - take
      qty == IF net > 0 THEN SizeOrder(item[i].rules, net) ELSE 0
      placed == CreateOrder(written, "netted", i, qty)
      capped == net > 0 /\ Capped(item[i].rules, net)
      makes == net > 0 /\ item[i].source = "MAKE"
      noted == IF makes THEN ReportGaps(placed, i) ELSE placed
  IN  /\ asComponent' = asComponent \cup {i}
      /\ withSafety' = IF item[i].safety > 0 THEN withSafety \cup {i} ELSE withSafety
      /\ consumed' = ConsumedAfter(i, take)
      /\ rows' = IF capped THEN Report(noted, i, "TOO_SMALL") ELSE noted
      /\ agenda' = (IF makes THEN LinesOf(i, qty, e.above \cup {i}) ELSE <<>>) \o Tail(agenda)

(* A component that cannot be planned is reported. *)
GiveUp(written, i, code) ==
  /\ rows' = Report(written, i, code)
  /\ agenda' = Tail(agenda)
  /\ UNCHANGED <<consumed, asComponent, withSafety>>

(* explode_and_plan's next line: one that takes nothing is passed over ... *)
PassLine ==
  /\ agenda # <<>> /\ Head(agenda).kind = "component" /\ Head(agenda).qty = 0
  /\ agenda' = Tail(agenda)
  /\ UNCHANGED <<item, todo, walk, rows, saved, caches, failures>>

(* ... and otherwise its demand is written and the component planned; a phantom is blown
   through. *)
PlanComponent ==
  /\ agenda # <<>> /\ Head(agenda).kind = "component" /\ Head(agenda).qty > 0
  /\ LET e == Head(agenda)
         i == e.item
         written == [rows EXCEPT !.dependent[i] = @ + e.qty]
     IN  \/ i \in e.above /\ GiveUp(written, i, "LOOP")
         \/ /\ i \notin e.above /\ item[i].source = "PHANTOM"
            /\ rows' = ReportGaps(written, i)
            /\ agenda' = LinesOf(i, e.qty, e.above \cup {i}) \o Tail(agenda)
            /\ UNCHANGED <<consumed, asComponent, withSafety>>
         \/ i \notin e.above /\ item[i].source = "NONE" /\ GiveUp(written, i, "NO_PROFILE")
         \/ i \notin e.above /\ item[i].source \in Plannable /\ NetComponent(e, written)
  /\ UNCHANGED <<item, todo, walk, saved, sourceLeft, failures>>

(* plan_transfer at the source site: nettable stock first, shared by all transfers
   (take_source_availability), then one order by the source's own profile for what
   is missing. *)
PlanRequest ==
  /\ agenda # <<>> /\ Head(agenda).kind = "request"
  /\ LET e == Head(agenda)
         i == e.item
         written == [rows EXCEPT !.requested[i] = @ + e.qty]
         take == Min({e.qty, sourceLeft[i]})
         net == e.qty - take
         short == Report(written, i, "SOURCE_SHORT")
         qty == SizeOrder(item[i].rules, net)
         placed == ReportGaps(CreateOrder(short, "sourced", i, qty), i)
     IN  \/ /\ i \in e.above
            /\ rows' = Report(rows, i, "LOOP")
            /\ agenda' = Tail(agenda)
            /\ UNCHANGED sourceLeft
         \/ /\ i \notin e.above
            /\ sourceLeft' = [sourceLeft EXCEPT ![i] = @ - take]
            /\ \/ net = 0 /\ rows' = written /\ agenda' = Tail(agenda)
               \/ /\ net > 0 /\ item[i].source = "NONE"
                  /\ rows' = Report(short, i, "NO_PROFILE")
                  /\ agenda' = Tail(agenda)
               \/ /\ net > 0 /\ item[i].source # "NONE"
                  /\ rows' = IF Capped(item[i].rules, net) THEN Report(placed, i, "TOO_SMALL")
                                                           ELSE placed
                  /\ agenda' = Entailed(i, qty, {}, e.above) \o Tail(agenda)
  /\ UNCHANGED <<item, todo, walk, saved, consumed, asComponent, withSafety, failures>>

NextNetting ==
  \/ \E i \in Items : Skip(i) \/ StartProfile(i)
  \/ PlaceOrder \/ NextDay \/ FinishProfile \/ ProfileFails
  \/ PassLine \/ PlanComponent \/ PlanRequest

NettingSpec == InitNetting /\ [][NextNetting]_nettingVars

-----------------------------------------------------------------------------
Done == todo = {} /\ walk = NoWalk

Unsolved(i) == rows.reported[i] \ {"SOURCE_SHORT", "UNPEGGED"}

(* The main loop planned it. *)
Walked(i) == item[i].source \in Plannable /\ (i \notin asComponent \/ HasIndependentDemand(i))

(* What the stock on hand lacks on day d. *)
ShortBy(i, onHand, d) ==
  item[i].safety + SumUpTo(Gross(i), d) - onHand - SumUpTo(Expected(i), d)

(* How much more than the shortage the lot rules may order. *)
Slack(i) ==
  LET r == item[i].rules
      lot == IF r.method = "FIXED_QTY" THEN Max({1, r.fixed, r.moq}) ELSE Max({1, r.moq})
  IN  lot - 1 + Max({1, r.multiple}) - 1

(* Planned orders fit the shortages.  The walk never orders more than the worst shortage
   so far, plus what lot sizing rounds up, plus what is reserved: the stock reserved for a
   confirmed order is not netted, though the order itself is demand.  And when the run is
   over, stock, receipts and planned orders cover the item's own demand and its safety
   stock on every day, unless the planner is told: the walk looks at event days only, and
   may stop in the middle of one. *)
OrdersFitShortages ==
  \A i \in Items : \A d \in Days :
    LET ordered == SumUpTo(rows.ordered[i], d)
        lack(e) == item[i].reserved + ShortBy(i, item[i].onHand, e)
    IN  /\ ordered > 0 => \E e \in 0..d : lack(e) > 0 /\ ordered <= lack(e) + Slack(i)
        /\ Done /\ Walked(i) /\ Unsolved(i) = {} => ordered >= ShortBy(i, Nettable(i), d)

(* The plans that each count the same stock of an item from the start: its own walk,
   its planning as a component, and as a transfer source. *)
Draws(i) ==
  (IF Walked(i) /\ (item[i].safety > 0 \/ \E d \in Days : Gross(i)[d] > 0) THEN {"own"} ELSE {})
  \cup (IF i \in asComponent THEN {"component"} ELSE {})
  \cup (IF rows.requested[i] > 0 THEN {"source"} ELSE {})

Planned(i) == SumUpTo(rows.ordered[i], LastDay) + rows.netted[i] + rows.sourced[i]
Needed(i) ==
  SumUpTo(Gross(i), LastDay) + item[i].safety + rows.dependent[i]
  + rows.requested[i]

(* Stock, receipts and planned orders together cover all demand of an item and its
   safety stock, once, if only one plan draws on it and no profile failed: neither the
   double use of stock nor the caches that survive a rollback is repaired later
   (engine.py:82-90). *)
OneDrawCovers ==
  Done /\ failures = 0 =>
    \A i \in Items :
      item[i].source \in Plannable /\ Unsolved(i) = {} /\ Cardinality(Draws(i)) <= 1 =>
        Supply(i) + Planned(i) >= Needed(i)
=============================================================================
