----------------------------- MODULE Scheduling -----------------------------
(***************************************************************************)
(* services/mrp/scheduling.py and routing_capacity.py: the operations of   *)
(* make orders placed into the working days of their work centres,         *)
(* backward from a date or forward from one, by planning, by conversion    *)
(* and by a planner's request, while calendars change and orders close.    *)
(*                                                                         *)
(* An order here is a MAKE planned order and, once converted, the work     *)
(* order made from it.  Conversion is one transaction.  A reschedule       *)
(* request is not: it saves one operation after another, then the order.   *)
(* Hours are whole, and Parts is a number of parts of an hour in which     *)
(* every even spread over days is exact.                                   *)
(***************************************************************************)
EXTENDS Integers, Sequences, SequencesExt, FiniteSetsExt

CONSTANTS
  Orders, Planners,
  Centres,      \* work centres; NoCentre for a subcontract operation
  NoCentre,
  Centre,       \* the row of each work centre
  Routings,     \* the routings on file
  Quantity,     \* quantity of each order
  Due,          \* required date of each order
  Horizon,      \* bound: outside 1..Horizon no centre works (the horizon)
  Parts,
  Shift,        \* the hours of each day in the shop calendars at first: the base capacity
                \* times the multiplier of the weekday or of an exception
  Shifts,       \* bound: the hours a calendar may give a day, 0 for a holiday
  Movable,      \* bound: the days a calendar edit may change
  NoRequest,         \* a client with no request under way
  MaxRequests,  \* bound: reschedule requests in a behaviour
  MaxEdits      \* bound: calendar exceptions added or removed

Dates == 1..Horizon

(* The rows of work centres, shop calendars and routings, as far as scheduling reads
   them.  A routing is of an order's product, at its site (here) or at any. *)
WorkCentre == [finite : BOOLEAN, calendared : BOOLEAN, capacity : Nat \ {0}]
ShopCalendars == [Centres -> [Dates -> Nat]]
RoutingOperation == [centre : Centres \cup {NoCentre}, setup : Nat, run : Nat]
RoutingHeader == [of : Orders, here : BOOLEAN, status : {"DRAFT", "ACTIVE", "OBSOLETE"},
                  code : Nat, default : BOOLEAN, from : Nat, to : Nat,
                  operations : Seq(RoutingOperation)]

ASSUME CentreAssumption == NoCentre \notin Centres /\ Centre \in [Centres -> WorkCentre]
ASSUME RowAssumption ==
  /\ Shift \in ShopCalendars /\ Shifts \subseteq Nat /\ Movable \subseteq Dates
  /\ Quantity \in [Orders -> Nat \ {0}]
  /\ Due \in [Orders -> Nat] /\ \A h \in Routings : h \in RoutingHeader
ASSUME OrdersAssumption == IsFiniteSet(Orders) /\ MaxRequests \in Nat /\ MaxEdits \in Nat
ASSUME PartsAssumption ==
  Horizon \in Nat /\ Parts \in Nat \ {0} /\ \A n \in 1..Horizon : Parts % n = 0

VARIABLES
  calendar,  \* Centres -> the hours it works on each day
  order,     \* Orders -> status, start and end date, and the planned order's receipt date
  plan,      \* Orders -> its operations' planned dates (<<>> until it is converted)
  target,    \* Orders -> the day a levelling suggestion moves it to (0: none)
  underway,       \* Planners -> the reschedule request being served
  hist       \* history, in no table: see below

(* Orders whose last scheduling failed or overlapped another of the same order, whether
   a request or a conversion began while a request ran, the longest shift each day has had,
   and the counts that bound the behaviours. *)
History == [spoilt : SUBSET Orders, raced : BOOLEAN, longest : ShopCalendars,
            requests : 0..MaxRequests, edits : 0..MaxEdits]

Slots == [start : Int, end : Int]
Modes == {"BACKWARD", "FORWARD"}

(* A reschedule request: the operation it places next, from which date, and where it put
   the others. *)
Reschedules == [order : Orders, mode : Modes, at : Int, cursor : Int, slots : Seq(Slots)]

ASSUME RequestAssumption == NoRequest \notin Reschedules

schedulingVars == <<calendar, order, plan, target, underway, hist>>

Finite == {w \in Centres : Centre[w].finite}
Calendared == {w \in Centres : Centre[w].calendared}
Capacity == [w \in Centres |-> Centre[w].capacity]

(* shop_calendar_create seeds a calendar with Monday to Friday, the days a centre
   without one works; day 1 is a Monday and no weekday comes twice. *)
Weekdays == {d \in Dates : d % 7 \in 1..5}

(* find_active_routing: the one of the site before one of any site, then the default,
   then the lowest code.  Every order has one, with an operation. *)
Preferred(h, g) ==
  IF h.here # g.here THEN h.here ELSE IF h.default # g.default THEN h.default ELSE h.code <= g.code
ActiveRoutings(o) ==
  {h \in Routings : h.of = o /\ h.status = "ACTIVE" /\ Due[o] \in h.from..h.to}
FindActiveRouting(o) ==
  CHOOSE h \in ActiveRoutings(o) : \A g \in ActiveRoutings(o) : Preferred(h, g)
Routing == [o \in Orders |-> FindActiveRouting(o).operations]

ASSUME RoutingAssumption ==
  \A o \in Orders :
    /\ \E h \in ActiveRoutings(o) : \A g \in ActiveRoutings(o) : Preferred(h, g)
    /\ Routing[o] # <<>>

OrderStatuses == {"NONE", "SUGGESTED", "PLANNED", "RELEASED", "CLOSED"}
OpenStatuses == {"PLANNED", "RELEASED"}
OpenOrders == {o \in Orders : order[o].status \in OpenStatuses}

(* get_working_capacity, without a calendar the base capacity from Monday to Friday. *)
FirstCalendar ==
  [w \in Centres |-> IF w \in Calendared THEN Shift[w]
                     ELSE [d \in Dates |-> IF d \in Weekdays THEN Capacity[w] ELSE 0]]

InitScheduling ==
  /\ calendar = FirstCalendar
  /\ order = [o \in Orders |-> [status |-> "NONE", start |-> 0, end |-> 0, receipt |-> 0]]
  /\ plan = [o \in Orders |-> <<>>]
  /\ target = [o \in Orders |-> 0]
  /\ underway = [c \in Planners |-> NoRequest]
  /\ hist = [spoilt |-> {}, raced |-> FALSE, longest |-> FirstCalendar, requests |-> 0, edits |-> 0]

-----------------------------------------------------------------------------
(* calculate_operation_hours: set-up and run time (yield and efficiency are part of
   the figures). *)
Hours(o, i) == Routing[o][i].setup + Routing[o][i].run * Quantity[o]

(* calculate_routing_duration. *)
RoutingDuration(o) == SumFunction([i \in DOMAIN Routing[o] |-> Hours(o, i)])

(* _hours_to_days: whole days, at least one. *)
HoursToDays(hours, perDay) ==
  LET days == (hours + perDay - 1) \div perDay
  IN  IF days < 1 THEN 1 ELSE days
PerDay(w) == IF w = NoCentre THEN 8 ELSE Capacity[w]

(* is_working_day. *)
Workdays(w) == {d \in Dates : calendar[w][d] > 0}

(* next_working_day and previous_working_day: the day itself plus or minus one when
   there is none in the horizon. *)
NextWorkingDay(w, d) ==
  LET later == {e \in Workdays(w) : e > d} IN IF later # {} THEN Min(later) ELSE d + 1
PreviousWorkingDay(w, d) ==
  LET earlier == {e \in Workdays(w) : e < d} IN IF earlier # {} THEN Max(earlier) ELSE d - 1

(* daily_scheduled_hours: what the operations of open work orders other than the one
   being placed take of centre w on day d, each spread evenly over the working days
   between its dates. *)
OperationsOf(p, open) == UNION {{o} \X DOMAIN p[o] : o \in open}
Covers(slot, d) == slot.start <= d /\ d <= slot.end
Share(w, slot, hours) == (hours * Parts) \div Cardinality(Workdays(w) \cap (slot.start..slot.end))
Committed(p, open, w, d, except) ==
  LET covering == {s \in OperationsOf(p, open) \ {except} :
                     Routing[s[1]][s[2]].centre = w /\ Covers(p[s[1]][s[2]], d)}
  IN  IF d \in Workdays(w)
        THEN SumFunction([s \in covering |-> Share(w, p[s[1]][s[2]], Hours(s[1], s[2]))])
        ELSE 0

(* calculate_daily_load: what centre w can do on day d, and what it has to do. *)
DailyLoad(w, d) ==
  LET available == Parts * calendar[w][d]
      scheduled == Committed(plan, OpenOrders, w, d, <<>>)
  IN  [available |-> available, scheduled |-> scheduled,
       remaining |-> Max({0, available - scheduled}), overloaded |-> scheduled > available]

(* Slip: the load already committed is not taken off the day. *)
RoomUncommitted(p, open, w, except) ==
  [d \in Dates |-> Parts * calendar[w][d]]

(* What each day can still take of centre w: all of its hours unless it is finite. *)
Room(p, open, w, except) ==
  [d \in Dates |->
     LET load == IF w \in Finite THEN Committed(p, open, w, d, except) ELSE 0
     IN  IF load < Parts * calendar[w][d] THEN Parts * calendar[w][d] - load ELSE 0]

-----------------------------------------------------------------------------
(* A placement that ran out of days (SchedulingError, NO_WORKING_CAPACITY). *)
NoPlace == [start |-> 0, end |-> -1]

(* The room on some days together. *)
RoomOn(room, days) == SumFunction([d \in days |-> room[d]])
Since(day) == {d \in Dates : day <= d}
Until(day) == {d \in Dates : d <= day}

(* schedule_operation_backward: the days from the latest one with room back to the
   one on which the hours are used up. *)
Backward(room, hours, by) ==
  LET enough == {s \in Dates : RoomOn(room, Since(s) \cap Until(by)) >= hours * Parts}
  IN  IF hours = 0 THEN [start |-> by, end |-> by]
      ELSE IF enough = {} THEN NoPlace
      ELSE [start |-> Max(enough), end |-> Max({d \in Until(by) : room[d] > 0})]

(* schedule_operation_forward: the same in the other direction. *)
Forward(room, hours, from) ==
  LET enough == {e \in Dates : RoomOn(room, Since(from) \cap Until(e)) >= hours * Parts}
  IN  IF hours = 0 THEN [start |-> from, end |-> from]
      ELSE IF enough = {} THEN NoPlace
      ELSE [start |-> Min({d \in Since(from) : room[d] > 0}), end |-> Min(enough)]

OnOrBefore(w, d) == IF d \in Workdays(w) THEN d ELSE PreviousWorkingDay(w, d)
OnOrAfter(w, d) == IF d \in Workdays(w) THEN d ELSE NextWorkingDay(w, d)

(* One turn of the loop of schedule_work_order_operations: where operation i goes, and
   the date the next one is placed from.  A subcontract operation takes the date as it
   is. *)
Slot(w, room, hours, cursor, mode) ==
  IF w = NoCentre THEN [start |-> cursor, end |-> cursor]
  ELSE IF mode = "BACKWARD" THEN Backward(room, hours, OnOrBefore(w, cursor))
  ELSE Forward(room, hours, OnOrAfter(w, cursor))
Placed(w, at, mode) ==
  [slot |-> at,
   cursor |-> IF mode = "BACKWARD"
                THEN IF w = NoCentre THEN at.start - 1 ELSE PreviousWorkingDay(w, at.start)
                ELSE IF w = NoCentre THEN at.end ELSE NextWorkingDay(w, at.end)]
PlaceIn(w, room, hours, cursor, mode) == Placed(w, Slot(w, room, hours, cursor, mode), mode)
Place(p, open, o, i, cursor, mode) ==
  LET w == Routing[o][i].centre
  IN  PlaceIn(w, Room(p, open, w, <<o, i>>), Hours(o, i), cursor, mode)

FirstStart(slots) == Min({slots[i].start : i \in DOMAIN slots})
LastEnd(slots) == Max({slots[i].end : i \in DOMAIN slots})

-----------------------------------------------------------------------------
(* should_finite_schedule: a centre of the routing has a calendar or is finite. *)
OptsIn(o) == \E i \in DOMAIN Routing[o] : Routing[o][i].centre \in Calendared \cup Finite

(* schedule_mrp_planned_order: the internal operations placed backward from the
   receipt date, last one first, without being saved; the empty sequence when one has
   no place. *)
Added(done, at) ==
  IF done.failed \/ at.slot = NoPlace THEN [done EXCEPT !.failed = TRUE, !.slots = <<>>]
  ELSE [done EXCEPT !.slots = Append(@, at.slot), !.cursor = at.cursor]
TryNext(o, done, i) ==
  IF Routing[o][i].centre = NoCentre THEN done
  ELSE Added(done, Place(plan, OpenOrders, o, i, done.cursor, "BACKWARD"))
Trial(o) ==
  LET n == Len(Routing[o])
      Tried[k \in 0..n] == IF k = 0 THEN [slots |-> <<>>, cursor |-> Due[o], failed |-> FALSE]
                            ELSE TryNext(o, Tried[k - 1], n + 1 - k)
  IN  Tried[n].slots

(* apply_routing_schedule, with create_planned_order: the release date is the receipt
   date less the duration of the routing in whole days, or the finite schedule's. *)
RoughRelease(o) ==
  LET caps == {Capacity[Routing[o][i].centre] :
                 i \in {j \in DOMAIN Routing[o] : Routing[o][j].centre # NoCentre}}
  IN  Due[o] - HoursToDays(RoutingDuration(o), IF caps = {} THEN 8 ELSE Min(caps))
Plan(o) ==
  /\ order[o].status = "NONE"
  /\ \E trial \in {Trial(o)} :
       order' = [order EXCEPT ![o] =
         IF OptsIn(o) /\ trial # <<>>
           THEN [status |-> "SUGGESTED", start |-> FirstStart(trial), end |-> LastEnd(trial),
                 receipt |-> LastEnd(trial)]
           ELSE [status |-> "SUGGESTED", start |-> RoughRelease(o), end |-> Due[o],
                 receipt |-> Due[o]]]
  /\ UNCHANGED <<calendar, plan, target, underway, hist>>

(* generate_capacity_level_suggestions: a centre has more to do on a day, with all the
   orders the run planned to be received then, than it can; the planned order still to
   be converted that is required last is to move to the nearest day with room for its
   first operation there, an earlier day if there is one. *)
LevelLoad(w, day) ==
  LET here(o) == {i \in DOMAIN Routing[o] : Routing[o][i].centre = w}
      due     == {o \in Orders : order[o].receipt = day /\ here(o) # {}}
      load    == DailyLoad(w, day).scheduled + Parts *
                  SumFunction([o \in due |-> SumFunction([i \in here(o) |-> Hours(o, i)])])
      movable == {o \in due : order[o].status = "SUGGESTED"}
  IN  /\ load > DailyLoad(w, day).available
      /\ \E o \in movable :
           LET fits(d) == DailyLoad(w, d).remaining >= Parts * Hours(o, Min(here(o)))
               before  == {d \in Workdays(w) : d < day /\ fits(d)}
               after   == {d \in Workdays(w) : d > day /\ fits(d)}
           IN  /\ \A other \in movable : Due[other] <= Due[o]
               /\ target[o] = 0 /\ before \cup after # {}
               /\ target' = [target EXCEPT ![o] = IF before # {} THEN Max(before) ELSE Min(after)]
      /\ UNCHANGED <<calendar, order, plan, underway, hist>>

(* apply_suggestion: the planned order is released and received on the target day. *)
Apply(o) ==
  /\ target[o] # 0 /\ order[o].status = "SUGGESTED" /\ order[o].receipt # target[o]
  /\ order' = [order EXCEPT ![o].start = target[o], ![o].end = target[o],
                            ![o].receipt = target[o]]
  /\ UNCHANGED <<calendar, plan, target, underway, hist>>

-----------------------------------------------------------------------------
Running == {c \in Planners : underway[c] # NoRequest}
Raced == hist.raced \/ Running # {}

(* The rough-cut dates of create_work_order_operations: whole days back to back, the
   last operation ending with the order. *)
DaysFrom(o, i) ==
  SumFunction([j \in i..Len(Routing[o]) |-> HoursToDays(Hours(o, j), PerDay(Routing[o][j].centre))])
RoughCut(o) ==
  [i \in DOMAIN Routing[o] |->
     [start |-> order[o].end - DaysFrom(o, i), end |-> order[o].end - DaysFrom(o, i + 1)]]

(* The refinement of those dates, last operation first, each saved as it is placed: a
   failure keeps the ones already saved, and the order's own dates. *)
Saved(done, i, at) ==
  IF done.failed \/ at.slot = NoPlace THEN [done EXCEPT !.failed = TRUE]
  ELSE [done EXCEPT !.slots[i] = at.slot, !.cursor = at.cursor]
RefineNext(o, done, i) ==
  Saved(done, i, Place([plan EXCEPT ![o] = done.slots], OpenOrders \cup {o}, o, i, done.cursor,
                       "BACKWARD"))
Refined(o) ==
  LET n == Len(Routing[o])
      Refining[k \in 0..n] ==
        IF k = 0 THEN [slots |-> RoughCut(o), cursor |-> order[o].end, failed |-> FALSE]
        ELSE RefineNext(o, Refining[k - 1], n + 1 - k)
  IN  Refining[n]

(* convert_make_to_work_order: the work order and its operations, in one
   transaction. *)
Convert(o) ==
  /\ order[o].status = "SUGGESTED"
  /\ \E refined \in {Refined(o)} :
       /\ plan' = [plan EXCEPT ![o] = IF OptsIn(o) THEN refined.slots ELSE RoughCut(o)]
       /\ order' = [order EXCEPT ![o] =
            IF OptsIn(o) /\ ~refined.failed
              THEN [@ EXCEPT !.status = "PLANNED", !.start = FirstStart(refined.slots),
                             !.end = LastEnd(refined.slots)]
              ELSE [@ EXCEPT !.status = "PLANNED"]]
       /\ hist' = [hist EXCEPT !.raced = Raced,
                               !.spoilt = IF OptsIn(o) /\ refined.failed THEN @ \cup {o} ELSE @]
  /\ UNCHANGED <<calendar, target, underway>>

(* work_order_reschedule: the order and its operations are read ... *)
Reschedule(c, o, mode) ==
  /\ underway[c] = NoRequest
  /\ order[o].status \notin {"NONE", "SUGGESTED"}
  /\ hist.requests < MaxRequests
  /\ underway' = [underway EXCEPT ![c] =
       [order |-> o, mode |-> mode, at |-> IF mode = "BACKWARD" THEN Len(plan[o]) ELSE 1,
        cursor |-> IF mode = "BACKWARD" THEN order[o].end ELSE order[o].start,
        slots |-> <<>>]]
  /\ hist' = [hist EXCEPT !.raced = Raced, !.requests = @ + 1,
       !.spoilt = IF \E d \in Running : underway[d].order = o THEN @ \cup {o} ELSE @]
  /\ UNCHANGED <<calendar, order, plan, target>>

(* ... its operations are placed and saved one by one, which stops at the first
   without a place ... *)
PlaceNext(c) ==
  LET r == underway[c]
  IN  /\ r # NoRequest /\ r.at \in DOMAIN plan[r.order]
      /\ \E at \in {Place(plan, OpenOrders, r.order, r.at, r.cursor, r.mode)} :
           IF at.slot = NoPlace
             THEN /\ underway' = [underway EXCEPT ![c] = NoRequest]
                  /\ hist' = [hist EXCEPT !.spoilt = @ \cup {r.order}]
                  /\ UNCHANGED plan
             ELSE /\ plan' = [plan EXCEPT ![r.order][r.at] = at.slot]
                  /\ underway' = [underway EXCEPT ![c] =
                       [r EXCEPT !.at = IF r.mode = "BACKWARD" THEN @ - 1 ELSE @ + 1,
                                 !.cursor = at.cursor, !.slots = Append(@, at.slot)]]
                  /\ UNCHANGED hist
      /\ UNCHANGED <<calendar, order, target>>

(* ... and the order takes their first and last date. *)
Finish(c) ==
  LET r == underway[c]
  IN  /\ r # NoRequest /\ r.at \notin DOMAIN plan[r.order]
      /\ order' = [order EXCEPT ![r.order].start = FirstStart(r.slots), ![r.order].end = LastEnd(r.slots)]
      /\ underway' = [underway EXCEPT ![c] = NoRequest]
      /\ UNCHANGED <<calendar, plan, target, hist>>

(* A work order is completed, closed or cancelled, and its operations load no centre
   any more. *)
Leave(o) ==
  /\ order[o].status \in OpenStatuses
  /\ order' = [order EXCEPT ![o].status = "CLOSED"]
  /\ UNCHANGED <<calendar, plan, target, underway, hist>>

(* shop_calendar_working_day_edit, shop_calendar_exception_create and _delete: a day of
   a calendar becomes a holiday, or its shift longer or shorter.  Nothing already placed
   is looked at. *)
Except(w, d, hours) ==
  /\ w \in Calendared /\ d \in Movable /\ hours # calendar[w][d] /\ hist.edits < MaxEdits
  /\ calendar' = [calendar EXCEPT ![w][d] = hours]
  /\ hist' = [hist EXCEPT !.edits = @ + 1, !.longest[w][d] = IF @ < hours THEN hours ELSE @]
  /\ UNCHANGED <<order, plan, target, underway>>

NextScheduling ==
  \/ \E o \in Orders : Plan(o) \/ Apply(o) \/ Convert(o) \/ Leave(o)
  \/ \E w \in Centres, d \in Dates : LevelLoad(w, d) \/ \E hours \in Shifts : Except(w, d, hours)
  \/ \E c \in Planners :
       \/ \E o \in Orders, mode \in Modes : Reschedule(c, o, mode)
       \/ PlaceNext(c) \/ Finish(c)

SchedulingSpec == InitScheduling /\ [][NextScheduling]_schedulingVars

-----------------------------------------------------------------------------
(* capacity_load: the days of the centres that are overloaded. *)
CapacityLoad == {s \in Centres \X Dates : DailyLoad(s[1], s[2]).overloaded}

(* The operations of a work order follow one another: none is to start before the one
   ahead of it in the routing ends, whether its dates are rough-cut or finite, backward
   or forward, and whatever other orders and calendars do between two saves.  Orders
   whose last scheduling failed half-way, and orders being rescheduled, are not.
   Scheduled one at a time, they overload a finite centre only by an operation that spans
   several working days, whose hours are counted evenly though they were not placed so, or
   because the day has been cut since: operations of one day each never exceed the longest
   shift the day has had. *)
OperationsFit ==
  /\ \A o \in Orders \ (hist.spoilt \cup {underway[c].order : c \in Running}) :
       \A i, j \in DOMAIN plan[o] : i < j => plan[o][i].end <= plan[o][j].start
  /\ ~hist.raced =>
       \A w \in Finite, d \in Dates : <<w, d>> \in CapacityLoad =>
         \/ calendar[w][d] < hist.longest[w][d]
            /\ DailyLoad(w, d).scheduled <= Parts * hist.longest[w][d]
         \/ \E o \in OpenOrders : \E i \in DOMAIN plan[o] :
              /\ Routing[o][i].centre = w
              /\ plan[o][i].start <= d /\ d <= plan[o][i].end
              /\ plan[o][i].start < plan[o][i].end
=============================================================================
