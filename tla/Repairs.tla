------------------------------- MODULE Repairs -------------------------------
(***************************************************************************)
(* The catch-up of cycle counts valued or booked wrongly in the past       *)
(* (services/inventory_corrections.py and its command) and the control     *)
(* report it answers to (reports.inventory_gl_reconciliation).             *)
(*                                                                         *)
(* A run reads the drift, then posts its corrections, all or none; the     *)
(* one-to-one of a correction and its movement is what stops a second run. *)
(***************************************************************************)
EXTENDS Requests, Integers, FiniteSets, Functions

CONSTANTS
  CountSheets,
  CountLots, NoLot,  \* the lots counted; NoLot: goods that carry no lot
  LotCosts, NoCost,  \* unit costs; NoCost: a lot with no layer left
  FallbackCost,      \* the product's average, or its standard cost
  Tolerance,
  LastCountDay       \* bound: today runs from 1 to LastCountDay

ASSUME RepairsAssumption ==
  /\ IsFiniteSet(CountSheets) /\ IsFiniteSet(CountLots)
  /\ NoLot \in CountLots /\ LotCosts \subseteq Nat /\ FallbackCost \in Nat /\ NoCost \notin LotCosts
  /\ Tolerance \in Nat /\ LastCountDay \in Nat \ {0}

VARIABLES
  sheets,     \* posted counts: day, UTC date, lot -> quantity and value moved, value journalled
  layerCost,  \* lots -> the unit cost of the layers left
  fixes,      \* CycleCountValuationCorrection: movement -> revaluation, journal, and their days
  today

repairs == <<sheets, layerCost, fixes, today>>

NotCounted == [day |-> 0]

(* The UTC date of something done on a day: in summer the first hour of a day in London is
   still the day before (settings.TIME_ZONE, USE_TZ). *)
UtcDates(day) == {day - 1, day}

SheetPosted(s) == sheets[s] # NotCounted
MovementsOf(s) == IF SheetPosted(s) THEN {s} \X DOMAIN sheets[s].lines ELSE {}
CountMovements == UNION {MovementsOf(s) : s \in CountSheets}
CountLine(m) == sheets[m[1]].lines[m[2]]
ValueOf(ms) == SumFunction([m \in ms |-> CountLine(m).value])

(* lot_layer_unit_cost, or the average when the lot has no layer. *)
UnitCostOf(l) == IF l = NoLot \/ layerCost[l] = NoCost THEN FallbackCost ELSE layerCost[l]

NetOf(lines) == SumFunction([l \in DOMAIN lines |-> lines[l].value])
Sheet(day, utc, lines, value) ==
  [day |-> day, utc |-> utc, lines |-> lines, booked |-> value # 0, journal |-> value]

Counted == UNION {[ls -> {-1, 1}] : ls \in SUBSET CountLots \ {{}}}

(* Counts posted before lots had a cost of their own: at the average, journalled or not. *)
OldSheets ==
  LET valued(q) == [l \in DOMAIN q |-> [qty |-> q[l], value |-> q[l] * FallbackCost]]
  IN  UNION {{Sheet(1, utc, valued(q), 0), Sheet(1, utc, valued(q), NetOf(valued(q)))} :
               q \in Counted, utc \in UtcDates(1)}

NoRepairs ==
  /\ sheets = [s \in CountSheets |-> NotCounted]
  /\ layerCost = [l \in CountLots \ {NoLot} |-> NoCost]
  /\ fixes = <<>> /\ today = 1

InitRepairs ==
  /\ \E sheet \in OldSheets : LET old == CHOOSE s \in CountSheets : TRUE IN
       sheets = [s \in CountSheets |-> IF s = old THEN sheet ELSE NotCounted]
  /\ layerCost \in [CountLots \ {NoLot} -> LotCosts]
  /\ fixes = <<>> /\ today = 1

-----------------------------------------------------------------------------
(* cycle_count_post today: each variance at its lot's cost, one journal of the net, with
   the UTC date. *)
PostSheet(s, qty, utc) ==
  /\ ~SheetPosted(s) /\ utc \in UtcDates(today) /\ Start
  /\ LET lines == [l \in DOMAIN qty |-> [qty |-> qty[l], value |-> qty[l] * UnitCostOf(l)]]
     IN  sheets' = [sheets EXCEPT ![s] = Sheet(today, utc, lines, NetOf(lines))]
  /\ UNCHANGED <<layerCost, fixes, today, req>>

(* Receipts and issues leave a lot with other layers, or with none. *)
Relayer(l, cost) ==
  /\ layerCost[l] # cost /\ Start
  /\ layerCost' = [layerCost EXCEPT ![l] = cost]
  /\ UNCHANGED <<sheets, fixes, today, req>>

NextCountDay ==
  /\ today < LastCountDay
  /\ today' = today + 1
  /\ UNCHANGED <<sheets, layerCost, fixes, req, overlaps>>

-----------------------------------------------------------------------------
ExpectedValue(m) == CountLine(m).qty * UnitCostOf(m[2])
HasGl(m) == sheets[m[1]].booked

(* Slip: the journal of the count is not looked for. *)
GlImpactAlways(m) == ExpectedValue(m)

(* What a correction changes: the stock ledger, and the control account. *)
Reval(m) == ExpectedValue(m) - CountLine(m).value
GlImpact(m) == ExpectedValue(m) - (IF HasGl(m) THEN CountLine(m).value ELSE 0)

Beyond(x) == x > Tolerance \/ -x > Tolerance

(* find_drift: movements of a lot, not corrected yet, off in the ledger or the account. *)
Drift ==
  {m \in CountMovements : /\ m \notin DOMAIN fixes /\ m[2] # NoLot
                          /\ Beyond(Reval(m)) \/ Beyond(GlImpact(m))}

(* apply_corrections: closed goes by the UTC date of the movement.  A correction of a closed
   period is journalled on the posting date asked for, any date at all, and revalued now;
   one of an open period is journalled on that UTC date and revalued on the movement's day. *)
InClosed(m, lock) == sheets[m[1]].utc <= lock
EntryDay(m, lock, posting) == IF InClosed(m, lock) THEN posting ELSE sheets[m[1]].utc
RevalDay(m, lock) == IF InClosed(m, lock) THEN today ELSE sheets[m[1]].day

(* The command with --apply: a lock date, a posting date (today's by default), and perhaps
   nothing for closed days.  A run that finds no drift changes nothing. *)
LoadRun(c, lock, posting, block) ==
  /\ req[c] = Idle /\ Start
  /\ LET rows == {m \in Drift : ~(block /\ InClosed(m, lock))}
     IN  /\ rows # {}
         /\ req' = [req EXCEPT ![c] = [m \in rows |->
              [reval |-> Reval(m), impact |-> GlImpact(m),
               moved |-> RevalDay(m, lock), entered |-> EntryDay(m, lock, posting)]]]
  /\ UNCHANGED repairs

(* The corrections are committed, unless another run corrected one of them first. *)
CommitRun(c) ==
  /\ req[c] # Idle
  /\ fixes' = IF DOMAIN req[c] \cap DOMAIN fixes # {} THEN fixes
              ELSE [m \in DOMAIN req[c] \cup DOMAIN fixes |->
                      IF m \in DOMAIN fixes THEN fixes[m] ELSE req[c][m]]
  /\ req' = [req EXCEPT ![c] = Idle]
  /\ UNCHANGED <<sheets, layerCost, today, overlaps>>

-----------------------------------------------------------------------------
(* The control report as of a day: movements by the day they were made, journals by the
   date they carry. *)
MovedBy(d) == {s \in CountSheets : SheetPosted(s) /\ sheets[s].day <= d}
BookedBy(d) == {s \in CountSheets : SheetPosted(s) /\ sheets[s].booked /\ sheets[s].utc <= d}
RevaluedBy(d) == {m \in DOMAIN fixes : fixes[m].moved <= d}
EnteredBy(d) == {m \in DOMAIN fixes : fixes[m].entered <= d}

Revalued(ms) == SumFunction([m \in ms |-> fixes[m].reval])
Entered(ms) == SumFunction([m \in ms |-> fixes[m].impact])
Journalled(ss) == SumFunction([s \in ss |-> sheets[s].journal])

ClosingSubledger(d) ==
  ValueOf(UNION {MovementsOf(s) : s \in MovedBy(d)}) + Revalued(RevaluedBy(d))
ClosingGl(d) == Journalled(BookedBy(d)) + Entered(EnteredBy(d))
Variance(d) == ClosingSubledger(d) - ClosingGl(d)

(* The movements that have no journal, nor a correction with both its halves in the report. *)
Unaccounted(d) ==
  {m \in CountMovements : /\ m[1] \in MovedBy(d) /\ ~HasGl(m)
                          /\ m \notin RevaluedBy(d) \cap EnteredBy(d)}

(* The halves of counts and corrections whose other half has a later date. *)
OneSided(d) ==
  Revalued(RevaluedBy(d) \ EnteredBy(d)) - Entered(EnteredBy(d) \ RevaluedBy(d))
    - Journalled(BookedBy(d) \ MovedBy(d))

(* On any day, and whatever runs raced and dates they were given, the stock ledger and the
   control account differ by the movements nothing accounts for and by the halves dated on
   the other side of that day, and by nothing else: once every date is past, by the former
   (find_drift, apply_corrections, inventory_gl_reconciliation). *)
CatchUpReconciles ==
  \A d \in 0 .. LastCountDay : Variance(d) = ValueOf(Unaccounted(d)) + OneSided(d)
=============================================================================
