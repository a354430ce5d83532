# SwifPro BI: a verification development

SwifPro BI (`src/`) is a Django ERP for small businesses: stock, purchasing,
sales, returns, transfers, counting, manufacturing, planning and a general ledger
that all of them post to. Its views are thin requests over services; its state
is the database. This directory holds TLA+ modules translated from that code,
TLC configurations that check them on small instances, and TLAPS proofs of what
matters most. `PROJECT.json` lists the components, the runs, the source lines of
every definition, the hazards, the mutants and the theorems.

## The system

| component | state | operations | interacts with | what makes it correct |
|---|---|---|---|---|
| stock ledger and valuation (`services/inventory.py`) | costing fields, balances per location, lot and bin, cost layers, movements | `apply_movement` | every document that moves goods | nothing overdrawn on a strict tenant; layers cover stock; values add up to stock at cost |
| reservations (`services/inventory.py`) | reservation rows, `reserved` on balances | reserve, release, consume | orders, channel orders | the reserved balance is the sum of the holds; promises stay within stock |
| transfers (`views.py` 4732-5005) | transfer, lines with dispatched and received quantities | create, post, dispatch, receive, cancel | stock ledger, accounts 1000 and 1010 | no unit lost or duplicated; In Transit is worth what is in transit |
| customer orders (`views.py` 5700-6124) | order, line, status | create, confirm, cancel, edit, invoice, delete | reservations, invoices | an order holds its lines exactly while confirmed |
| receivables (`views.py` 5414-5583, 6620-7060; `services/gl.py`) | invoices, payments, allocations, credit notes | issue, send, cancel, receipt, refund, credit, delete | stock ledger (COGS), AR account | an invoice is an open item: booked once, settled within what is due, written back once |
| procurement (`views.py` 218-366, 1606-2303, 6317-6420; `services/purchasing.py`) | order versions, shipments, receipts, bills | submit, approve, send, amend, cancel, ship, receive, bill | stock ledger, GRNI, landed cost accruals | receipts reach every version; nothing unapproved comes in; the suspense accounts clear |
| corrections (`services/stock_take.py`, `services/returns.py`, adjustments) | counts, stock takes, adjustments, returns, hold location | snapshot, count, approve, post; receive, resolve | stock ledger, adjustment accounts | books equal stock; a count leaves what was counted |
| work orders (`services/mrp/work_order_*.py`) | materials, completions, bookings, WIP | release, issue, complete, scrap, reverse, book, close | stock ledger, WIP account | WIP follows the order's figures and is nothing once it is closed |
| MRP (`services/mrp/`) | runs, planned orders, pegging, suggestions | run, firm, ignore, cancel, convert, suggest | purchasing, transfers, work orders | orders cover the shortages and no more; one need, one order, one document |
| scheduling (`scheduling.py`, `routing_capacity.py`) | operations' dates, calendars, daily load | plan, level, convert, reschedule | work orders, calendars | operations follow one another; a finite day is not overloaded |
| housekeeping (`recurring.py`, `housekeeping.py`) | templates, quotes, reminders | cron, page loads, endpoints | receivables | no occurrence skipped or made twice; due work gets done |
| back office (`views.py`, `vat.py`, `reports.py`, `access.py`, ...) | requisitions, access requests, expenses, VAT returns, members, sessions, channel orders, replenishment, journal, bank lines, scheduled exports, forecasts | see below | each its own tables | see below |

### What is hard

* **Requests race.** Most endpoints are transactions at PostgreSQL's READ
  COMMITTED; there is no `ATOMIC_REQUESTS`, so an endpoint without
  `transaction.atomic` commits each save by itself (housekeeping, planning runs,
  bulk conversion, rescheduling). `apply_movement` locks the product row and
  reservations lock the balance row, but documents are read without a lock and
  saved later, sometimes with every column.
* **A process stops half-way.** Cron commands, bulk jobs and mail deliveries have
  steps between their commits; page loads swallow their exceptions and try again.
* **Statuses are tested by some requests and not by others**, so sequences of
  legal calls reach states no screen expects.
* **Money is rounded at every posting**, and a document posted in parts is
  rounded in parts.
* **Three costing methods share one ledger**, and two of them may be switched
  while stock is held.

## Modules

| module | models | extends |
|---|---|---|
| `Rounding` | `Decimal.quantize` with ROUND_HALF_UP and ROUND_HALF_EVEN | |
| `Valuation` | one call of `apply_movement`, as a function on the product's stock record | `Rounding` |
| `StockLedger` | the stock of a product under all movements and product edits | `Valuation` |
| `Transfers` | inventory transfers, their movements and their journals | `Valuation` |
| `CustomerOrders` | customer orders, reservations and invoicing, as racing requests | |
| `OpenItem` | what a sales ledger promises of one invoice: the abstract specification | |
| `Receivables` | invoices, receipts, refunds and credit notes; refines `OpenItem` | |
| `Procurement` | versions of a purchase order, shipments, receipts, bills, GRNI and landed cost | |
| `StockCorrections` | counts, stock takes, adjustments and returns against the control account | `Requests` |
| `WorkOrders` | one work order from release to close, with the WIP account | `Requests`, `Rounding` |
| `LotSizing` | the quantity of a planned order, as operators | |
| `Netting` | one MRP run, item by item and day by day | `LotSizing` |
| `PlanningRuns` | the run executed again, its orders converted, its suggestions applied | |
| `Scheduling` | operations placed into working days, by requests that save one by one | |
| `Schedules` | recurring invoices, quote expiry and reminders, with failures and fairness | |
| `Requests` | a request as what it read and what it writes | |
| `Approvals`, `Members`, `ChannelOrders`, `Replenishment`, `Books`, `Sessions`, `ReportExports`, `Bank`, `Repairs`, `Forecasts` | the desks of the back office | `Requests` |
| `BackOffice` | those desks together; they share clients and no table | all of them |
| `MC...` | the instances TLC checks | the module named |
| `SumTheorems` | lemmas on sums over finite sets | |
| `...Proofs` | theorems and their proofs | the module named, `TLAPS` |

**Requests.** Where the code reads a row without a lock and writes later, an
operation is two actions, a `Load` (the read and the tests on what was read) and a
commit that writes from what was loaded; anything may happen in between. Where the
first write excludes everyone else, or the journal's unique constraint stops the
second, it is one action. A request may fail for any reason and is rolled back, or,
where the code commits as it goes, leaves what was saved. Whole-document promises
are often made only to requests that do not overlap; the modules keep a history
variable (`calm`, `smooth`, `torn`, `lapse`) that says whether that has been so, and
`MaxOverlaps` lets TLC look at both sides.

**`Valuation`, `StockLedger`.** A product's stock is one record: costing method,
standard cost, moving average, the three levels of balance, the non-empty FIFO layers in
order, and the sum of its movement values (the subledger). `apply_movement` takes the
product's row lock first, so it is one step and is written as a pure function:
`Accepts` is its refusals, `Inbound` and `Outbound` its branches. Costs are integers in
1/10000 of the currency and values integers in cents; `Scale` is the number of cost units
in a cent. `OpenEdit` and `SaveEdit` are `product_edit`, which reads the row without a
lock and later saves all of it.

**`Transfers`.** Create, one-step post, dispatch, partial receive with or without short
close, and both cancellations, among goods receipts and adjustments that move the costs
between dispatch and receipt. Each operation is the whole handler: its movements, the
line fields, the status and the journals to Inventory (1000) and In Transit (1010). The
tenant blocks negative stock: then no line value is negative, the code's "post when the
total is positive" is the same as posting each line, and both accounts can be kept by
line. The requests are atomic here.

**`CustomerOrders`.** `corder_delete` locks the order's reservations before the row, so
it has one step more (`Scan`). An `UPDATE` with `update_fields` on a row that is gone
raises, so confirm, cancel and invoice require the row; a full `save()` inserts it
again, so edit does not. One product, one line per order.

**`Receivables`, `OpenItem`.** `Phase` reads from an invoice's status, journal and
write-back what `OpenItem` calls new, open and closed; `ItemSpec` is the property that
every step of the screens is a booking, a settlement, a release or a write-back of one
item, or touches none.

**`Procurement`.** One product whose unit costs 1 on the order, so received quantities
are also values. Amending copies the order into a new version; a receipt is booked
against the version of its shipment, and `sync_po_line_received` writes the total to
all of them.

**`Netting`.** The recursion of the engine is the stack `agenda`; a failing profile
rolls its rows back (to `saved`) but not what the run keeps in memory (`caches`). A BOM
line that takes nothing is passed over (`PassLine`); any other is one step, with all
that planning its component writes. A depot gives what it can net less what
open transfers take out of it (`SourceAvailable`). **`PlanningRuns`** takes from
it only that a run plans an order for each need. Its requests are those of `Requests`:
a second execution, a conversion or a suggestion acts on the rows it read before.

**`Scheduling`.** A calendar gives a centre hours for each day: the base capacity times the
multiplier of the weekday or of an exception, 0 on a holiday (`get_working_capacity`); what
matters to a placement is those hours, so calendars are functions from days to hours, and
an edit gives a day other hours. `longest` remembers the longest shift of each day.

**`Repairs`.** A count is posted on a day of the tenant's time zone and journalled with the
UTC date, which in summer may be the day before; the report takes movements by the former
and journals by the latter. A correction's two halves have dates of their own: in a closed
period the journal has the posting date asked for and the revaluation is made now, in an
open one they follow the UTC date and the day of the movement.

**`Schedules`.** The one module with fairness: cron keeps starting (`SF(Cron)`), a pass
that has begun goes on (`WF(JobStep(j))`), and failures are bounded by `MaxMishaps`. The
code justifies both: cron is started by the host whatever happened before, and a pass
runs to its end unless something stops it. Nothing else in the system must run: a
document waits for a user as long as the user likes.

**`BackOffice`.** A behaviour is about one desk, since none reads what another writes;
the composition keeps one specification and one run for ten small modules.

## Runs and bounds

Every property of a run has a mutant: a plausible slip, written beside the definition it
replaces, that makes TLC find the property violated.

| run | asks | bounds |
|---|---|---|
| `stock` | are balances, layers and ledger value in step, for each costing method on a strict tenant? | two locations, one lot, quantities 1 and 3, costs that round, four movements, one product edit; no bins (the proof covers them) |
| `transfer_books` | does a transfer with two lines of different costing keep quantities and books? | one transfer, an average and a FIFO product, partial receipts, two goods receipts, one adjustment |
| `orders` | what do orders hold while requests overlap, and while they do not? | two orders, two locations, two clients, one overlap, one invoice |
| `receivables` | is every invoice an open item; do goods, status and credit follow? | two invoices (one stocked), two payments, one note, two clients, one overlap |
| `procurement` | do received quantities, approval and suspense accounts stay in step? | two versions, two shipments, receipts and bills, two clients, one overlap |
| `stock_corrections` | do books follow stock through every correcting document? | one product, up to two documents at once, two clients, one document submitted twice |
| `work_orders` | is WIP what the order says it is? | two units, two movements, two hours, two clients, one overlap |
| `schedules` | is every occurrence made, once, and due work done in the end? | four days, two occurrences, one mishap, safety cap 1 |
| `netting` | do planned orders fit the shortages? | a parent, a phantom kit, a component, its depot; three days; one failure |
| `planning_runs` | one need, one order, one document? | two needs, both bought, three orders, two documents, one overlap, one crash |
| `scheduling` | do operations follow one another within capacity? | two orders, two work centres, six days, one of them with a shift that may be cut or taken away, two requests |
| `back_office` | the promise of each desk | two clients, one overlap, one expense, one stock location, a clock of four ticks, small sets of everything |

Costs such as 1.50, 2.33 and 10.33 with quantities 1 and 3 make averages and layer
costs that do not terminate, so rounding takes place; two locations and two lots (a
named one and none) are the fewest that tell the queries' scopes apart; two receipts and
two issues are the fewest movements that split a layer. Two clients and one overlap are
the fewest for a lost update, and one overlap is all a pair of requests can have.
`MaxMoves`, `MaxEdits`, `GoodsInLimit`, `AdjustLimit`, `InvoiceLimit`, `MaxOverlaps`,
`MaxMishaps`, `MaxDocuments`, `MaxDocs`, `MaxOrders`, `MaxFailures`, `MaxCrashes`,
`MaxRequests`, `MaxMovements`, `MaxHours`, `MaxArrivals`, `MaxHeld`, `MaxEntries`,
`MaxChanges`, `MaxStops`, `LastDay`, `Horizon`, `LastTick`, `LastEntryDay` and `LastCountDay` bound
the behaviours and nothing else: they are guards on counters the code does not have.
`Movable` names the calendar days that may change and `Shifts` the hours they may have, `Slots` and `Parts` the documents and
the parts of an hour in play. What is only compared for equality is symmetric, and the
runs use that where no constant names it.

`CHECK_DEADLOCK FALSE`: a behaviour stops when it has spent its bounded moves, and
that is a legitimate end.

### What the code does not promise

No run is expected to fail. Disagreements between code and intention found while
modelling are conditions of the properties, named there, and are worth knowing:

* an untagged issue takes a lot's cost layer, and the lot's own issue then finds none
  although nothing is negative; an open product form restores an old moving average;
  changing the standard cost revalues nothing (`LedgerTracksStock`);
* a dispatched transfer can be posted again as a one-step one; partial receipts leave a
  cent or so in In Transit (`TransitWithinRounding` says how much);
* a one-step transfer of a FIFO product arrives at the rounded average of the layers it
  left and posts no journal, so the subledger and account 1000 may part by a cent or so
  at each posting, where a comment calls it value-neutral (`views.py` 4808; `LedgerSlack`
  in `Reconciled` says how much);
* an edit of an order undoes a concurrent cancel or invoice; a quote becomes a confirmed
  order without a hold (`HoldsFollowOrder`);
* two receipts or issues at once pass the balance and credit checks of receivables
  (`PaidIsSettled`, `BookedWithinCredit`, the `calm` of `OpenItem`);
* a receipt booked while its order is amended escapes the new version
  (`ReceivedMatchesReceipts`); two bills for one receipt clear GRNI twice
  (`SuspenseClears` states it so);
* a correcting document submitted twice at once moves stock twice and books once
  (the `calm` of `BookMatchesStock`); a scrapped kit books the loss of its first
  component only (`Unbooked`);
* overlapping reversals of a work order both pass; the close saves the status and the
  variance apart (`WipMatchesOrder`);
* stock reserved for an order is subtracted from supply while the order is demand too
  (`OrdersFitShortages` counts it), and a failed profile leaves its traces in memory
  (`OneDrawCovers`);
* a failed reschedule leaves some operations saved; operations over several days are
  counted evenly, and a shift cut under what is placed leaves the day overloaded
  (`OperationsFit`);
* two racing converts order twice; a submitted VAT return is overwritten; two admins
  demote each other (`OneApprovedResult`, `ReturnFollowsLedger`, `AdminRemains`);
* a refused channel order keeps the lines shipped before the refusal (`ChannelShipsOnce`);
* orders made from a requisition go to the first location; drafts and converted
  requisitions are not counted as supply (`NotOverordered`);
* the mail of an export goes out before its next date is saved (`ExportsKeepCadence`);
* a locked forecast version is activated by anybody; a line whose request had read the
  version before it was locked is saved all the same, under a run that reads the locked
  version too (`ForecastsHold`);
* a correction of a closed period carries its posting date in the ledger and the day of
  the repair in the stock ledger, and the journal of a count its UTC date, so between two
  such dates the control report shows a difference that nothing is wrong with
  (`OneSided` in `CatchUpReconciles` says which);
* the low-stock page orders the quantity it showed, however old (`NotOverordered`).

A property with a condition of this kind does not cover the race it excepts. Where the
code does nothing against a race (two credit checks, two reversals, two conversions, two
admins, a status computed from stale rows), the race is in the model and reaches states
the property says nothing of; `PROJECT.json` says so at the hazard.

## What is proved

`tlapm` checks every proof to its leaves. The theorems hold for every value of the
constants that satisfies the named assumptions of the modules, and the runs evaluate
those assumptions. They say little: quantities and amounts are natural numbers, a
quantity moved is not zero, the value that stands for "none" is not one of the real
ones, and the sets that are summed over (locations, lots and bins, transfers, orders,
invoices, payments, notes, receipts, bills, expenses, companies, sites, count sheets,
places to replenish, channel orders, products and returns) are finite; what a line of a channel order explodes
to is a natural number of each part. `Scheduling` assumes that every order has a routing
with an operation, and counts in parts of an hour of which an even spread over any number
of its days is whole (the code rounds that spread to a hundredth). `Transfers` assumes a
strict tenant without serials, which is what it models. No theorem bounds the number of
products, documents, clients, requests or movements, or the scale.

| theorem | for every value of the constants | states |
|---|---|---|
| `StrictStockNeverOverdrawn`, `SerialsStayUnits`, `StockStaysTyped` | no location, lot or bin of a strict tenant is overdrawn; a serial is a unit; the columns keep their types | `NeverOverdrawn`, `TypeOK` |
| `FirstInFirstOut` | a layer is drawn on when the older ones of its lot there are exhausted | `OldestLayerFirst` |
| `LayersKeepCovering` | layers and balances of a FIFO product stay in step | `LayersCoverStock` |
| `LedgerKeepsTrack` | the movement values are what the stock costs, to the rounding | `LedgerTracksStock` |
| `NoUnitLostOrDuplicated`, `ReceiptsNeverExceedDispatch` | units are on hand, in transit or written off | `StockConserved` |
| `TransferBooksBalance`, `TransitNeverDrifts`, `AveragesStayAmounts` | accounts 1000 and 1010 follow the subledger and the goods in transit | `Reconciled`, `TransitWithinRounding` |
| `BalancesAreHeld`, `PromisesKept`, `HoldsStayWithLines`, `OrdersStayTyped` | reserved stock is held, and there; an order holds what its lines ask for | `ReservedIsHeld`, `PromisesWithinStock`, `HoldsFollowOrder` |
| `LedgerKeepsItsPromise` | the sales ledger implements the open item | `ItemSpec` |
| `GoodsAndMoneyTogether`, `PaidMeansSettled`, `BookingsFitCredit`, `ReceivablesStayTyped` | goods, status and credit follow the ledger | `GoodsFollowTheLedger`, `PaidIsSettled`, `BookedWithinCredit` |
| `ApprovedBeforeReceipt`, `ReceiptsReachEveryVersion`, `SuspenseAccountsClear`, `PurchasingStaysTyped` | the three promises of purchasing | `NothingUnapproved`, `ReceivedMatchesReceipts`, `SuspenseClears` |
| `SomebodyAdministers`, `DocumentsAreMadeOnce`, `ReturnsReclaimWhatIsBooked`, `StatementMatchesOnce`, `LockedForecastsHold`, `FormsLandInTheirContext` | the desks for documents, members, the bank, forecasts and sessions | `AdminRemains`, `OneApprovedResult`, `ReturnFollowsLedger`, `LinesMatchOnce`, `ForecastsHold`, `FormsLandWhereOpened` |
| `RepairsCatchUp`, `ReportsStayInAgreement`, `ExportsStayOnCadence` | the repair of old counts, whatever dates its halves carry; the reports; the mailed reports | `CatchUpReconciles`, `ReportsAgree`, `ExportsKeepCadence` |
| `OrdersHaveOneDocument`, `NeedsPlannedOnce`, `DocumentsListOrders` | planned orders, their documents and the needs of a run | `OneDocument`, `EachNeedOnce`, `DocumentsHaveOrders` |
| `BooksMatchStock`, `CountsAreOnHand`, `CorrectionsTypes` | counts, adjustments and returns: the books follow the stock, and the stock what was counted | `BookMatchesStock`, `CountedIsOnHand` |
| `WipFollowsOrder`, `OrderIsItsMovements`, `WorkOrderTypesHold` | a work order: the accounts follow its movements, WIP what it says is left; line, stock, quantity and status follow too | `WipMatchesOrder`, `OrderFollowsMovements` |
| `NothingTwiceOrSkipped`, `ScheduleTypesHold` | recurring invoices and reminders: no occurrence is skipped, and while nothing fails or overlaps none is done twice or out of its limits | `OccurrencesOnce` |
| `OrdersFit`, `OneDrawIsCovered`, `NettingTypesHold` | an MRP run: planned orders fit the shortages, day by day; stock, receipts and orders cover all demand of an item only one plan draws on | `OrdersFitShortages`, `OneDrawCovers` |
| `OperationsFollowAndFit`, `SchedulingTypesHold` | operations of make orders: none starts before the one ahead of it ends; only operations that span several days overload a finite centre, or a shift that was cut | `OperationsFit` |
| `ReordersStayWithinPolicy`, `ChannelOrdersShipOnce` | the replenishment planner, the channel orders | `NotOverordered`, `ChannelShipsOnce` |
| `SumUpdate`, `SumNatural`, `SumExtend`, `SumByKey`, `SumSwap`, `ConsumeDraws` | sums over finite sets, by key, by row and column, running totals; the loop of a FIFO issue | |

The arguments, module by module:

* **`SumTheorems`.** The community library defines a sum by a fold that picks elements
  in an unspecified order. The sums are taken apart by well-founded induction over the
  subsets of a finite set, written out as a smallest counterexample because the
  library's induction theorems cannot be instantiated here. `SumUpdate` (a sum changes
  by what one summand changes) carries every ledger proof.
* **`ValuationProofs`.** What `apply_movement` does to each column. `RebalanceMoves` and
  `RebalanceTotal` are about the balances, `InboundCosting` and `OutboundCosting` about
  value and average. A FIFO issue is a loop over the layers; `Drawn` and `Accounted` are
  its invariants (the layers are kept in their order, and while the issue still wants
  some, no layer passed had any left to give; what was taken, what is still wanted and
  the cost add up), and `ConsumeDraws` is their value at the end.
* **`StockLedgerProofs`.** `NeverOverdrawn` and `SerialsAreUnits` are inductive once
  balances are integers (`IInv`); `Costed` adds that costs are amounts and layers are in
  order. `LayersMatchStock` and `Priced` (booked value against stock at cost) are then
  carried by each movement: both sides grow by the same quantity, and by values that
  differ by no more than the slack the movement adds. `Priced` says the same of the three
  methods in different words, so its steps go by method. These two concern the checked
  specification with its count of product edits, which implies the ledger's (`MCRefines`).
* **`TransferAndWorkOrderProofs`.** `DocsOK` says what each status implies for the lines, which
  bounds what a receipt takes; `QuantitiesOK` adds that no balance is negative and every
  unit is accounted for; `StocksOK` and `TransitsOK` are the two accounts with their
  slack. An average divides by the total on hand, so that it stays an amount rests on
  the quantity side; that a FIFO cost does rests on `PaidLayers`. *Work orders* (a
  specification of its own): what is left of the movements, what they are worth and what
  was restored are sums over a sequence that grows (`MovementAdded`) or changes at one
  place (`MovementChanged`); a pending reversal may have read an old mark, but the kind,
  quantity and cost of its movement never change (`OrderRead`), so the accounts follow the
  movements through every race. For the rest `OrderCalm` says more than the properties: the
  line's cost is its quantity at the component's cost, which makes the scrap value an
  amount, and what one movement has left is no more than the sum (`LeftBounds`), so a
  reversal never takes the order below nothing; between the status and the variance of a
  close, the request knows what the order has left (`OrderAsRead`).
* **`CustomerOrdersProofs`.** The typing of rows and requests includes what a request
  under way knows of its row; `ReservedIsHeld` is inductive with it, by `SumUpdate`.
  `HoldsFollowOrder` needs `Calm`: while no request has overlapped another, the one under
  way is alone and what it read is still so.
* **`ReceivablesProofs`.** `IInv` ties the phase of an invoice to its journals and goods,
  whatever races. `CalmInv` says what more is true while requests do not overlap: the
  request under way has read the rows as they are. `Moves` is a step of `OpenItem` for
  each invoice or none; every operation is shown to be one. *Schedules* (a specification of
  its own): `NoneSkipped` says of the template, and of every row a pass or a request has
  read or followed, that each of its dates so far has its invoice; invoices are only ever
  added, so a row saved late or twice cannot skip one. While all goes smoothly one job runs
  at most, and the row it follows, or else the template, says exactly which invoices there
  are (`OnSchedule`), while the last mail is that of the date saved or of the pass that has
  yet to save it (`RemindersStand`). How often a transaction's loop turns is a maximum over
  a bounded set, shown to exist by naming it (`TurnsWithin`).
* **`ProcurementProofs`.** `Typed`, `Linked` (versions, shipments, receipts and bills
  point where they should), `Unapproved`; then `Balanced`: received quantities, GRNI and
  landed accruals as sums over receipts and bills. *Netting* (a specification of its
  own): what an item lacks on a day is safety stock and demand so far less stock and
  receipts so far (`ShortBy`), and it changes on event days only (`ShortLater`,
  `ShortFlat`). `Walking` says that the projected balance is that shortage made up by the
  walk's orders, and that the days behind are covered or the planner was told; an order
  placed on top is at most the shortage and its rounding (`OrderFits`). Other items'
  orders are not touched by a walk, whatever it explodes into, so `Settled` holds of the
  walks that are over, and of the copy a failure goes back to. For `OneDrawCovers`,
  `DrawsCover` counts what was taken of an item as a component and as a source: no more
  than there is, and all that was asked for beyond it is ordered or reported. What a BOM
  explodes into is any sequence of requirements, so no induction over the BOM is needed.
  *Scheduling* (a specification of its own): `BackwardFits` and `ForwardFits` say that
  what they return ends where it starts or later, on the asked side of the date, and that
  an operation of one day takes no more than that day had room for. `Sequenced` says that
  the operations of an order follow one another, and that while a request is under way
  those it has placed do, on the far side of the date it goes on from (`PlacedBack`,
  `PlacedForth`); a conversion does the same in a loop, which is a recursive function over
  the operations, shown to exist (`LoopExists`) and taken turn by turn. For capacity,
  an operation of one day counts in full on that day (`CommittedAtLeast`), so
  `Roomy`, the hours of those operations against the longest shift the day has had, is kept
  by a placement that fits the room left by all others, and by any change of the shift. If
  no operation of several days lies on an overloaded day, what is committed there is just
  those hours (`CommittedAtMost`), and the shift must have been longer. `Roomy` holds
  whatever requests overlap, because a placement and its save are one step of the model;
  `OperationsFit` claims it for requests that do not, which is as far as that step is
  faithful.
* **`BackOfficeProofs`.** One invariant for each desk over a shared part for requests:
  what a request under way has read and still holds, and that it is alone while `calm`.
  *Repairs*: a correction makes up what the ledger has and the journals have not, lot by
  lot and sheet by sheet (`FixSums`). As of a day the report takes the movements, journals,
  revaluations and corrections up to it, four sets of which no two need agree, so the sums
  are taken apart by what is inside one and outside another (`SumInAndOut`), and what
  remains is `Unaccounted` and `OneSided` (`UnaccountedIsVariance`). *Books*: every entry balances, and
  the sales and purchases of any set of companies are their invoices and the trades among
  them (`BooksInv`, for every scope), from which each statement is a sum of one table taken
  by rows or by columns, and the elimination takes the inside trade. *Exports*: by
  quotients and remainders the next time is the first of the cadence after now
  (`NextRunIsNext`), and the last time served lies before it unless a mail is out whose
  outcome is not saved (`KeptExports`). *Planner*: while there was no `lapse`, what the plan
  projects for a place is what it has and is getting (`PlanSeesAll`), and an order of what
  it suggests on top stays under the ceiling of the policy (`SuggestionFits`); no request
  need be alone for that. *Channel*: a draft holds what its lines ask for, the stock
  reserved is the sum over the drafts, and a shipment that is not refused is the whole of
  its lines (`WholeShipment`). *Planning runs* (a specification of its own, proved here
  because it shares the part for requests): an order and its document know each other
  (`OrderLinked`), and a run under way has planned each need once but those it reported or
  has yet to come to (`RowsAsRead`); a request that stops half way leaves both true, which
  is why a cancelled execution does no harm. `DocumentsHaveOrders` needs neither: it holds
  of the step. *Stock corrections* (likewise): a request that posts a count found its
  lines fresh (`ReadWell`), which with the sum of a product's lines (`FirstLineCounts`)
  gives `CountedIsOnHand` however documents race. While no document is submitted twice at
  once, requests are at different documents and each document is as its request read it
  (`CalmReads`), so the reference of its journal is still unused (`RefsFollow`) and the
  journal books what the step moves; on hand, on hold and what scrapped kits did not book
  are three sums, of which each step changes one or two by as much as the account.

Left to TLC, and why: `DueWorkIsDone` is liveness, and the prover has neither fairness
nor `ENABLED`. Every other property of a run is stated by a theorem.

## Plan

Everything planned has been written, checked and, but for liveness, proved.

## Not modelled

Document numbering (the unique constraint turns a race into a failed request, which the
modules have), import, Shopify, notifications, PDF and the audit log (input and output),
dashboards and the reports that only read, saved views, forms, templates, management
commands, seeds and migrations. Within the modelled components: statements and ageing,
currencies, site scoping of purchasing, first-expiry and serial pickers, alternative
routings, lead-time arithmetic. `PROJECT.json` says for each component what is left out.
