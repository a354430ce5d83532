---------------------------- MODULE StockCorrections ----------------------------
(***************************************************************************)
(* The documents that correct stock, and the inventory control account:    *)
(* cycle counts, stock takes, stock adjustments and customer returns, among *)
(* the movements of other documents (the cycle_count_*, stock_take_*,       *)
(* adjustment_* and return_* endpoints of views.py over stock_take.py,      *)
(* returns.py and gl.py).                                                  *)
(*                                                                         *)
(* A request that moves stock reads its document without a lock and meets  *)
(* the product's row lock only in apply_movement: it is a Load and a       *)
(* commit, between which other documents move stock.  Nothing keeps a      *)
(* second request for the same document out: overlaps counts only these.   *)
(* The other requests change one document in one step.                     *)
(*                                                                         *)
(* A unit is worth 1, so values are quantities.  Stock lies at one location *)
(* and in its hold location, without lots or bins; the tenant is strict.   *)
(***************************************************************************)
EXTENDS Requests, Integers, FiniteSets, Functions

CONSTANTS
  Products,
  Goods,         \* what a customer may return: the products it explodes into
  Adjustments, Returns,
  Uncounted,     \* a line of a count nobody has counted
  Threshold,     \* Tenant.stock_adjustment_approval_threshold, 0 for none
  MaxStock,      \* bound: stock the other movements build up
  MaxDocuments   \* bound: documents begun

ASSUME GoodsAssumption ==
  Goods \subseteq SUBSET Products /\ Goods # {} /\ Products # {} /\ IsFiniteSet(Products)
ASSUME ReturnsAssumption == IsFiniteSet(Returns)
ASSUME StockAssumption ==
  Threshold \in Nat /\ MaxStock \in Nat \ {0} /\ MaxDocuments \in Nat \ {0}
ASSUME UncountedAssumption == Uncounted \notin Nat

VARIABLES
  onHand,  \* Products -> InventoryBalance.on_hand at the location
  held,    \* Products -> on hand at the hold location
  control, \* the balance of the inventory account
  refs,    \* the references journals carry
  cycle,   \* CycleCount and its lines
  take,    \* StockTakeSession and its lines
  adj,     \* Adjustments -> StockAdjustment
  rma      \* Returns -> ReturnAuthorization and its line

correctionsVars == <<onHand, held, control, refs, cycle, take, adj, rma, req, overlaps>>
stockTables == <<onHand, held, control, refs>>
requests == <<req, overlaps>>

(* The lines of a count: one per product, and a second one, for the unique
   constraint over lot, serial and expiry does not hold among NULLs. *)
CountLines == Products \X {1, 2}

Line == [expected : Nat, counted : Nat \cup {Uncounted}]
CycleStatuses == {"NONE", "DRAFT", "SUBMITTED", "APPROVED", "POSTED"}
TakeStatuses == {"NONE", "DRAFT", "SNAPSHOTTED", "COUNTING", "REVIEW", "APPROVED", "POSTED",
                 "CANCELLED"}
IsCount(s, statuses) ==
  /\ s.status \in statuses
  /\ DOMAIN s.lines \subseteq CountLines
  /\ \A l \in DOMAIN s.lines : s.lines[l] \in Line
StockAdjustment == [status : {"NONE", "PENDING", "POSTED", "REJECTED"}, product : Products,
                    qty : Int]
Dispositions == {"RESTOCK", "HOLD", "SCRAP"}
ReturnAuthorization == [status : {"NONE", "DRAFT", "APPROVED", "RECEIVED"}, goods : Goods,
                        disposition : Dispositions, final : {"NONE", "RESTOCK", "SCRAP"}]

NoLines == [l \in {} |-> [expected |-> 0, counted |-> Uncounted]]

InitCorrections ==
  /\ onHand = [p \in Products |-> 0]
  /\ held = [p \in Products |-> 0]
  /\ control = 0
  /\ refs = {}
  /\ cycle = [status |-> "NONE", lines |-> NoLines]
  /\ take = [status |-> "NONE", lines |-> NoLines]
  /\ adj = [a \in Adjustments |-> [status |-> "NONE", product |-> CHOOSE p \in Products : TRUE,
                                   qty |-> 0]]
  /\ rma = [r \in Returns |-> [status |-> "NONE", goods |-> CHOOSE g \in Goods : TRUE,
                               disposition |-> "HOLD", final |-> "NONE"]]
  /\ InitRequests

(* The bound: whether one more document may be begun. *)
MayBegin ==
  Cardinality({a \in Adjustments : adj[a].status # "NONE"} \cup
              {r \in Returns : rma[r].status # "NONE"} \cup
              {d \in {"cycle"} : cycle.status # "NONE"} \cup
              {d \in {"take"} : take.status # "NONE"}) < MaxDocuments

(* A request reads a document, and the stock as it is, perhaps while another is at
   the same document. *)
ReadIn(c, op, doc, lines) ==
  /\ req[c] = Idle
  /\ IF \A k \in Clients : req[k] # Idle => req[k].doc # doc
       THEN UNCHANGED overlaps
       ELSE overlaps < MaxOverlaps /\ overlaps' = overlaps + 1
  /\ req' = [req EXCEPT ![c] = [op |-> op, doc |-> doc, lines |-> lines, seen |-> onHand]]
  /\ UNCHANGED <<stockTables, cycle, take, adj, rma>>

(* A journal is booked once for a reference: the posters return the one there is. *)
BookedFor(ref, value) == IF ref \in refs \/ value = 0 THEN 0 ELSE value

-----------------------------------------------------------------------------
(* A receipt or a sale of another document, with its own journal. *)
Move(p, d) ==
  /\ onHand[p] + d \in 0 .. MaxStock
  /\ onHand' = [onHand EXCEPT ![p] = @ + d]
  /\ control' = control + d
  /\ UNCHANGED <<held, refs, cycle, take, adj, rma, requests>>

-----------------------------------------------------------------------------
(* What a line changes when it is posted: nothing, until it is counted. *)
LineVariance(line) == IF line.counted = Uncounted THEN 0 ELSE line.counted - line.expected

(* Every line again, against the stock there is now. *)
Refreshed(lines) == [l \in DOMAIN lines |-> [lines[l] EXCEPT !.expected = onHand[l[1]]]]

Stale(lines) == Refreshed(lines) # lines

Changes(lines) ==
  [p \in Products |->
     SumFunction([l \in {k \in DOMAIN lines : k[1] = p} |-> LineVariance(lines[l])])]

(* The writes of a count's posting: the variances, and their net value once. *)
PostVariances(lines, ref) ==
  LET d == Changes(lines)
  IN  /\ \A p \in Products : onHand[p] + d[p] >= 0
      /\ onHand' = [p \in Products |-> onHand[p] + d[p]]
      /\ control' = control + BookedFor(ref, SumFunction(d))
      /\ refs' = IF SumFunction(d) = 0 THEN refs ELSE refs \cup {ref}
      /\ UNCHANGED held

OnlyCycle == UNCHANGED <<stockTables, take, adj, rma, requests>>
OnlyTake == UNCHANGED <<stockTables, cycle, adj, rma, requests>>

(* cycle_count_create: a hand-picked set of lines, counted as they are entered. *)
CycleCreate(counts) ==
  /\ cycle.status = "NONE" /\ MayBegin
  /\ cycle' = [status |-> "DRAFT",
               lines |-> [l \in DOMAIN counts |-> [expected |-> 0, counted |-> counts[l]]]]
  /\ OnlyCycle

(* cycle_count_submit: the system quantity is taken now. *)
CycleSubmit ==
  /\ cycle.status = "DRAFT"
  /\ cycle' = [status |-> "SUBMITTED", lines |-> Refreshed(cycle.lines)]
  /\ OnlyCycle

CycleApprove ==
  /\ cycle.status = "SUBMITTED"
  /\ cycle' = [cycle EXCEPT !.status = "APPROVED"]
  /\ OnlyCycle

(* cycle_count_post when stock moved since: back for approval, refreshed. *)
CycleBounce ==
  /\ cycle.status = "APPROVED" /\ Stale(cycle.lines)
  /\ cycle' = [status |-> "SUBMITTED", lines |-> Refreshed(cycle.lines)]
  /\ OnlyCycle

(* Slip: the variance approved is posted, whatever moved since. *)
LoadCyclePostBlind(c) == cycle.status = "APPROVED" /\ ReadIn(c, "cycle", "cycle", cycle.lines)

(* cycle_count_post reads the count and finds it fresh. *)
LoadCyclePost(c) ==
  cycle.status = "APPROVED" /\ ~Stale(cycle.lines) /\ ReadIn(c, "cycle", "cycle", cycle.lines)

CyclePost(c) ==
  /\ req[c] # Idle /\ req[c].op = "cycle"
  /\ PostVariances(req[c].lines, <<"CYCLE_COUNT", "cycle">>)
  /\ cycle' = [cycle EXCEPT !.status = "POSTED"]
  /\ Answer(c)
  /\ UNCHANGED <<take, adj, rma>>

-----------------------------------------------------------------------------
(* stock_take_create. *)
TakeCreate ==
  /\ take.status = "NONE" /\ MayBegin
  /\ take' = [take EXCEPT !.status = "DRAFT"]
  /\ OnlyTake

(* generate_snapshot: a line for every product there is stock of, afresh. *)
TakeSnapshot ==
  /\ take.status \in {"DRAFT", "SNAPSHOTTED"}
  /\ take' = [status |-> "SNAPSHOTTED",
              lines |-> [l \in {p \in Products : onHand[p] > 0} \X {1} |->
                           [expected |-> onHand[l[1]], counted |-> Uncounted]]]
  /\ OnlyTake

(* stock_take_count: counts may still be entered while in review. *)
TakeCount(l, n) ==
  /\ take.status \in {"SNAPSHOTTED", "COUNTING", "REVIEW"}
  /\ l \in DOMAIN take.lines
  /\ take' = [status |-> IF take.status = "SNAPSHOTTED" THEN "COUNTING" ELSE take.status,
              lines |-> [take.lines EXCEPT ![l].counted = n]]
  /\ OnlyTake

(* stock_take_add_line: stock found that the snapshot does not have. *)
TakeAddLine(p, n) ==
  /\ take.status \in {"SNAPSHOTTED", "COUNTING"}
  /\ <<p, 2>> \notin DOMAIN take.lines
  /\ take' = [take EXCEPT !.lines = [l \in DOMAIN take.lines \cup {<<p, 2>>} |->
                IF l = <<p, 2>> THEN [expected |-> 0, counted |-> n] ELSE take.lines[l]]]
  /\ OnlyTake

TakeSubmit ==
  /\ take.status \in {"SNAPSHOTTED", "COUNTING"}
  /\ take' = [take EXCEPT !.status = "REVIEW"]
  /\ OnlyTake

(* stock_take_approve: refreshed and kept in review when stock moved. *)
TakeApprove ==
  /\ take.status = "REVIEW"
  /\ take' = [status |-> IF Stale(take.lines) THEN "REVIEW" ELSE "APPROVED",
              lines |-> Refreshed(take.lines)]
  /\ OnlyTake

(* post_session when stock moved since: back to review, refreshed. *)
TakeBounce ==
  /\ take.status = "APPROVED" /\ Stale(take.lines)
  /\ take' = [status |-> "REVIEW", lines |-> Refreshed(take.lines)]
  /\ OnlyTake

LoadTakePost(c) ==
  take.status = "APPROVED" /\ ~Stale(take.lines) /\ ReadIn(c, "take", "take", take.lines)

(* post_session, its writes. *)
TakePost(c) ==
  /\ req[c] # Idle /\ req[c].op = "take"
  /\ PostVariances(req[c].lines, <<"STOCK_TAKE", "take">>)
  /\ take' = [take EXCEPT !.status = "POSTED"]
  /\ Answer(c)
  /\ UNCHANGED <<cycle, adj, rma>>

TakeCancel ==
  /\ take.status \notin {"NONE", "POSTED"}
  /\ take' = [take EXCEPT !.status = "CANCELLED"]
  /\ OnlyTake

-----------------------------------------------------------------------------
Magnitude(n) == IF n < 0 THEN -n ELSE n

(* adjustment_create that waits for approval, at or above the threshold. *)
AdjustRequest(a, p, d) ==
  /\ adj[a].status = "NONE" /\ MayBegin
  /\ Threshold > 0 /\ Magnitude(d) >= Threshold
  /\ adj' = [adj EXCEPT ![a] = [status |-> "PENDING", product |-> p, qty |-> d]]
  /\ UNCHANGED <<stockTables, cycle, take, rma, requests>>

(* adjustment_create below the threshold posts at once. *)
AdjustNow(a, p, d) ==
  /\ adj[a].status = "NONE" /\ MayBegin
  /\ ~(Threshold > 0 /\ Magnitude(d) >= Threshold)
  /\ onHand[p] + d >= 0
  /\ adj' = [adj EXCEPT ![a] = [status |-> "POSTED", product |-> p, qty |-> d]]
  /\ onHand' = [onHand EXCEPT ![p] = @ + d]
  /\ control' = control + d
  /\ refs' = refs \cup {<<"STOCK_ADJ", a>>}
  /\ UNCHANGED <<held, cycle, take, rma, requests>>

(* adjustment_approve and adjustment_reject read a PENDING adjustment. *)
LoadAdjust(c, a, op) == adj[a].status = "PENDING" /\ ReadIn(c, op, a, NoLines)

(* Slip: the movement is posted, the account is forgotten. *)
AdjustApproveUnbooked(c) ==
  LET a == req[c].doc
  IN  /\ req[c] # Idle /\ req[c].op = "approve"
      /\ onHand[adj[a].product] + adj[a].qty >= 0
      /\ onHand' = [onHand EXCEPT ![adj[a].product] = @ + adj[a].qty]
      /\ adj' = [adj EXCEPT ![a].status = "POSTED"]
      /\ Answer(c)
      /\ UNCHANGED <<held, control, refs, cycle, take, rma>>

(* _post_stock_adjustment: the movement and, once, the journal (a return to the
   supplier takes the same value off the account by a credit note). *)
AdjustApprove(c) ==
  LET a == req[c].doc
  IN  /\ req[c] # Idle /\ req[c].op = "approve"
      /\ onHand[adj[a].product] + adj[a].qty >= 0
      /\ onHand' = [onHand EXCEPT ![adj[a].product] = @ + adj[a].qty]
      /\ control' = control + BookedFor(<<"STOCK_ADJ", a>>, adj[a].qty)
      /\ refs' = refs \cup {<<"STOCK_ADJ", a>>}
      /\ adj' = [adj EXCEPT ![a].status = "POSTED"]
      /\ Answer(c)
      /\ UNCHANGED <<held, cycle, take, rma>>

AdjustReject(c) ==
  /\ req[c] # Idle /\ req[c].op = "reject"
  /\ adj' = [adj EXCEPT ![req[c].doc].status = "REJECTED"]
  /\ Answer(c)
  /\ UNCHANGED <<stockTables, cycle, take, rma>>

-----------------------------------------------------------------------------
(* return_create. *)
ReturnCreate(r, goods, disposition) ==
  /\ rma[r].status = "NONE" /\ MayBegin
  /\ rma' = [rma EXCEPT ![r] = [status |-> "DRAFT", goods |-> goods,
                                disposition |-> disposition, final |-> "NONE"]]
  /\ UNCHANGED <<stockTables, cycle, take, adj, requests>>

(* return_process, "approve". *)
ReturnApprove(r) ==
  /\ rma[r].status = "DRAFT"
  /\ rma' = [rma EXCEPT ![r].status = "APPROVED"]
  /\ UNCHANGED <<stockTables, cycle, take, adj, requests>>

(* Received without having been approved, too; never twice. *)
LoadReceive(c, r) == rma[r].status \in {"DRAFT", "APPROVED"} /\ ReadIn(c, "receive", r, NoLines)

With(f, goods, d) == [p \in Products |-> f[p] + IF p \in goods THEN d ELSE 0]

(* The loss a scrapped line books: the journal of the first of its products, for
   the reference is the line's and is used once. *)
ScrapLoss(ref, goods) == IF goods = {} THEN 0 ELSE BookedFor(ref, 1)

(* receive_return: into sellable stock, the hold location, or in and out again. *)
Receive(c) ==
  LET r == req[c].doc  m == rma[r]  n == Cardinality(m.goods)
  IN  /\ req[c] # Idle /\ req[c].op = "receive"
      /\ onHand' = IF m.disposition = "RESTOCK" THEN With(onHand, m.goods, 1) ELSE onHand
      /\ held' = IF m.disposition = "HOLD" THEN With(held, m.goods, 1) ELSE held
      /\ control' = control + BookedFor(<<"RMA_RETURN", r>>, n)
                      - IF m.disposition = "SCRAP" THEN ScrapLoss(<<"RMA_SCRAP", r>>, m.goods) ELSE 0
      /\ refs' = refs \cup {<<"RMA_RETURN", r>>} \cup
                 (IF m.disposition = "SCRAP" THEN {<<"RMA_SCRAP", r>>} ELSE {})
      /\ rma' = [rma EXCEPT ![r].status = "RECEIVED"]
      /\ Answer(c)
      /\ UNCHANGED <<cycle, take, adj>>

(* A held line of a received return, not resolved yet. *)
Awaits(r) ==
  rma[r].status = "RECEIVED" /\ rma[r].disposition = "HOLD" /\ rma[r].final = "NONE"

LoadResolve(c, r, op) == Awaits(r) /\ ReadIn(c, op, r, NoLines)

(* resolve_hold: released to sellable stock, or written off. *)
Resolve(c) ==
  LET r == req[c].doc  goods == rma[r].goods
  IN  /\ req[c] # Idle /\ req[c].op \in {"release", "scrap"}
      /\ \A p \in goods : held[p] > 0
      /\ held' = With(held, goods, -1)
      /\ rma' = [rma EXCEPT ![r].final = IF req[c].op = "release" THEN "RESTOCK" ELSE "SCRAP"]
      /\ IF req[c].op = "release"
           THEN onHand' = With(onHand, goods, 1) /\ UNCHANGED <<control, refs>>
           ELSE /\ control' = control - ScrapLoss(<<"RMA_HOLD_SCRAP", r>>, goods)
                /\ refs' = refs \cup {<<"RMA_HOLD_SCRAP", r>>}
                /\ UNCHANGED onHand
      /\ Answer(c)
      /\ UNCHANGED <<cycle, take, adj>>

(* A request fails and is rolled back. *)
Fail(c) ==
  /\ req[c] # Idle
  /\ Answer(c)
  /\ UNCHANGED <<stockTables, cycle, take, adj, rma>>

CountNext ==
  \/ \E L \in SUBSET CountLines \ {{}} : \E f \in [L -> 0 .. MaxStock] : CycleCreate(f)
  \/ CycleSubmit \/ CycleApprove \/ CycleBounce
  \/ TakeCreate \/ TakeSnapshot \/ TakeSubmit \/ TakeApprove \/ TakeBounce \/ TakeCancel
  \/ \E l \in CountLines, n \in 0 .. MaxStock : TakeCount(l, n)
  \/ \E p \in Products, n \in 0 .. MaxStock : TakeAddLine(p, n)
  \/ \E c \in Clients : LoadCyclePost(c) \/ CyclePost(c) \/ LoadTakePost(c) \/ TakePost(c)

AdjustNext ==
  \/ \E a \in Adjustments, p \in Products, d \in {-2, -1, 1, 2} : AdjustRequest(a, p, d) \/ AdjustNow(a, p, d)
  \/ \E c \in Clients :
       \/ \E a \in Adjustments, op \in {"approve", "reject"} : LoadAdjust(c, a, op)
       \/ AdjustApprove(c) \/ AdjustReject(c)

ReturnNext ==
  \/ \E r \in Returns, g \in Goods, d \in Dispositions : ReturnCreate(r, g, d)
  \/ \E r \in Returns : ReturnApprove(r)
  \/ \E c \in Clients :
       \/ \E r \in Returns : LoadReceive(c, r) \/ \E op \in {"release", "scrap"} : LoadResolve(c, r, op)
       \/ Receive(c) \/ Resolve(c)

NextCorrections ==
  \/ CountNext \/ AdjustNext \/ ReturnNext
  \/ \E p \in Products, d \in {-1, 1} : Move(p, d)
  \/ \E c \in Clients : Fail(c)

CorrectionsSpec == InitCorrections /\ [][NextCorrections]_correctionsVars

-----------------------------------------------------------------------------
(* Every variable keeps its type, and no balance turns negative, though a
   variance posted was computed before the stock it is taken from was locked. *)
TypeOK ==
  /\ onHand \in [Products -> Nat] /\ held \in [Products -> Nat]
  /\ control \in Int
  /\ refs \subseteq {<<"CYCLE_COUNT", "cycle">>, <<"STOCK_TAKE", "take">>}
                    \cup ({"STOCK_ADJ"} \X Adjustments)
                    \cup ({"RMA_RETURN", "RMA_SCRAP", "RMA_HOLD_SCRAP"} \X Returns)
  /\ IsCount(cycle, CycleStatuses) /\ IsCount(take, TakeStatuses)
  /\ adj \in [Adjustments -> StockAdjustment] /\ rma \in [Returns -> ReturnAuthorization]
  /\ \A c \in Clients : req[c] = Idle \/ req[c].op \in
       {"cycle", "take", "approve", "reject", "receive", "release", "scrap"}

(* What a scrapped line does not book: all but the first of its products. *)
Unbooked(r) ==
  IF /\ rma[r].status = "RECEIVED" /\ "SCRAP" \in {rma[r].disposition, rma[r].final}
     /\ rma[r].goods # {}
    THEN Cardinality(rma[r].goods) - 1
    ELSE 0

(* Unless a document is submitted twice at once, the inventory account is worth
   the stock at the location and on hold, and what scrapped kits did not book,
   whatever documents overlap: every count, adjustment, return and release books
   what it moves (post_cycle_count_adjustment, post_stock_take_adjustment,
   post_stock_adjustment, post_return_inventory, post_stock_adjustment_value).
   And what is on hold is what received returns still hold: every unit is
   released or written off once (resolve_hold). *)
BookMatchesStock ==
  calm =>
    /\ control = SumFunction(onHand) + SumFunction(held)
                  + SumFunction([r \in Returns |-> Unbooked(r)])
    /\ \A p \in Products : held[p] = Cardinality({r \in Returns : Awaits(r) /\ p \in rma[r].goods})

(* Posting a count leaves on hand what was counted, and what moved since the
   request found the count fresh; what was not counted stays as it is, however
   stock moved between snapshot, approval and posting (the staleness guards). *)
CountedIsOnHand ==
  [][\A c \in Clients :
       req[c] # Idle /\ req'[c] = Idle /\ req[c].op \in {"cycle", "take"} /\ onHand' # onHand =>
         \A p \in Products :
           LET l == <<p, 1>>  lines == req[c].lines
           IN  <<p, 2>> \notin DOMAIN lines =>
                 onHand'[p] = IF l \in DOMAIN lines /\ lines[l].counted # Uncounted
                                THEN lines[l].counted + onHand[p] - req[c].seen[p]
                                ELSE onHand[p]]_correctionsVars
=============================================================================
