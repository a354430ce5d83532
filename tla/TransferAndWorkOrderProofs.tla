---------------------- MODULE TransferAndWorkOrderProofs ----------------------
(***************************************************************************)
(* What holds of Transfers for every set of products, transfers,           *)
(* locations, quantities, unit costs and scale.                            *)
(*                                                                         *)
(* LinesWithinSent is not inductive alone: DocsOK adds what each status    *)
(* says of its lines, which bounds what a receipt or a cancellation takes  *)
(* (TakenCapped).  QuantitiesOK adds that no balance is negative and that  *)
(* every unit is accounted for.  For the books, StocksOK is the ledger     *)
(* against account 1000 and TransitsOK account 1010 against the lines in   *)
(* transit: every step moves both sides of each by amounts that agree up   *)
(* to the rounding, whatever the costing methods.                          *)
(*                                                                         *)
(* The last part is about WorkOrders, a specification of its own: what     *)
(* holds of one work order for every quantity, unit cost and rate, for     *)
(* every number of clients, movements and overlapping requests.            *)
(***************************************************************************)
EXTENDS Transfers, WorkOrders, ValuationProofs

LineFields == {"qty", "sent", "got", "cost"}
DocFields  == {"status", "from", "to", "lines"}

(* What the status of a transfer says of its lines: LinesWithinSent, line by
   line. *)
LineOK(status, line) ==
  /\ DOMAIN line = LineFields
  /\ line.qty \in Nat
  /\ line.sent \in {0, line.qty}
  /\ line.got \in 0..line.sent
  /\ status \in {"NONE", "DRAFT"} => line.sent = 0
  /\ status \in {"RECEIVED", "CANCELLED"} => line.got = line.sent

DocOK(d) ==
  /\ DOMAIN d = DocFields
  /\ DOMAIN d.lines = Products
  /\ \A p \in Products : LineOK(d.status, d.lines[p])

DocsOK == DOMAIN doc = Transfers /\ \A t \in Transfers : DocOK(doc[t])

-----------------------------------------------------------------------------
(* A receipt takes at least nothing and at most what is in transit. *)
LEMMA TakenCapped ==
  ASSUME NEW d, DocOK(d), NEW asked \in [Products -> Asked] \cup {All},
         NEW p \in Products
  PROVE  Taken(d, asked)[p] \in 0..InTransit(d.lines[p])
<1>1. InTransit(d.lines[p]) \in Nat BY DEF DocOK, LineOK, InTransit
<1>2. asked # All => asked[p] \in Int BY InputAssumption
<1> DEFINE most == InTransit(d.lines[p])
<1>3. Taken(d, asked)[p] = IF asked = All THEN most
        ELSE IF asked[p] < 0 THEN 0
        ELSE IF asked[p] > most THEN most ELSE asked[p]
  BY DEF Taken
<1> HIDE DEF most
<1>4. QED BY <1>1, <1>2, <1>3 DEF most

(* A step that leaves every other transfer alone and t in order keeps all of
   them in order. *)
LEMMA OneDoc ==
  ASSUME DocsOK, NEW t \in Transfers, NEW d, DocOK(d),
         doc' = [doc EXCEPT ![t] = d]
  PROVE  DocsOK'
BY DEF DocsOK, DocOK, LineOK

(* No transfer has lines in disorder to begin with. *)
LEMMA InitDocsOK == Init => DocsOK
<1> SUFFICES ASSUME Init PROVE DocsOK OBVIOUS
<1>1. LineOK("NONE", ZeroLine) BY DEF LineOK, ZeroLine, LineFields
<1> DEFINE lines == [p \in Products |-> ZeroLine]
           none  == [status |-> "NONE", from |-> NoLocation, to |-> NoLocation, lines |-> lines]
<1>2. doc = [t \in Transfers |-> none] BY DEF Init
<1>3. DOMAIN lines = Products /\ \A p \in Products : lines[p] = ZeroLine OBVIOUS
<1> HIDE DEF lines
<1>4. DOMAIN none = DocFields /\ none.status = "NONE" /\ none.lines = lines BY DEF DocFields
<1> HIDE DEF none
<1>5. DocOK(none) BY <1>1, <1>3, <1>4 DEF DocOK
<1>6. QED BY <1>2, <1>5 DEF DocsOK

(* A new transfer, drafted or posted at once. *)
LEMMA NewDoc ==
  ASSUME NEW status \in {"DRAFT", "POSTED"}, NEW from, NEW to,
         NEW want \in [Products -> Quantities \cup {0}]
  PROVE  DocOK([status |-> status, from |-> from, to |-> to,
                lines |-> [p \in Products |-> [ZeroLine EXCEPT !.qty = want[p]]]])
<1>1. \A p \in Products : want[p] \in Nat
  <2> TAKE p \in Products
  <2>1. want[p] = 0 \/ want[p] \in Quantities OBVIOUS
  <2>2. \A q \in Quantities : q \in Nat BY InputAssumption
  <2>3. QED BY <2>1, <2>2
<1>2. \A p \in Products :
        LineOK(status, [ZeroLine EXCEPT !.qty = want[p]])
  BY <1>1 DEF LineOK, ZeroLine, LineFields
<1>3. QED BY <1>2 DEF DocOK, DocFields

(* Every step keeps every transfer in order. *)
LEMMA NextDocsOK == DocsOK /\ [Next]_vars => DocsOK'
<1> SUFFICES ASSUME DocsOK, [Next]_vars PROVE DocsOK' OBVIOUS
<1>1. ASSUME UNCHANGED doc PROVE DocsOK'
  BY <1>1 DEF DocsOK, DocOK, LineOK
<1>2. ASSUME NEW t \in Transfers, NEW from, NEW to,
             NEW want \in [Products -> Quantities \cup {0}],
             Create(t, from, to, want) \/ CreatePosted(t, from, to, want)
      PROVE  DocsOK'
  <2>1. CASE Create(t, from, to, want)
    BY <2>1, NewDoc, OneDoc DEF Create
  <2>2. CASE CreatePosted(t, from, to, want)
    BY <2>2, NewDoc, OneDoc DEF CreatePosted
  <2>3. QED BY <1>2, <2>1, <2>2
<1>3. ASSUME NEW t \in Transfers, Post(t) \/ CancelDraft(t) PROVE DocsOK'
  <2>1. DocOK(doc[t]) BY DEF DocsOK
  <2>2. ASSUME NEW status, status \in {"POSTED", "CANCELLED"},
               status = "CANCELLED" => doc[t].status = "DRAFT"
        PROVE  DocOK([doc[t] EXCEPT !.status = status])
    <3>1. \A p \in Products : LineOK(status, doc[t].lines[p])
      BY <2>1, <2>2 DEF DocOK, LineOK
    <3>2. QED BY <2>1, <3>1 DEF DocOK, DocFields
  <2>3. CASE Post(t)
    BY <2>2, <2>3, OneDoc DEF Post
  <2>4. CASE CancelDraft(t)
    BY <2>2, <2>4, OneDoc DEF CancelDraft
  <2>5. QED BY <1>3, <2>3, <2>4
<1>4. ASSUME NEW t \in Transfers, Dispatch(t) PROVE DocsOK'
  <2> DEFINE d == doc[t]
             new == [d EXCEPT !.status = "DISPATCHED",
                              !.lines = [p \in Products |-> SentLine(d, p)]]
  <2>1. DocOK(d) /\ d.status = "DRAFT" BY <1>4 DEF DocsOK, Dispatch
  <2>2. \A p \in Products : LineOK("DISPATCHED", SentLine(d, p))
    <3> SUFFICES ASSUME NEW p \in Products PROVE LineOK("DISPATCHED", SentLine(d, p))
      OBVIOUS
    <3>1. LineOK("DRAFT", d.lines[p]) BY <2>1 DEF DocOK
    <3> DEFINE unit == Leaving(d, p).unit
               line == d.lines[p]
    <3>2. SentLine(d, p) = IF line.qty = 0 THEN line
                           ELSE [line EXCEPT !.sent = line.qty, !.cost = unit]
      BY DEF SentLine
    <3> HIDE DEF unit, line
    <3>3. QED BY <3>1, <3>2 DEF LineOK, LineFields, line
  <2>3. DOMAIN new = DocFields /\ new.status = "DISPATCHED"
        /\ new.lines = [p \in Products |-> SentLine(d, p)]
    BY <2>1 DEF DocOK, DocFields
  <2>4. doc' = [doc EXCEPT ![t] = new] BY <1>4 DEF Dispatch
  <2> HIDE DEF new
  <2>5. DocOK(new) BY <2>2, <2>3 DEF DocOK
  <2>6. QED BY <2>4, <2>5, OneDoc
<1>5. ASSUME NEW t \in Transfers, NEW asked \in [Products -> Asked] \cup {All},
             NEW closeShort \in BOOLEAN, Receive(t, asked, closeShort)
      PROVE  DocsOK'
  <2> DEFINE d == doc[t]
             take == Taken(d, asked)
             rest(p) == InTransit(d.lines[p]) - take[p]
             lost(p) == IF closeShort THEN rest(p) ELSE 0
             done == \A p \in Products : rest(p) = lost(p)
             status == IF done THEN "RECEIVED" ELSE d.status
             line(p) == [d.lines[p] EXCEPT !.got = @ + take[p] + lost(p)]
             new == [d EXCEPT !.status = status, !.lines = [p \in Products |-> line(p)]]
  <2>1. DocOK(d) /\ d.status = "DISPATCHED" BY <1>5 DEF DocsOK, Receive
  <2>2. doc' = [doc EXCEPT ![t] = new] BY <1>5 DEF Receive
  <2>3. ASSUME NEW p \in Products PROVE LineOK(status, line(p))
    <3>1. LineOK("DISPATCHED", d.lines[p]) BY <2>1 DEF DocOK
    <3>2. take[p] \in 0..InTransit(d.lines[p]) BY <2>1, TakenCapped
    <3>3. DOMAIN line(p) = LineFields /\ line(p).qty = d.lines[p].qty
          /\ line(p).sent = d.lines[p].sent
          /\ line(p).got = d.lines[p].got + take[p] + lost(p)
      BY <3>1 DEF LineOK, LineFields
    <3>4. done => rest(p) = lost(p) OBVIOUS
    <3>5. status = "DISPATCHED" \/ (done /\ status = "RECEIVED") BY <2>1
    <3>6. lost(p) = 0 \/ lost(p) = rest(p) OBVIOUS
    <3> DEFINE s == d.lines[p].sent  g == d.lines[p].got  k == take[p]
    <3>7. s \in Nat /\ g \in 0..s /\ k \in 0..(s - g) /\ rest(p) = s - g - k
      BY <3>1, <3>2 DEF LineOK, InTransit
    <3> HIDE DEF line, lost, rest, done, status, take, d
    <3>8. line(p).got \in 0..s BY <3>3, <3>6, <3>7
    <3>9. done => line(p).got = s BY <3>3, <3>4, <3>7
    <3>10. QED BY <3>1, <3>3, <3>5, <3>8, <3>9 DEF LineOK
  <2>4. DOMAIN new = DocFields /\ new.status = status
        /\ new.lines = [p \in Products |-> line(p)]
    BY <2>1 DEF DocOK, DocFields
  <2> HIDE DEF new, line, status
  <2>5. DocOK(new) BY <2>3, <2>4 DEF DocOK
  <2>6. QED BY <2>2, <2>5, OneDoc
<1>6. ASSUME NEW t \in Transfers, CancelDispatched(t) PROVE DocsOK'
  <2> DEFINE d == doc[t]
             back == Taken(d, All)
             line(p) == [d.lines[p] EXCEPT !.got = @ + back[p]]
             new == [d EXCEPT !.status = "CANCELLED", !.lines = [p \in Products |-> line(p)]]
  <2>1. DocOK(d) /\ d.status = "DISPATCHED" BY <1>6 DEF DocsOK, CancelDispatched
  <2>2. doc' = [doc EXCEPT ![t] = new] BY <1>6 DEF CancelDispatched
  <2>3. ASSUME NEW p \in Products PROVE LineOK("CANCELLED", line(p))
    <3>1. LineOK("DISPATCHED", d.lines[p]) BY <2>1 DEF DocOK
    <3>2. back[p] = d.lines[p].sent - d.lines[p].got BY DEF Taken, InTransit
    <3>3. DOMAIN line(p) = LineFields /\ line(p).qty = d.lines[p].qty
          /\ line(p).sent = d.lines[p].sent /\ line(p).got = d.lines[p].got + back[p]
      BY <3>1 DEF LineOK, LineFields
    <3> HIDE DEF line, back, d
    <3>4. QED BY <3>1, <3>2, <3>3 DEF LineOK
  <2>4. DOMAIN new = DocFields /\ new.status = "CANCELLED"
        /\ new.lines = [p \in Products |-> line(p)]
    BY <2>1 DEF DocOK, DocFields
  <2> HIDE DEF new, line
  <2>5. DocOK(new) BY <2>3, <2>4 DEF DocOK
  <2>6. QED BY <2>2, <2>5, OneDoc
<1>7. QED
  <2>1. (\E p \in Products, loc \in Locations, qty \in Quantities, cost \in UnitCosts :
            GoodsIn(p, loc, qty, cost)) => UNCHANGED doc
    BY DEF GoodsIn
  <2>2. (\E p \in Products, loc \in Locations, qty \in Quantities :
            AdjustStock(p, loc, qty) \/ AdjustStock(p, loc, -qty)) => UNCHANGED doc
    BY DEF AdjustStock
  <2>3. UNCHANGED vars => UNCHANGED doc BY DEF vars
  <2>4. QED BY <1>1, <1>2, <1>3, <1>4, <1>5, <1>6, <2>1, <2>2, <2>3 DEF Next

(* DocsOK holds in every state. *)
LEMMA DocsInvariance == Spec => []DocsOK
<1>1. QED BY InitDocsOK, NextDocsOK, PTL DEF Spec

(* A line never receives more than it sent, over any number of partial receipts
   of any quantities, and is settled when its transfer is over. *)
THEOREM ReceiptsNeverExceedDispatch == Spec => []LinesWithinSent
<1>1. DocsOK => LinesWithinSent BY DEF DocsOK, DocOK, LineOK, LinesWithinSent
<1>2. QED BY DocsInvariance, <1>1, PTL
-----------------------------------------------------------------------------
(* The quantity side, whatever the costing method.  Routed: goods only move
   between locations.  Held: the balances of a product are quantities, none below
   zero, since the tenant is strict.  Counted: the units brought in are the units
   on hand, lost and on their way. *)
GhostFields == {"brought", "lost", "posts", "adjusts", "receipts"}

Routed(d) == d.status # "NONE" => d.from \in Locations /\ d.to \in Locations

Held(st) == Balanced(st) /\ \A l \in Locations : st.onhand[l] >= 0

OnTheWay(p) == [t \in Transfers |-> InTransit(doc[t].lines[p])]

Counted(p) ==
  ghost.brought[p] = TotalOnHand(stock[p]) + ghost.lost[p] + SumFunction(OnTheWay(p))

QuantitiesOK ==
  /\ DocsOK
  /\ DOMAIN stock = Products /\ \A p \in Products : Held(stock[p])
  /\ DOMAIN ghost = GhostFields
  /\ ghost.brought \in [Products -> Int] /\ ghost.lost \in [Products -> Int]
  /\ \A t \in Transfers : Routed(doc[t])
  /\ \A p \in Products : Counted(p)

(* Goods arriving at a location add to what it holds, at any cost ... *)
LEMMA InboundHeld ==
  ASSUME NEW st, Held(st), NEW loc \in Locations, NEW qty \in Nat, NEW cost
  PROVE  LET new == Inbound(st, loc, NoLot, NoBin, qty, cost).stock
         IN  Held(new) /\ TotalOnHand(new) = TotalOnHand(st) + qty
<1> DEFINE new == Inbound(st, loc, NoLot, NoBin, qty, cost).stock
<1>1. Balanced(st) BY DEF Held
<1>2. SameBalances(new, Rebalance(st, loc, NoLot, NoBin, qty)) BY <1>1, InboundBalances
<1> HIDE DEF new
<1>3. /\ Balanced(new)
      /\ \A l \in Locations : new.onhand[l] =
           IF l = loc THEN st.onhand[l] + qty ELSE st.onhand[l]
      /\ TotalOnHand(new) = TotalOnHand(st) + qty
  BY <1>1, <1>2, RebalanceTotal
<1>4. \A l \in Locations : st.onhand[l] \in Int /\ st.onhand[l] >= 0
  BY <1>1 DEF Held, Balanced
<1>5. \A l \in Locations : new.onhand[l] >= 0 BY <1>3, <1>4
<1>6. QED BY <1>3, <1>5 DEF Held, new

(* ... and goods leaving take from it, no more than it holds. *)
LEMMA OutboundHeld ==
  ASSUME NEW st, Held(st), NEW loc \in Locations, NEW qty \in Nat, st.onhand[loc] >= qty
  PROVE  LET new == Outbound(st, loc, NoLot, NoBin, qty).stock
         IN  Held(new) /\ TotalOnHand(new) = TotalOnHand(st) - qty
<1> DEFINE new == Outbound(st, loc, NoLot, NoBin, qty).stock
           delta == -qty
<1>1. Balanced(st) BY DEF Held
<1>2. SameBalances(new, Rebalance(st, loc, NoLot, NoBin, delta)) BY <1>1, OutboundBalances
<1>3. delta \in Int /\ TotalOnHand(st) + delta = TotalOnHand(st) - qty
  BY <1>1, TotalTyped
<1>4. \A l \in Locations : st.onhand[l] \in Int /\ st.onhand[l] >= 0
  BY <1>1 DEF Held, Balanced
<1>5. st.onhand[loc] + delta >= 0 BY <1>4
<1> HIDE DEF new, delta
<1>6. /\ Balanced(new)
      /\ \A l \in Locations : new.onhand[l] =
           IF l = loc THEN st.onhand[l] + delta ELSE st.onhand[l]
      /\ TotalOnHand(new) = TotalOnHand(st) + delta
  BY <1>1, <1>2, <1>3, RebalanceTotal
<1>7. \A l \in Locations : new.onhand[l] >= 0 BY <1>4, <1>5, <1>6
<1>8. QED BY <1>3, <1>6, <1>7 DEF Held, new

(* A strict tenant has what it lets go. *)
LEMMA EnoughToLeave ==
  ASSUME NEW st, Held(st), NEW loc \in Locations, NEW qty \in Nat \ {0},
         Accepts(st, loc, NoLot, NoBin, -qty)
  PROVE  st.onhand[loc] >= qty
<1>1. st.onhand[loc] \in Int BY DEF Held, Balanced
<1>2. st.onhand[loc] + (-qty) >= 0 /\ -qty < 0
  BY StrictAssumption DEF Accepts, BalancesAllow
<1>3. QED BY <1>1, <1>2

(* A line of a dispatched transfer leaves its source ... *)
LEMMA LeavingHeld ==
  ASSUME NEW d, Routed(d), d.status # "NONE", CanLeave(d), NEW p \in Products,
         Held(stock[p]), d.lines[p].qty \in Nat \ {0}
  PROVE  LET new == Leaving(d, p).stock
         IN  Held(new) /\ TotalOnHand(new) = TotalOnHand(stock[p]) - d.lines[p].qty
<1>1. d.lines[p].qty > 0 /\ d.from \in Locations BY DEF Routed
<1>2. Accepts(stock[p], d.from, NoLot, NoBin, -d.lines[p].qty) BY <1>1 DEF CanLeave
<1>3. stock[p].onhand[d.from] >= d.lines[p].qty BY <1>1, <1>2, EnoughToLeave
<1>4. QED BY <1>1, <1>3, OutboundHeld DEF Leaving

(* ... and a line of a one-step one is on hand again, somewhere else. *)
LEMMA MovedHeld ==
  ASSUME NEW d, Routed(d), d.status # "NONE", CanLeave(d), NEW p \in Products,
         Held(stock[p]), d.lines[p].qty \in Nat
  PROVE  Held(Moved(d, p)) /\ TotalOnHand(Moved(d, p)) = TotalOnHand(stock[p])
<1> DEFINE qty == d.lines[p].qty
           out == Leaving(d, p)
           in  == Inbound(out.stock, d.to, NoLot, NoBin, qty, out.unit)
<1>1. Moved(d, p) = IF qty = 0 THEN stock[p] ELSE in.stock BY DEF Moved
<1>2. CASE qty = 0
  BY <1>1, <1>2
<1>3. CASE qty # 0
  <2>1. Held(out.stock) /\ TotalOnHand(out.stock) = TotalOnHand(stock[p]) - qty
    BY <1>3, LeavingHeld
  <2>2. d.to \in Locations BY DEF Routed
  <2>3. Held(in.stock) /\ TotalOnHand(in.stock) = TotalOnHand(out.stock) + qty
    BY <2>1, <2>2, InboundHeld
  <2>4. TotalOnHand(stock[p]) \in Int BY TotalTyped DEF Held
  <2> HIDE DEF in, out, qty
  <2>5. qty \in Int BY DEF qty
  <2>6. QED BY <1>1, <1>3, <2>1, <2>3, <2>4, <2>5
<1>4. QED BY <1>2, <1>3

(* Goods of a transfer arriving add what is taken. *)
LEMMA ArrivedHeld ==
  ASSUME NEW p \in Products, NEW t \in Transfers, NEW loc \in Locations, NEW take,
         take[p] \in Nat, Held(stock[p])
  PROVE  LET new == IF take[p] = 0 THEN stock[p] ELSE Arriving(t, loc, take, p).stock
         IN  Held(new) /\ TotalOnHand(new) = TotalOnHand(stock[p]) + take[p]
<1>1. TotalOnHand(stock[p]) \in Int BY TotalTyped DEF Held
<1>2. QED BY <1>1, InboundHeld DEF Arriving

(* A step that touches one transfer keeps the count, when what its lines gain in
   transit is what the stock, the losses and the arrivals do not account for. *)
LEMMA StillCounted ==
  ASSUME QuantitiesOK, DocsOK', NEW t \in Transfers, NEW d, doc' = [doc EXCEPT ![t] = d],
         DOMAIN ghost' = GhostFields,
         ghost'.brought \in [Products -> Int], ghost'.lost \in [Products -> Int],
         DOMAIN stock' = Products, Routed(d),
         \A p \in Products :
            /\ Held(stock'[p])
            /\ TotalOnHand(stock'[p]) + ghost'.lost[p] + InTransit(d.lines[p]) - ghost'.brought[p]
                 = TotalOnHand(stock[p]) + ghost.lost[p] + InTransit(doc[t].lines[p])
                     - ghost.brought[p]
  PROVE  QuantitiesOK'
<1>1. doc'[t] = d /\ \A u \in Transfers \ {t} : doc'[u] = doc[u]
  BY DEF QuantitiesOK, DocsOK
<1>2. \A u \in Transfers, p \in Products :
         InTransit(doc[u].lines[p]) \in Int /\ InTransit(doc'[u].lines[p]) \in Int
  BY DEF QuantitiesOK, DocsOK, DocOK, LineOK, InTransit
<1>3. ASSUME NEW p \in Products PROVE Counted(p)'
  <2> DEFINE f == OnTheWay(p)
             h == [u \in Transfers |-> InTransit(doc'[u].lines[p])]
  <2>1. f \in [Transfers -> Int] /\ h \in [Transfers -> Int] BY <1>2 DEF OnTheWay
  <2>2. \A u \in Transfers \ {t} : h[u] = f[u] BY <1>1 DEF OnTheWay
  <2>3. h[t] = InTransit(d.lines[p]) /\ f[t] = InTransit(doc[t].lines[p])
    BY <1>1 DEF OnTheWay
  <2> HIDE DEF f, h
  <2>4. SumFunction(h) = SumFunction(f) + h[t] - f[t]
    BY <2>1, <2>2, SumUpdate, TransferAssumption
  <2>5. SumFunction(f) \in Int BY <2>1, SumInteger, TransferAssumption
  <2>6. ghost.brought[p] = TotalOnHand(stock[p]) + ghost.lost[p] + SumFunction(f)
    BY DEF QuantitiesOK, Counted, f
  <2>7. TotalOnHand(stock[p]) \in Int /\ TotalOnHand(stock'[p]) \in Int
    BY TotalTyped DEF QuantitiesOK, Held
  <2>8. /\ ghost.brought[p] \in Int /\ ghost.lost[p] \in Int
        /\ ghost'.brought[p] \in Int /\ ghost'.lost[p] \in Int
    BY DEF QuantitiesOK
  <2>9. h[t] \in Int /\ f[t] \in Int BY <2>1
  <2>10. TotalOnHand(stock'[p]) + ghost'.lost[p] + h[t] - ghost'.brought[p]
           = TotalOnHand(stock[p]) + ghost.lost[p] + f[t] - ghost.brought[p]
    BY <2>3
  <2>11. ghost'.brought[p] = TotalOnHand(stock'[p]) + ghost'.lost[p] + SumFunction(h)
    BY <2>4, <2>5, <2>6, <2>7, <2>8, <2>9, <2>10
  <2>12. OnTheWay(p)' = h BY DEF OnTheWay, h
  <2>13. QED BY <2>11, <2>12 DEF Counted, TotalOnHand
<1>4. \A u \in Transfers : Routed(doc'[u]) BY <1>1 DEF QuantitiesOK
<1>5. QED BY <1>3, <1>4 DEF QuantitiesOK, Held, Balanced, Routed
(* The same of a step that touches no transfer. *)
LEMMA CountedOutside ==
  ASSUME QuantitiesOK, UNCHANGED doc, DOMAIN ghost' = GhostFields,
         ghost'.brought \in [Products -> Int], ghost'.lost \in [Products -> Int],
         DOMAIN stock' = Products,
         \A p \in Products :
            /\ Held(stock'[p])
            /\ TotalOnHand(stock'[p]) + ghost'.lost[p] - ghost'.brought[p]
                 = TotalOnHand(stock[p]) + ghost.lost[p] - ghost.brought[p]
  PROVE  QuantitiesOK'
<1>1. ASSUME NEW p \in Products PROVE Counted(p)'
  <2> DEFINE f == OnTheWay(p)
  <2>1. OnTheWay(p)' = f BY DEF OnTheWay
  <2>2. f \in [Transfers -> Int]
    BY DEF OnTheWay, QuantitiesOK, DocsOK, DocOK, LineOK, InTransit
  <2> HIDE DEF f
  <2>3. SumFunction(f) \in Int BY <2>2, SumInteger, TransferAssumption
  <2>4. ghost.brought[p] = TotalOnHand(stock[p]) + ghost.lost[p] + SumFunction(f)
    BY DEF QuantitiesOK, Counted, f
  <2>5. TotalOnHand(stock[p]) \in Int /\ TotalOnHand(stock'[p]) \in Int
    BY TotalTyped DEF QuantitiesOK, Held
  <2>6. /\ ghost.brought[p] \in Int /\ ghost.lost[p] \in Int
        /\ ghost'.brought[p] \in Int /\ ghost'.lost[p] \in Int
    BY DEF QuantitiesOK
  <2>7. TotalOnHand(stock'[p]) + ghost'.lost[p] - ghost'.brought[p]
          = TotalOnHand(stock[p]) + ghost.lost[p] - ghost.brought[p]
    OBVIOUS
  <2>8. ghost'.brought[p] = TotalOnHand(stock'[p]) + ghost'.lost[p] + SumFunction(f)
    BY <2>3, <2>4, <2>5, <2>6, <2>7
  <2>9. QED BY <2>1, <2>8 DEF Counted, TotalOnHand
<1>2. DocsOK' BY DEF QuantitiesOK, DocsOK, DocOK, LineOK
<1>3. QED BY <1>1, <1>2 DEF QuantitiesOK, Held, Balanced, Routed

(* Nothing is on hand, lost or on its way to begin with. *)
LEMMA InitQuantities == Init => QuantitiesOK
<1> SUFFICES ASSUME Init PROVE QuantitiesOK OBVIOUS
<1>1. DocsOK BY InitDocsOK
<1>2. stock = [p \in Products |-> NoStock(MethodOf[p], StandardOf[p])] BY DEF Init
<1>3. ASSUME NEW p \in Products
      PROVE  Held(stock[p]) /\ stock[p].onhand = [l \in Locations |-> 0]
  BY <1>2 DEF NoStock, Held, Balanced, Fields
<1>4. \A p \in Products : TotalOnHand(stock[p]) = 0
  BY <1>3, SumZero, LocationAssumption DEF TotalOnHand
<1>5. /\ ghost.brought = [p \in Products |-> 0] /\ ghost.lost = [p \in Products |-> 0]
      /\ DOMAIN ghost = GhostFields
  BY DEF Init, GhostFields
<1> DEFINE lines == [p \in Products |-> ZeroLine]
           none  == [status |-> "NONE", from |-> NoLocation, to |-> NoLocation, lines |-> lines]
<1>6. doc = [t \in Transfers |-> none] BY DEF Init
<1>7. none.status = "NONE" /\ none.lines = lines /\ \A p \in Products : lines[p] = ZeroLine
  OBVIOUS
<1> HIDE DEF lines, none
<1>8. \A t \in Transfers : doc[t].status = "NONE" /\ \A p \in Products : doc[t].lines[p] = ZeroLine
  BY <1>6, <1>7
<1>9. \A p \in Products : SumFunction(OnTheWay(p)) = 0
  <2> SUFFICES ASSUME NEW p \in Products PROVE SumFunction(OnTheWay(p)) = 0 OBVIOUS
  <2>1. OnTheWay(p) \in [Transfers -> Int] /\ \A t \in Transfers : OnTheWay(p)[t] = 0
    BY <1>8 DEF OnTheWay, InTransit, ZeroLine
  <2>2. QED BY <2>1, SumZero, TransferAssumption
<1>10. \A p \in Products : Counted(p) BY <1>4, <1>5, <1>9 DEF Counted
<1>11. QED BY <1>1, <1>2, <1>3, <1>5, <1>8, <1>10 DEF QuantitiesOK, Routed

(* No step loses or duplicates a unit: one step per operation. *)
LEMMA NextQuantities == QuantitiesOK /\ [Next]_vars => QuantitiesOK'
<1> SUFFICES ASSUME QuantitiesOK, [Next]_vars PROVE QuantitiesOK' OBVIOUS
<1>1. DocsOK /\ DocsOK' BY NextDocsOK DEF QuantitiesOK
<1>2. \A p \in Products :
        /\ Held(stock[p]) /\ TotalOnHand(stock[p]) \in Int
        /\ ghost.brought[p] \in Int /\ ghost.lost[p] \in Int
  BY TotalTyped DEF QuantitiesOK, Held
<1>3. /\ DOMAIN stock = Products /\ DOMAIN ghost = GhostFields
      /\ ghost.brought \in [Products -> Int] /\ ghost.lost \in [Products -> Int]
      /\ \A t \in Transfers : Routed(doc[t])
  BY DEF QuantitiesOK
<1>4. ASSUME NEW p \in Products, NEW st, NEW delta \in Int,
             Held(st), TotalOnHand(st) = TotalOnHand(stock[p]) + delta,
             stock' = [stock EXCEPT ![p] = st], UNCHANGED doc,
             DOMAIN ghost' = GhostFields, ghost'.lost = ghost.lost,
             ghost'.brought = [ghost.brought EXCEPT ![p] = ghost.brought[p] + delta]
      PROVE  QuantitiesOK'
  <2>1. ghost'.lost = ghost.lost /\ ghost'.brought = [ghost.brought EXCEPT ![p] = ghost.brought[p] + delta]
    BY <1>4
  <2>2. ghost'.brought \in [Products -> Int] BY <1>2, <1>3, <2>1
  <2>3. ASSUME NEW q \in Products
        PROVE  /\ Held(stock'[q])
               /\ TotalOnHand(stock'[q]) + ghost'.lost[q] - ghost'.brought[q]
                    = TotalOnHand(stock[q]) + ghost.lost[q] - ghost.brought[q]
    <3>1. CASE q = p
      <4>1. stock'[q] = st /\ ghost'.brought[q] = ghost.brought[q] + delta
        BY <1>3, <1>4, <2>1, <3>1
      <4>2. QED BY <1>2, <1>4, <2>1, <3>1, <4>1
    <3>2. CASE q # p
      <4>1. stock'[q] = stock[q] /\ ghost'.brought[q] = ghost.brought[q]
        BY <1>3, <1>4, <2>1, <3>2
      <4>2. QED BY <1>2, <2>1, <4>1
    <3>3. QED BY <3>1, <3>2
  <2>4. DOMAIN stock' = Products BY <1>3, <1>4
  <2>5. QED BY <1>3, <1>4, <2>1, <2>2, <2>3, <2>4, CountedOutside
<1>5. ASSUME NEW p \in Products, NEW loc \in Locations, NEW qty \in Quantities,
             NEW cost \in UnitCosts, GoodsIn(p, loc, qty, cost)
      PROVE  QuantitiesOK'
  <2> DEFINE new == Inbound(stock[p], loc, NoLot, NoBin, qty, cost).stock
  <2>1. qty \in Nat /\ qty \in Int BY InputAssumption
  <2>2. Held(new) /\ TotalOnHand(new) = TotalOnHand(stock[p]) + qty
    BY <1>2, <2>1, InboundHeld
  <2>3. stock' = [stock EXCEPT ![p] = new] /\ UNCHANGED doc
    BY <1>5 DEF GoodsIn
  <2>4. /\ DOMAIN ghost' = GhostFields /\ ghost'.lost = ghost.lost
        /\ ghost'.brought = [ghost.brought EXCEPT ![p] = ghost.brought[p] + qty]
    BY <1>3, <1>5 DEF GoodsIn, GhostFields
  <2> HIDE DEF new
  <2>5. QED BY <1>4, <2>1, <2>2, <2>3, <2>4
<1>6. ASSUME NEW p \in Products, NEW loc \in Locations, NEW qty \in Quantities,
             NEW delta, delta = qty \/ delta = -qty, AdjustStock(p, loc, delta)
      PROVE  QuantitiesOK'
  <2> DEFINE in  == Inbound(stock[p], loc, NoLot, NoBin, delta, NoCost)
             out == Outbound(stock[p], loc, NoLot, NoBin, -delta)
             new == IF delta > 0 THEN in.stock ELSE out.stock
  <2>1. qty \in Nat \ {0} /\ delta \in Int BY <1>6, InputAssumption
  <2>2. Held(new) /\ TotalOnHand(new) = TotalOnHand(stock[p]) + delta
    <3>1. CASE delta > 0
      <4>1. delta \in Nat BY <2>1, <3>1
      <4>2. Held(in.stock) /\ TotalOnHand(in.stock) = TotalOnHand(stock[p]) + delta
        BY <1>2, <4>1, InboundHeld
      <4>3. QED BY <3>1, <4>2
    <3>2. CASE ~(delta > 0)
      <4> DEFINE gone == -delta
      <4>1. gone \in Nat \ {0} /\ -gone = delta BY <1>6, <2>1, <3>2
      <4>2. Accepts(stock[p], loc, NoLot, NoBin, delta) BY <1>6 DEF AdjustStock
      <4> HIDE DEF gone
      <4>3. stock[p].onhand[loc] >= gone BY <1>2, <4>1, <4>2, EnoughToLeave
      <4>4. LET left == Outbound(stock[p], loc, NoLot, NoBin, gone).stock
            IN  Held(left) /\ TotalOnHand(left) = TotalOnHand(stock[p]) - gone
        BY <1>2, <4>1, <4>3, OutboundHeld
      <4>5. TotalOnHand(stock[p]) - gone = TotalOnHand(stock[p]) + delta BY <1>2, <2>1, <4>1
      <4>6. QED BY <3>2, <4>4, <4>5 DEF gone
    <3>3. QED BY <3>1, <3>2
  <2>3. stock' = [stock EXCEPT ![p] = new] /\ UNCHANGED doc
    <3>1. (IF delta > 0 THEN in ELSE out).stock = new OBVIOUS
    <3>2. QED BY <1>6, <3>1 DEF AdjustStock
  <2>4. /\ DOMAIN ghost' = GhostFields /\ ghost'.lost = ghost.lost
        /\ ghost'.brought = [ghost.brought EXCEPT ![p] = ghost.brought[p] + delta]
    BY <1>3, <1>6 DEF AdjustStock, GhostFields
  <2> HIDE DEF new
  <2>5. QED BY <1>4, <2>1, <2>2, <2>3, <2>4
<1>7. ASSUME NEW d, Routed(d), d.status # "NONE", CanLeave(d),
             \A p \in Products : d.lines[p].qty \in Nat,
             stock' = [p \in Products |-> Moved(d, p)]
      PROVE  /\ DOMAIN stock' = Products
             /\ \A p \in Products : Held(stock'[p]) /\ TotalOnHand(stock'[p]) = TotalOnHand(stock[p])
  BY <1>2, <1>7, MovedHeld
<1>8. ASSUME NEW t \in Transfers, NEW d, doc' = [doc EXCEPT ![t] = d], Routed(d),
             UNCHANGED ghost, DOMAIN stock' = Products,
             \A p \in Products :
                /\ Held(stock'[p]) /\ TotalOnHand(stock'[p]) = TotalOnHand(stock[p])
                /\ InTransit(d.lines[p]) = InTransit(doc[t].lines[p])
      PROVE  QuantitiesOK'
  BY <1>1, <1>3, <1>8, StillCounted
<1>9. ASSUME NEW t \in Transfers, NEW from \in Locations, NEW to \in Locations,
             NEW want \in [Products -> Quantities \cup {0}],
             Create(t, from, to, want) \/ CreatePosted(t, from, to, want)
      PROVE  QuantitiesOK'
  <2> DEFINE lines == [p \in Products |-> [ZeroLine EXCEPT !.qty = want[p]]]
             new(status) == [status |-> status, from |-> from, to |-> to, lines |-> lines]
  <2>1. doc[t].status = "NONE" /\ UNCHANGED ghost
    BY <1>9 DEF Create, CreatePosted
  <2>2. \A p \in Products : InTransit(doc[t].lines[p]) = 0
    BY <1>1, <2>1 DEF DocsOK, DocOK, LineOK, InTransit
  <2>3. \A p \in Products : lines[p].sent = 0 /\ lines[p].got = 0
    BY DEF ZeroLine
  <2>4. \A status \in {"DRAFT", "POSTED"} : DocOK(new(status)) BY NewDoc
  <2>5. \A status : /\ new(status).lines = lines /\ new(status).status = status
                    /\ Routed(new(status))
    BY DEF Routed
  <2> HIDE DEF lines, new
  <2>6. \A status : \A p \in Products : InTransit(new(status).lines[p]) = 0
    BY <2>3, <2>5 DEF InTransit
  <2>7. CASE Create(t, from, to, want)
    <3>1. doc' = [doc EXCEPT ![t] = new("DRAFT")] /\ stock' = stock
      BY <2>7 DEF Create, new, lines
    <3>2. \A p \in Products :
            InTransit(new("DRAFT").lines[p]) = InTransit(doc[t].lines[p])
      BY <2>2, <2>6
    <3>3. /\ DOMAIN stock' = Products
          /\ \A p \in Products : Held(stock'[p]) /\ TotalOnHand(stock'[p]) = TotalOnHand(stock[p])
      BY <1>2, <1>3, <3>1
    <3>4. Routed(new("DRAFT")) BY <2>5
    <3>5. QED BY <1>8, <2>1, <3>1, <3>2, <3>3, <3>4
  <2>8. CASE CreatePosted(t, from, to, want)
    <3> DEFINE d == new("POSTED")
    <3>1. doc' = [doc EXCEPT ![t] = d] /\ CanLeave(d)
          /\ stock' = [p \in Products |-> Moved(d, p)]
      BY <2>8 DEF CreatePosted, new, lines
    <3>2. \A p \in Products : d.lines[p].qty \in Nat BY <2>4 DEF DocOK, LineOK
    <3>3. Routed(d) /\ d.status # "NONE" BY <2>5
    <3>4. \A p \in Products : InTransit(d.lines[p]) = InTransit(doc[t].lines[p]) BY <2>2, <2>6
    <3> HIDE DEF d
    <3>5. QED BY <1>7, <1>8, <2>1, <3>1, <3>2, <3>3, <3>4
  <2>9. QED BY <1>9, <2>7, <2>8
<1>10. ASSUME NEW t \in Transfers, Post(t) \/ CancelDraft(t) PROVE QuantitiesOK'
  <2> DEFINE new(status) == [doc[t] EXCEPT !.status = status]
  <2>1. DocOK(doc[t]) /\ Routed(doc[t]) /\ UNCHANGED ghost /\ doc[t].status # "NONE"
    BY <1>1, <1>3, <1>10 DEF Post, CancelDraft, DocsOK
  <2>2. \A status : Routed(new(status)) /\ new(status).lines = doc[t].lines
    BY <2>1 DEF DocOK, DocFields, Routed
  <2> HIDE DEF new
  <2>3. CASE Post(t)
    <3>1. doc' = [doc EXCEPT ![t] = new("POSTED")] /\ CanLeave(doc[t])
          /\ stock' = [p \in Products |-> Moved(doc[t], p)]
      BY <2>3 DEF Post, new
    <3>2. \A p \in Products : doc[t].lines[p].qty \in Nat BY <2>1 DEF DocOK, LineOK
    <3>3. /\ DOMAIN stock' = Products
          /\ \A p \in Products : Held(stock'[p]) /\ TotalOnHand(stock'[p]) = TotalOnHand(stock[p])
      BY <1>7, <2>1, <3>1, <3>2
    <3>4. \A p \in Products :
            InTransit(new("POSTED").lines[p]) = InTransit(doc[t].lines[p])
      BY <2>2
    <3>5. QED BY <1>8, <2>1, <2>2, <3>1, <3>3, <3>4
  <2>4. CASE CancelDraft(t)
    <3>1. doc' = [doc EXCEPT ![t] = new("CANCELLED")] /\ stock' = stock
      BY <2>4 DEF CancelDraft, new
    <3>2. \A p \in Products :
            InTransit(new("CANCELLED").lines[p]) = InTransit(doc[t].lines[p])
      BY <2>2
    <3>3. QED BY <1>2, <1>3, <1>8, <2>1, <2>2, <3>1, <3>2
  <2>5. QED BY <1>10, <2>3, <2>4
<1>11. ASSUME NEW t \in Transfers, Dispatch(t) PROVE QuantitiesOK'
  <2> DEFINE d == doc[t]
             new == [d EXCEPT !.status = "DISPATCHED",
                              !.lines = [p \in Products |-> SentLine(d, p)]]
             posts == [p \in Products |-> IF d.lines[p].qty = 0 THEN ghost.posts[t][p]
                                          ELSE ghost.posts[t][p] + 1]
  <2>1. /\ DocOK(d) /\ Routed(d) /\ d.status = "DRAFT" /\ CanLeave(d)
        /\ doc' = [doc EXCEPT ![t] = new]
        /\ stock' = [p \in Products |-> IF d.lines[p].qty = 0 THEN stock[p]
                                        ELSE Leaving(d, p).stock]
        /\ ghost' = [ghost EXCEPT !.posts[t] = posts]
    BY <1>1, <1>3, <1>11 DEF DocsOK, Dispatch
  <2>2. /\ DOMAIN ghost' = GhostFields /\ ghost'.brought = ghost.brought
        /\ ghost'.lost = ghost.lost
    <3> HIDE DEF posts
    <3>1. QED BY <1>3, <2>1 DEF GhostFields
  <2>3. Routed(new) /\ new.lines = [p \in Products |-> SentLine(d, p)]
    BY <2>1 DEF Routed, DocOK, DocFields
  <2>4. ASSUME NEW p \in Products
        PROVE  /\ Held(stock'[p])
               /\ TotalOnHand(stock'[p]) = TotalOnHand(stock[p]) - d.lines[p].qty
               /\ InTransit(new.lines[p]) = d.lines[p].qty
               /\ InTransit(d.lines[p]) = 0 /\ d.lines[p].qty \in Nat
    <3> DEFINE line == d.lines[p]
    <3>1. LineOK("DRAFT", line) BY <2>1 DEF DocOK
    <3>2. line.qty \in Nat /\ line.sent = 0 /\ line.got = 0 BY <3>1 DEF LineOK
    <3>3. new.lines[p] = SentLine(d, p) BY <2>3
    <3>4. CASE line.qty = 0
      <4>1. stock'[p] = stock[p] /\ SentLine(d, p) = line BY <2>1, <3>4 DEF SentLine
      <4>2. QED BY <1>2, <3>2, <3>3, <3>4, <4>1 DEF InTransit
    <3>5. CASE line.qty # 0
      <4>1. Held(Leaving(d, p).stock)
            /\ TotalOnHand(Leaving(d, p).stock) = TotalOnHand(stock[p]) - line.qty
        BY <1>2, <2>1, <3>2, <3>5, LeavingHeld
      <4>2. stock'[p] = Leaving(d, p).stock BY <2>1, <3>5
      <4> DEFINE unit == Leaving(d, p).unit
      <4>3. SentLine(d, p) = [line EXCEPT !.sent = line.qty, !.cost = unit]
        BY <3>5 DEF SentLine
      <4> HIDE DEF unit, line
      <4>4. SentLine(d, p).sent = line.qty /\ SentLine(d, p).got = 0
        BY <3>1, <3>2, <4>3 DEF LineOK, LineFields
      <4>5. InTransit(SentLine(d, p)) = line.qty BY <3>2, <4>4 DEF InTransit
      <4>6. InTransit(line) = 0 BY <3>2 DEF InTransit
      <4>7. QED BY <3>2, <3>3, <4>1, <4>2, <4>5, <4>6 DEF line
    <3>6. QED BY <3>4, <3>5
  <2> HIDE DEF new
  <2>5. ASSUME NEW p \in Products
        PROVE  TotalOnHand(stock'[p]) + ghost'.lost[p] + InTransit(new.lines[p]) - ghost'.brought[p]
                 = TotalOnHand(stock[p]) + ghost.lost[p] + InTransit(doc[t].lines[p]) - ghost.brought[p]
    BY <1>2, <2>2, <2>4
  <2>6. DOMAIN stock' = Products BY <2>1
  <2>7. QED BY <1>1, <1>3, <2>1, <2>2, <2>3, <2>4, <2>5, <2>6, StillCounted
<1>12. ASSUME NEW t \in Transfers, NEW loc \in Locations,
              NEW take \in [Products -> Nat], NEW lost \in [Products -> Nat], NEW d,
              \A p \in Products :
                 /\ ghost'.lost[p] = ghost.lost[p] + lost[p]
                 /\ InTransit(doc[t].lines[p]) \in Int
                 /\ InTransit(d.lines[p]) = InTransit(doc[t].lines[p]) - take[p] - lost[p],
              doc' = [doc EXCEPT ![t] = d], Routed(d), Arrive(t, loc, take),
              DOMAIN ghost' = GhostFields, ghost'.brought = ghost.brought,
              ghost'.lost \in [Products -> Int]
       PROVE  QuantitiesOK'
  <2>1. stock' = [p \in Products |-> IF take[p] = 0 THEN stock[p]
                                     ELSE Arriving(t, loc, take, p).stock]
    BY <1>12 DEF Arrive
  <2>2. ASSUME NEW p \in Products
        PROVE  Held(stock'[p]) /\ TotalOnHand(stock'[p]) = TotalOnHand(stock[p]) + take[p]
    BY <1>2, <1>12, <2>1, ArrivedHeld
  <2>4. ASSUME NEW p \in Products
        PROVE  TotalOnHand(stock'[p]) + ghost'.lost[p] + InTransit(d.lines[p]) - ghost'.brought[p]
                 = TotalOnHand(stock[p]) + ghost.lost[p] + InTransit(doc[t].lines[p]) - ghost.brought[p]
    <3>1. ghost'.lost[p] = ghost.lost[p] + lost[p] BY <1>12
    <3>2. QED BY <1>2, <1>12, <2>2, <3>1
  <2>5. DOMAIN stock' = Products BY <2>1
  <2>6. QED BY <1>1, <1>3, <1>12, <2>2, <2>4, <2>5, StillCounted
<1>13. ASSUME NEW t \in Transfers, NEW asked \in [Products -> Asked] \cup {All},
              NEW closeShort \in BOOLEAN, Receive(t, asked, closeShort)
       PROVE  QuantitiesOK'
  <2> DEFINE d == doc[t]
             take == Taken(d, asked)
             rest(p) == InTransit(d.lines[p]) - take[p]
             lost(p) == IF closeShort THEN rest(p) ELSE 0
             lostOf == [p \in Products |-> lost(p)]
             done == \A p \in Products : rest(p) = lost(p)
             status == IF done THEN "RECEIVED" ELSE d.status
             line(p) == [d.lines[p] EXCEPT !.got = @ + take[p] + lost(p)]
             new == [d EXCEPT !.status = status, !.lines = [p \in Products |-> line(p)]]
             posts == [p \in Products |-> ghost.posts[t][p] + (IF take[p] > 0 THEN 1 ELSE 0)
                                            + (IF lost(p) > 0 THEN 1 ELSE 0)]
             allLost == [p \in Products |-> ghost.lost[p] + lost(p)]
  <2>1. /\ DocOK(d) /\ Routed(d) /\ d.status = "DISPATCHED"
        /\ doc' = [doc EXCEPT ![t] = new] /\ Arrive(t, d.to, take)
    BY <1>1, <1>3, <1>13 DEF DocsOK, Receive
  <2>2. ghost' = [ghost EXCEPT !.lost = allLost, !.posts[t] = posts]
    BY <1>13 DEF Receive
  <2>3. /\ DOMAIN ghost' = GhostFields /\ ghost'.brought = ghost.brought
        /\ ghost'.lost = allLost
    <3> HIDE DEF allLost, posts
    <3>1. QED BY <1>3, <2>2 DEF GhostFields
  <2>4. ghost'.lost \in [Products -> Int]
        /\ \A p \in Products : ghost'.lost[p] = ghost.lost[p] + lostOf[p]
    <3>1. \A p \in Products : lostOf[p] \in Int
      <4> TAKE p \in Products
      <4>1. InTransit(d.lines[p]) \in Int /\ take[p] \in Int
        BY <2>1, TakenCapped DEF DocOK, LineOK, InTransit
      <4> HIDE DEF take
      <4>2. QED BY <4>1
    <3> HIDE DEF lost, lostOf, take
    <3>2. QED BY <1>2, <2>3, <3>1 DEF lostOf
  <2>5. Routed(new) /\ new.lines = [p \in Products |-> line(p)] /\ d.to \in Locations
    BY <2>1 DEF Routed, DocOK, DocFields
  <2>6. ASSUME NEW p \in Products
        PROVE  /\ take[p] \in Nat /\ lostOf[p] \in Nat /\ InTransit(d.lines[p]) \in Int
               /\ InTransit(new.lines[p]) = InTransit(d.lines[p]) - take[p] - lostOf[p]
    <3>1. LineOK("DISPATCHED", d.lines[p]) BY <2>1 DEF DocOK
    <3>2. take[p] \in 0..InTransit(d.lines[p]) BY <2>1, TakenCapped
    <3>3. line(p).sent = d.lines[p].sent /\ line(p).got = d.lines[p].got + take[p] + lost(p)
      BY <3>1 DEF LineOK, LineFields
    <3>4. new.lines[p] = line(p) /\ lostOf[p] = lost(p) BY <2>5
    <3>5. lost(p) = 0 \/ lost(p) = InTransit(d.lines[p]) - take[p] OBVIOUS
    <3> DEFINE s == d.lines[p].sent  g == d.lines[p].got  k == take[p]
    <3>6. s \in Nat /\ g \in 0..s /\ k \in 0..(s - g) /\ InTransit(d.lines[p]) = s - g
      BY <3>1, <3>2 DEF LineOK, InTransit
    <3>7. InTransit(new.lines[p]) = s - (g + k + lost(p)) BY <3>3, <3>4 DEF InTransit
    <3> HIDE DEF line, lost, rest, new, lostOf, take, s, g, k
    <3>8. lost(p) = 0 \/ lost(p) = s - g - k BY <3>5, <3>6 DEF k
    <3>9. QED BY <3>4, <3>6, <3>7, <3>8 DEF k
  <2>7. take \in [Products -> Nat] /\ lostOf \in [Products -> Nat]
    <3>1. take = [p \in Products |-> take[p]] BY DEF Taken
    <3>2. lostOf = [p \in Products |-> lostOf[p]] OBVIOUS
    <3> HIDE DEF take, lostOf
    <3>3. QED BY <2>6, <3>1, <3>2
  <2>8. /\ doc' = [doc EXCEPT ![t] = new] /\ Arrive(t, d.to, take)
        /\ Routed(new) /\ d.to \in Locations
        /\ DOMAIN ghost' = GhostFields /\ ghost'.brought = ghost.brought
    BY <2>1, <2>3, <2>5
  <2> HIDE DEF new, lostOf, take
  <2>9. QED BY <1>12, <2>4, <2>6, <2>7, <2>8
<1>14. ASSUME NEW t \in Transfers, CancelDispatched(t) PROVE QuantitiesOK'
  <2> DEFINE d == doc[t]
             back == Taken(d, All)
             none == [p \in Products |-> 0]
             line(p) == [d.lines[p] EXCEPT !.got = @ + back[p]]
             new == [d EXCEPT !.status = "CANCELLED", !.lines = [p \in Products |-> line(p)]]
             posts == [p \in Products |-> IF back[p] > 0 THEN ghost.posts[t][p] + 1
                                          ELSE ghost.posts[t][p]]
  <2>1. /\ DocOK(d) /\ Routed(d) /\ d.status = "DISPATCHED"
        /\ doc' = [doc EXCEPT ![t] = new] /\ Arrive(t, d.from, back)
        /\ ghost' = [ghost EXCEPT !.posts[t] = posts]
    BY <1>1, <1>3, <1>14 DEF DocsOK, CancelDispatched
  <2>2. /\ DOMAIN ghost' = GhostFields /\ ghost'.brought = ghost.brought
        /\ ghost'.lost = ghost.lost
    <3> HIDE DEF posts
    <3>1. QED BY <1>3, <2>1 DEF GhostFields
  <2>3. /\ ghost'.lost \in [Products -> Int]
        /\ \A p \in Products : ghost'.lost[p] = ghost.lost[p] + none[p]
    BY <1>2, <1>3, <2>2
  <2>4. Routed(new) /\ new.lines = [p \in Products |-> line(p)] /\ d.from \in Locations
    BY <2>1 DEF Routed, DocOK, DocFields
  <2>5. ASSUME NEW p \in Products
        PROVE  /\ back[p] \in Nat /\ none[p] \in Nat /\ InTransit(d.lines[p]) \in Int
               /\ InTransit(new.lines[p]) = InTransit(d.lines[p]) - back[p] - none[p]
    <3>1. LineOK("DISPATCHED", d.lines[p]) BY <2>1 DEF DocOK
    <3>2. back[p] \in 0..InTransit(d.lines[p]) BY <2>1, TakenCapped
    <3>3. line(p).sent = d.lines[p].sent /\ line(p).got = d.lines[p].got + back[p]
      BY <3>1 DEF LineOK, LineFields
    <3>4. new.lines[p] = line(p) /\ none[p] = 0 BY <2>4
    <3> DEFINE s == d.lines[p].sent  g == d.lines[p].got  k == back[p]
    <3>5. s \in Nat /\ g \in 0..s /\ k \in 0..(s - g) /\ InTransit(d.lines[p]) = s - g
      BY <3>1, <3>2 DEF LineOK, InTransit
    <3>6. InTransit(new.lines[p]) = s - (g + k) BY <3>3, <3>4 DEF InTransit
    <3> HIDE DEF line, new, back, none, s, g, k
    <3>7. QED BY <3>4, <3>5, <3>6 DEF k
  <2>6. back \in [Products -> Nat] /\ none \in [Products -> Nat]
    <3>1. back = [p \in Products |-> back[p]] BY DEF Taken
    <3> HIDE DEF back
    <3>2. QED BY <2>5, <3>1
  <2>7. /\ doc' = [doc EXCEPT ![t] = new] /\ Arrive(t, d.from, back)
        /\ Routed(new) /\ d.from \in Locations
        /\ DOMAIN ghost' = GhostFields /\ ghost'.brought = ghost.brought
    BY <2>1, <2>2, <2>4
  <2> HIDE DEF new, back, none
  <2>8. QED BY <1>12, <2>3, <2>5, <2>6, <2>7
<1>15. CASE UNCHANGED vars
  BY <1>1, <1>2, <1>3, <1>15, CountedOutside DEF vars
<1>16. QED
  BY <1>5, <1>6, <1>9, <1>10, <1>11, <1>13, <1>14, <1>15 DEF Next

(* No unit is lost or duplicated by any mix of receipts, adjustments, one-step
   and two-step transfers, partial receipts, short closes and cancellations, of
   products of any costing method: what came in is on hand, in transit, or was
   written off in transit. *)
THEOREM NoUnitLostOrDuplicated == Spec => []StockConserved
<1>1. QuantitiesOK => StockConserved
  BY DEF QuantitiesOK, Counted, OnTheWay, StockConserved
<1>2. QED BY InitQuantities, NextQuantities, <1>1, PTL DEF Spec

-----------------------------------------------------------------------------
(* The value side.  A moving average divides by the total on hand, so that it stays an
   amount rests on the quantity side; the cost of a FIFO issue is what its layers cost
   (ConsumeDraws), so that it is an amount rests on what was paid for them. *)

(* A balance of 1010 within half the slack of q units at cost c. *)
Within(balance, q, c, slack) ==
  /\ 2 * (Scale * balance - q * c) <= slack
  /\ -2 * (Scale * balance - q * c) <= slack

(* The value of k units at cost c, to half the slack. *)
Worth(v, k, c, slack) ==
  /\ v \in Nat
  /\ 2 * (Scale * v - k * c) <= slack
  /\ 2 * (k * c - Scale * v) <= slack

(* Posting the value of k of the q units away adds half a cent of slack. *)
LEMMA PostingAway ==
  ASSUME NEW balance \in Int, NEW q \in Nat, NEW c \in Nat, NEW slack \in Int,
         Within(balance, q, c, slack), NEW k \in 0..q, NEW v, Worth(v, k, c, Scale)
  PROVE  Within(balance - v, q - k, c, slack + Scale)
<1>1. k \in Nat /\ v \in Nat BY DEF Worth
<1> DEFINE sb == Scale * balance  sv == Scale * v  qc == q * c  kc == k * c
<1>2. sb \in Int /\ sv \in Int /\ qc \in Int /\ kc \in Int
  BY <1>1, ScaleAssumption
<1>3. Scale * (balance - v) = sb - sv /\ (q - k) * c = qc - kc
  BY <1>1, ScaleAssumption
<1>4. 2 * (sb - qc) <= slack /\ -2 * (sb - qc) <= slack BY DEF Within
<1>5. 2 * (sv - kc) <= Scale /\ 2 * (kc - sv) <= Scale BY DEF Worth
<1>6. Scale \in Int BY ScaleAssumption
<1> HIDE DEF sb, sv, qc, kc
<1>7. /\ 2 * ((sb - sv) - (qc - kc)) <= slack + Scale
      /\ -2 * ((sb - sv) - (qc - kc)) <= slack + Scale
  BY <1>2, <1>4, <1>5, <1>6
<1>8. QED BY <1>3, <1>7 DEF Within

(* The first posting, at dispatch. *)
LEMMA PostingIn ==
  ASSUME NEW c \in Nat, NEW k \in Nat, NEW slack \in Int, NEW v, Worth(v, k, c, slack)
  PROVE  Within(v, k, c, slack)
<1> DEFINE sv == Scale * v  kc == k * c
<1>1. sv \in Int /\ kc \in Int BY ScaleAssumption DEF Worth
<1>2. 2 * (sv - kc) <= slack /\ 2 * (kc - sv) <= slack BY DEF Worth
<1> HIDE DEF sv, kc
<1>3. 2 * (sv - kc) <= slack /\ -2 * (sv - kc) <= slack BY <1>1, <1>2
<1>4. QED BY <1>3 DEF Within, sv, kc

(* Both roundings give the worth of k units at cost c. *)
LEMMA RoundedWorth ==
  ASSUME NEW k \in Nat, NEW c \in Nat
  PROVE  Worth(HalfUp(k * c, Scale), k, c, Scale) /\ Worth(HalfEven(k * c, Scale), k, c, Scale)
<1>1. k * c \in Nat OBVIOUS
<1>2. QED BY <1>1, HalfUpNear, HalfEvenNear, ScaleAssumption DEF Worth

(* A cost that is divided among k units and rounded, and rounded to the cent. *)
LEMMA SharedWorth ==
  ASSUME NEW k \in Nat \ {0}, NEW n \in Nat
  PROVE  HalfUp(n, k) \in Nat /\ Worth(HalfUp(n, Scale), k, HalfUp(n, k), Scale + k)
<1> DEFINE u == HalfUp(n, k)  v == HalfUp(n, Scale)  ku == k * u  sv == Scale * v
<1>1. u \in Nat /\ 2 * (ku - n) <= k /\ 2 * (n - ku) <= k BY HalfUpNear
<1>2. v \in Nat /\ 2 * (sv - n) <= Scale /\ 2 * (n - sv) <= Scale BY HalfUpNear, ScaleAssumption
<1> HIDE DEF u, v
<1>3. ku \in Int /\ sv \in Int /\ Scale \in Int BY <1>1, <1>2, ScaleAssumption
<1> HIDE DEF ku, sv
<1>4. 2 * (sv - ku) <= Scale + k /\ 2 * (ku - sv) <= Scale + k BY <1>1, <1>2, <1>3
<1>5. QED BY <1>1, <1>2, <1>4 DEF Worth, u, v, ku, sv

-----------------------------------------------------------------------------
(* The stock of p is p's, the average of a STANDARD product is its standard cost (or
   nothing, before a receipt), and its layers were paid for. *)
StockOK(p, st) ==
  /\ DOMAIN st = Fields
  /\ st.method = MethodOf[p] /\ st.std = StandardOf[p]
  /\ st.avg \in Nat /\ st.value \in Int
  /\ MethodOf[p] = "STANDARD" => st.avg \in {0, StandardOf[p]}
  /\ LayersTyped(st.layers) /\ OldestFirst(st.layers) /\ PaidLayers(st.layers)

(* The balance of 1000 is the subledger, to the slack. *)
Apart(balance, value, slack) ==
  /\ balance \in Int
  /\ 2 * (Scale * (balance - value)) <= slack
  /\ -2 * (Scale * (balance - value)) <= slack

StocksOK ==
  /\ DOMAIN stock = Products /\ DOMAIN inventory = Products
  /\ \A p \in Products : /\ StockOK(p, stock[p])
                         /\ Apart(inventory[p], stock[p].value, LedgerSlack(p))

(* The 1010 balance of a line, by the postings made for it. *)
LineSlack(p, line, posts) ==
  Scale * posts + (IF MethodOf[p] = "FIFO" THEN line.sent ELSE 0)

LineValued(p, status, line, balance, posts) ==
  /\ line.cost \in Nat /\ balance \in Int /\ posts \in Nat
  /\ MethodOf[p] = "STANDARD" /\ line.sent # 0 => line.cost = StandardOf[p]
  /\ status \in {"NONE", "DRAFT"} => balance = 0 /\ posts = 0
  /\ Within(balance, InTransit(line), line.cost, LineSlack(p, line, posts))

TransitsOK ==
  /\ DOMAIN transit = Transfers /\ DOMAIN ghost = GhostFields /\ DOMAIN ghost.posts = Transfers
  /\ \A t \in Transfers :
       /\ DOMAIN transit[t] = Products /\ DOMAIN ghost.posts[t] = Products
       /\ \A p \in Products :
            LineValued(p, doc[t].status, doc[t].lines[p], transit[t][p], ghost.posts[t][p])

(* What an inbound movement is worth, and that it keeps the costs amounts. *)
LEMMA InboundStockOK ==
  ASSUME NEW p \in Products, NEW st, StockOK(p, st), TotalOnHand(st) \in Nat,
         NEW loc \in Locations, NEW qty \in Nat \ {0}, NEW cost, cost \in Nat \/ cost = NoCost,
         NEW in, in = Inbound(st, loc, NoLot, NoBin, qty, cost)
  PROVE  /\ StockOK(p, in.stock) /\ in.value \in Nat
         /\ in.stock.value = st.value + in.value
         /\ (cost \in Nat /\ (MethodOf[p] = "STANDARD" => cost = StandardOf[p]))
              => in.value = HalfUp(qty * cost, Scale)
<1> DEFINE paid == IF cost = NoCost THEN st.avg ELSE cost
           layer == [loc |-> loc, lot |-> NoLot, got |-> qty, left |-> qty, cost |-> paid]
<1>1. DOMAIN st = Fields BY DEF StockOK
<1>2. /\ DOMAIN in.stock = Fields
      /\ in.stock.method = st.method /\ in.stock.std = st.std
      /\ in.stock.value = st.value + in.value
      /\ st.method = "STANDARD" =>
           in.stock.avg = st.std /\ in.value = HalfUp(qty * st.std, Scale)
      /\ st.method # "STANDARD" =>
           /\ in.stock.avg = IF cost = NoCost THEN st.avg ELSE MovingAverage(st, qty, cost)
           /\ in.value = HalfUp(qty * paid, Scale)
  BY <1>1, InboundCosting
<1>3. paid \in Nat /\ st.avg \in Nat BY DEF StockOK
<1>4. cost \in Nat => MovingAverage(st, qty, cost) \in Nat BY <1>3, AverageTyped
<1>5. st.method = MethodOf[p] /\ st.std = StandardOf[p] /\ StandardOf[p] \in Nat
  BY CostingAssumption DEF StockOK
<1>6. in.value \in Nat
  <2> HIDE DEF paid
  <2>1. HalfUp(qty * st.std, Scale) \in Nat BY <1>5, RoundedWorth DEF Worth
  <2>2. HalfUp(qty * paid, Scale) \in Nat BY <1>3, RoundedWorth DEF Worth
  <2>3. QED BY <1>2, <2>1, <2>2
<1>7. /\ st.method = "FIFO" => in.stock.layers = Append(st.layers, layer)
      /\ st.method # "FIFO" => in.stock.layers = st.layers
  <2>1. layer = [loc |-> loc, lot |-> NoLot, got |-> qty, left |-> qty, cost |-> paid]
        /\ paid = IF cost = NoCost THEN st.avg ELSE cost
    OBVIOUS
  <2> HIDE DEF layer, paid
  <2>2. QED BY <1>1, <2>1, InboundLayers
<1>8. layer \in Layer /\ layer.left = layer.got /\ layer.left \in 1 .. layer.got
      /\ layer.cost \in Nat
  BY <1>3 DEF Layer
<1>9. LayersTyped(st.layers) /\ OldestFirst(st.layers) /\ PaidLayers(st.layers)
  BY DEF StockOK
<1> HIDE DEF layer
<1>10. LayersTyped(in.stock.layers) /\ OldestFirst(in.stock.layers) /\ PaidLayers(in.stock.layers)
  BY <1>7, <1>8, <1>9, LayerAdded
<1>11. in.stock.avg \in Nat /\ (MethodOf[p] = "STANDARD" => in.stock.avg = StandardOf[p])
  BY <1>2, <1>3, <1>4, <1>5
<1>12. in.stock.value \in Int BY <1>2, <1>6 DEF StockOK
<1>13. StockOK(p, in.stock) BY <1>2, <1>5, <1>10, <1>11, <1>12 DEF StockOK
<1>14. (cost \in Nat /\ (MethodOf[p] = "STANDARD" => cost = StandardOf[p]))
         => in.value = HalfUp(qty * cost, Scale)
  <2>1. cost \in Nat => paid = cost BY CostAbsenceAssumption
  <2>2. QED BY <1>2, <1>5, <2>1
<1>15. QED BY <1>2, <1>6, <1>13, <1>14

(* What an outbound one relieves, and at what unit cost: the standard cost of a
   STANDARD product, and what its layers cost, shared among its units, of a FIFO one. *)
LEMMA OutboundStockOK ==
  ASSUME NEW p \in Products, NEW st, StockOK(p, st),
         NEW loc \in Locations, NEW qty \in Nat \ {0},
         NEW out, out = Outbound(st, loc, NoLot, NoBin, qty)
  PROVE  /\ StockOK(p, out.stock) /\ out.value \in Int /\ out.unit \in Nat
         /\ out.stock.value = st.value + out.value
         /\ MethodOf[p] = "STANDARD" => out.unit = StandardOf[p]
         /\ MethodOf[p] = "FIFO" => Worth(-out.value, qty, out.unit, Scale + qty)
         /\ MethodOf[p] # "FIFO" => /\ Worth(-out.value, qty, out.unit, Scale)
                                    /\ out.value = -HalfUp(qty * out.unit, Scale)
<1> DEFINE taken == ConsumeLayers(st.layers, loc, NoLot, qty)
<1>1. DOMAIN st = Fields /\ st.method = MethodOf[p] /\ st.std = StandardOf[p]
      /\ StandardOf[p] \in Nat /\ st.avg \in Nat /\ st.value \in Int
      /\ (MethodOf[p] = "STANDARD" => st.avg \in {0, StandardOf[p]})
      /\ LayersTyped(st.layers) /\ OldestFirst(st.layers) /\ PaidLayers(st.layers)
  BY CostingAssumption DEF StockOK
<1>2. taken = ConsumeLayers(st.layers, loc, NoLot, qty) OBVIOUS
<1> HIDE DEF taken
<1>3. /\ DOMAIN out.stock = Fields
      /\ out.stock.method = st.method /\ out.stock.std = st.std /\ out.stock.avg = st.avg
      /\ out.stock.value = st.value + out.value
      /\ st.method = "FIFO" =>
           /\ out.stock.layers = taken.layers
           /\ out.unit = HalfUp(taken.cost + taken.short * st.avg, qty)
           /\ out.value = -HalfUp(taken.cost + taken.short * st.avg, Scale)
      /\ st.method # "FIFO" => out.stock.layers = st.layers
  BY <1>1, <1>2, OutboundLayers
<1>4. Drawn(st.layers, loc, NoLot, qty, Len(st.layers), taken)
      /\ Accounted(st.layers, loc, qty, Len(st.layers), taken)
  BY <1>1, <1>2, ConsumeDraws
<1>5. /\ LayersTyped(taken.layers) /\ OldestFirst(taken.layers) /\ PaidLayers(taken.layers)
      /\ taken.cost \in Nat /\ taken.short \in Nat
  <2>1. LayersTyped(taken.layers) /\ OldestFirst(taken.layers) /\ taken.short \in 0 .. qty
    BY <1>4 DEF Drawn
  <2>2. \A k \in 1 .. Len(st.layers) : st.layers[k].cost \in Nat
    BY <1>1 DEF PaidLayers
  <2>3. taken.cost \in Nat /\ PaidLayers(taken.layers)
    BY <1>4, <2>2 DEF Accounted, PaidLayers
  <2>4. QED BY <2>1, <2>3
<1>6. LayersTyped(out.stock.layers) /\ OldestFirst(out.stock.layers) /\ PaidLayers(out.stock.layers)
  BY <1>1, <1>3, <1>5
<1>7. CASE MethodOf[p] = "FIFO"
  <2> DEFINE n == taken.cost + taken.short * st.avg  v == HalfUp(n, Scale)
  <2>1. n \in Nat
    <3>1. taken.short * st.avg \in Nat BY <1>1, <1>5
    <3>2. QED BY <1>5, <3>1
  <2>2. out.unit = HalfUp(n, qty) /\ out.value = -v BY <1>1, <1>3, <1>7
  <2> HIDE DEF n
  <2>3. HalfUp(n, qty) \in Nat /\ Worth(v, qty, HalfUp(n, qty), Scale + qty)
    BY <2>1, SharedWorth
  <2>4. v \in Nat BY <2>3 DEF Worth
  <2> HIDE DEF v
  <2>5. out.value \in Int /\ -out.value = v BY <2>2, <2>4
  <2>6. out.stock.value \in Int BY <1>1, <1>3, <2>5
  <2>7. StockOK(p, out.stock) BY <1>1, <1>3, <1>6, <2>6 DEF StockOK
  <2>8. QED BY <1>3, <1>7, <2>2, <2>3, <2>5, <2>7
<1>8. CASE MethodOf[p] # "FIFO"
  <2>1. /\ out.unit = IF st.method = "STANDARD" /\ st.std # 0 THEN st.std ELSE st.avg
        /\ out.value = -HalfUp(qty * out.unit, Scale)
    BY <1>1, <1>8, OutboundCosting
  <2>2. out.unit \in Nat /\ (MethodOf[p] = "STANDARD" => out.unit = StandardOf[p])
    BY <1>1, <2>1
  <2> DEFINE v == HalfUp(qty * out.unit, Scale)
  <2>3. Worth(v, qty, out.unit, Scale) BY <2>2, RoundedWorth
  <2>4. v \in Nat /\ out.value = -v BY <2>1, <2>3 DEF Worth
  <2>5. out.value = -v BY <2>4
  <2> HIDE DEF v
  <2>6. out.value \in Int /\ -out.value = v BY <2>4
  <2>7. out.stock.value \in Int BY <1>1, <1>3, <2>6
  <2>8. StockOK(p, out.stock) BY <1>1, <1>3, <1>6, <2>7 DEF StockOK
  <2>9. Worth(-out.value, qty, out.unit, Scale) BY <2>3, <2>6
  <2>10. QED BY <1>3, <1>8, <2>1, <2>2, <2>6, <2>8, <2>9
<1>9. QED BY <1>7, <1>8

(* A one-step transfer line moves the subledger by no more than PostedApart allows it,
   and only that of a FIFO product. *)
LEMMA MovedStockOK ==
  ASSUME NEW p \in Products, NEW d, LineOK(d.status, d.lines[p]), StockOK(p, stock[p]),
         Held(stock[p]), Routed(d), d.status = "POSTED", CanLeave(d),
         NEW st, st = Moved(d, p),
         NEW balance \in Int, NEW slack \in Int, Apart(balance, stock[p].value, slack)
  PROVE  /\ StockOK(p, st)
         /\ Apart(balance, st.value, slack + IF MethodOf[p] = "FIFO" THEN PostedApart(p, d) ELSE 0)
<1> DEFINE qty == d.lines[p].qty
           out == Outbound(stock[p], d.from, NoLot, NoBin, qty)
           in  == Inbound(out.stock, d.to, NoLot, NoBin, qty, out.unit)
           more == IF MethodOf[p] = "FIFO" THEN PostedApart(p, d) ELSE 0
<1>1. qty \in Nat /\ d.from \in Locations /\ d.to \in Locations BY DEF LineOK, Routed
<1>2. st = IF qty = 0 THEN stock[p] ELSE in.stock BY DEF Moved, Leaving
<1>3. more = IF MethodOf[p] = "FIFO" /\ qty # 0 THEN 2 * Scale + qty ELSE 0 BY DEF PostedApart
<1>4. (Held(Leaving(d, p).stock) /\ Leaving(d, p) = out) \/ qty = 0
  <2> SUFFICES ASSUME qty # 0 PROVE Held(Leaving(d, p).stock) /\ Leaving(d, p) = out
    OBVIOUS
  <2>1. d.lines[p].qty \in Nat \ {0} BY <1>1
  <2>2. QED BY <2>1, LeavingHeld DEF Leaving
<1>5. out = Outbound(stock[p], d.from, NoLot, NoBin, qty)
      /\ in = Inbound(out.stock, d.to, NoLot, NoBin, qty, out.unit)
  OBVIOUS
<1> HIDE DEF qty, in, out, more
<1>6. CASE qty = 0
  <2>1. st = stock[p] /\ more = 0 /\ slack + 0 = slack BY <1>2, <1>3, <1>6
  <2>2. QED BY <2>1 DEF more
<1>7. CASE qty # 0
  <2>1. qty \in Nat \ {0} BY <1>1, <1>7
  <2>2. /\ StockOK(p, out.stock) /\ out.value \in Int /\ out.unit \in Nat
        /\ out.stock.value = stock[p].value + out.value
        /\ MethodOf[p] = "STANDARD" => out.unit = StandardOf[p]
        /\ MethodOf[p] = "FIFO" => Worth(-out.value, qty, out.unit, Scale + qty)
        /\ MethodOf[p] # "FIFO" => out.value = -HalfUp(qty * out.unit, Scale)
    BY <1>1, <1>5, <2>1, OutboundStockOK
  <2>3. TotalOnHand(out.stock) \in Nat BY <1>4, <1>7, TotalTyped DEF Held
  <2>4. /\ StockOK(p, in.stock) /\ in.value \in Nat
        /\ in.stock.value = out.stock.value + in.value
        /\ in.value = HalfUp(qty * out.unit, Scale)
    BY <1>1, <1>5, <2>1, <2>2, <2>3, InboundStockOK
  <2>5. st = in.stock /\ stock[p].value \in Int BY <1>2, <1>7 DEF StockOK
  <2> DEFINE v == stock[p].value  g == -out.value  h == in.value  u == out.unit
  <2>6. v \in Int /\ g \in Int /\ h \in Nat /\ st.value = v - g + h
    BY <2>2, <2>4, <2>5
  <2>7. CASE MethodOf[p] = "FIFO"
    <3>1. Worth(g, qty, u, Scale + qty) BY <2>2, <2>7
    <3>2. Worth(h, qty, u, Scale) BY <1>1, <2>2, <2>4, RoundedWorth
    <3>3. Apart(balance, v, slack) OBVIOUS
    <3>4. u \in Nat BY <2>2
    <3> HIDE DEF v, g, h, u
    <3> DEFINE x == Scale * (balance - v)  sg == Scale * g  sh == Scale * h  qu == qty * u
    <3>5. x \in Int /\ sg \in Int /\ sh \in Int /\ qu \in Int /\ Scale \in Int
      BY <1>1, <2>6, <3>4, ScaleAssumption
    <3>6. /\ 2 * x <= slack /\ -2 * x <= slack
          /\ 2 * (sg - qu) <= Scale + qty /\ 2 * (qu - sg) <= Scale + qty
          /\ 2 * (sh - qu) <= Scale /\ 2 * (qu - sh) <= Scale
      BY <3>1, <3>2, <3>3 DEF Apart, Worth
    <3>7. Scale * (balance - (v - g + h)) = x + sg - sh
      BY <2>6, <3>5, ScaleAssumption
    <3> HIDE DEF x, sg, sh, qu
    <3>8. /\ 2 * (x + sg - sh) <= slack + (2 * Scale + qty)
          /\ -2 * (x + sg - sh) <= slack + (2 * Scale + qty)
      BY <3>5, <3>6, <1>1
    <3>9. Apart(balance, v - g + h, slack + (2 * Scale + qty)) BY <3>7, <3>8 DEF Apart
    <3>10. Apart(balance, st.value, slack + more) BY <1>3, <1>7, <2>6, <2>7, <3>9
    <3>11. QED BY <2>4, <2>5, <3>10 DEF more
  <2>8. CASE MethodOf[p] # "FIFO"
    <3>1. g = h BY <2>2, <2>4, <2>8
    <3>2. st.value = v BY <2>6, <3>1
    <3>3. more = 0 /\ slack + 0 = slack BY <1>3, <2>8
    <3>4. Apart(balance, st.value, slack + more) BY <3>2, <3>3
    <3>5. QED BY <2>4, <2>5, <3>4 DEF more
  <2>9. QED BY <2>7, <2>8
<1>8. QED BY <1>6, <1>7

(* A line arriving, in part or in full: Inventory gains what In Transit loses,
   and In Transit keeps the worth of the rest. *)
LEMMA ArrivedLine ==
  ASSUME NEW p \in Products, NEW t \in Transfers, NEW loc \in Locations, NEW take,
         LineOK(doc[t].status, doc[t].lines[p]), NEW balance, NEW posts,
         LineValued(p, doc[t].status, doc[t].lines[p], balance, posts),
         StockOK(p, stock[p]), TotalOnHand(stock[p]) \in Nat,
         take[p] \in 0..InTransit(doc[t].lines[p]),
         NEW slack, slack = LineSlack(p, doc[t].lines[p], posts)
  PROVE  LET v == ValueIn(t, loc, take, p)
             st == IF take[p] = 0 THEN stock[p] ELSE Arriving(t, loc, take, p).stock
         IN  /\ StockOK(p, st) /\ st.value = stock[p].value + v
             /\ v \in Nat
             /\ Within(balance - v, InTransit(doc[t].lines[p]) - take[p], doc[t].lines[p].cost,
                       slack + (IF take[p] > 0 THEN Scale ELSE 0))
<1> DEFINE line == doc[t].lines[p]
           q == InTransit(line)
           k == take[p]
           in == Inbound(stock[p], loc, NoLot, NoBin, k, line.cost)
<1>1. q \in Nat /\ k \in Nat /\ k \in 0..q /\ line.sent \in Nat BY DEF LineOK, InTransit
<1>2. /\ line.cost \in Nat /\ balance \in Int /\ posts \in Nat
      /\ Within(balance, q, line.cost, slack)
  BY DEF LineValued
<1>0. slack \in Int BY <1>1, <1>2, ScaleAssumption DEF LineSlack
<1>3. CASE k = 0
  <2>1. ValueIn(t, loc, take, p) = 0 BY <1>3 DEF ValueIn
  <2>2. stock[p].value = stock[p].value + 0 BY DEF StockOK
  <2>3. balance - 0 = balance /\ q - k = q /\ slack + 0 = slack BY <1>0, <1>1, <1>2, <1>3
  <2>4. QED BY <1>2, <1>3, <2>1, <2>2, <2>3
<1>4. CASE k # 0
  <2>1. ValueIn(t, loc, take, p) = in.value /\ Arriving(t, loc, take, p) = in
    BY <1>4 DEF ValueIn, Arriving
  <2>2. line.sent # 0 BY <1>1, <1>4 DEF LineOK, InTransit
  <2>3. MethodOf[p] = "STANDARD" => line.cost = StandardOf[p] BY <2>2 DEF LineValued
  <2>4. k \in Nat \ {0} /\ in = Inbound(stock[p], loc, NoLot, NoBin, k, line.cost) BY <1>1, <1>4
  <2> HIDE DEF in, q, k, line
  <2>5. /\ StockOK(p, in.stock) /\ in.value \in Nat
        /\ in.stock.value = stock[p].value + in.value
        /\ in.value = HalfUp(k * line.cost, Scale)
    BY <1>2, <2>3, <2>4, InboundStockOK
  <2>6. Worth(in.value, k, line.cost, Scale) BY <1>1, <1>2, <2>5, RoundedWorth
  <2>7. Within(balance - in.value, q - k, line.cost, slack + Scale)
    BY <1>0, <1>1, <1>2, <2>6, PostingAway
  <2>8. k > 0 BY <1>1, <1>4
  <2>9. QED BY <1>4, <2>1, <2>5, <2>7, <2>8 DEF q, k, line
<1>5. QED BY <1>3, <1>4

(* A step that touches one transfer keeps the others' balances in order. *)
LEMMA OneTransit ==
  ASSUME DocsOK, TransitsOK, NEW t \in Transfers, NEW d, NEW balance, NEW posts,
         doc' = [doc EXCEPT ![t] = d],
         transit' = [transit EXCEPT ![t] = balance],
         DOMAIN ghost' = GhostFields,
         ghost'.posts = [ghost.posts EXCEPT ![t] = posts],
         DOMAIN balance = Products, DOMAIN posts = Products,
         \A p \in Products : LineValued(p, d.status, d.lines[p], balance[p], posts[p])
  PROVE  TransitsOK'
<1>1. DOMAIN transit' = Transfers /\ DOMAIN ghost'.posts = Transfers
  BY DEF TransitsOK
<1>2. ASSUME NEW u \in Transfers
      PROVE  /\ DOMAIN transit'[u] = Products /\ DOMAIN ghost'.posts[u] = Products
             /\ \A p \in Products :
                  LineValued(p, doc'[u].status, doc'[u].lines[p], transit'[u][p], ghost'.posts[u][p])
  <2>1. CASE u = t
    <3>1. doc'[u] = d /\ transit'[u] = balance /\ ghost'.posts[u] = posts
      BY <2>1 DEF DocsOK, TransitsOK
    <3>2. QED BY <3>1
  <2>2. CASE u # t
    <3>1. doc'[u] = doc[u] /\ transit'[u] = transit[u] /\ ghost'.posts[u] = ghost.posts[u]
      BY <2>2 DEF DocsOK, TransitsOK
    <3>2. QED BY <3>1 DEF TransitsOK
  <2>3. QED BY <2>1, <2>2
<1>3. QED BY <1>1, <1>2 DEF TransitsOK, LineValued, LineSlack, Within

(* A step that posts nothing to 1010. *)
LEMMA SameTransit ==
  ASSUME DocsOK, TransitsOK, NEW t \in Transfers, NEW d,
         doc' = [doc EXCEPT ![t] = d], UNCHANGED <<transit, ghost>>,
         \A p \in Products :
            LineValued(p, d.status, d.lines[p], transit[t][p], ghost.posts[t][p])
  PROVE  TransitsOK'
<1>1. transit' = transit /\ ghost' = ghost OBVIOUS
<1>2. ASSUME NEW u \in Transfers, NEW p \in Products
      PROVE  LineValued(p, doc'[u].status, doc'[u].lines[p], transit[u][p], ghost.posts[u][p])
  <2>1. CASE u = t
    <3>1. doc'[u] = d BY <2>1 DEF DocsOK
    <3>2. QED BY <2>1, <3>1
  <2>2. CASE u # t
    <3>1. doc'[u] = doc[u] BY <2>2 DEF DocsOK
    <3>2. QED BY <3>1 DEF TransitsOK
  <2>3. QED BY <2>1, <2>2
<1>3. QED BY <1>1, <1>2 DEF TransitsOK, LineValued, LineSlack, Within

(* The ledger slack of a product moves with the transfer that is posted ... *)
LEMMA SlackMoves ==
  ASSUME DocsOK, NEW t \in Transfers, NEW d, DocOK(d), doc' = [doc EXCEPT ![t] = d],
         doc[t].status # "POSTED", NEW p \in Products
  PROVE  /\ LedgerSlack(p) \in Int
         /\ LedgerSlack(p)' = LedgerSlack(p)
                              + IF MethodOf[p] = "FIFO" THEN PostedApart(p, d) ELSE 0
<1> DEFINE f == [u \in Transfers |-> PostedApart(p, doc[u])]
           h == [u \in Transfers |-> PostedApart(p, doc'[u])]
<1>1. \A e : DocOK(e) => PostedApart(p, e) \in Int
  BY ScaleAssumption DEF DocOK, LineOK, PostedApart
<1>2. \A u \in Transfers : DocOK(doc[u]) /\ DocOK(doc'[u]) /\ (u # t => doc'[u] = doc[u])
  BY DEF DocsOK
<1>3. doc'[t] = d /\ PostedApart(p, doc[t]) = 0 BY DEF DocsOK, PostedApart
<1>4. f \in [Transfers -> Int] /\ h \in [Transfers -> Int]
  BY <1>1, <1>2
<1>5. h[t] = PostedApart(p, d) /\ f[t] = 0 /\ \A u \in Transfers \ {t} : h[u] = f[u]
  BY <1>2, <1>3
<1>6. /\ LedgerSlack(p) = IF MethodOf[p] = "FIFO" THEN SumFunction(f) ELSE 0
      /\ LedgerSlack(p)' = IF MethodOf[p] = "FIFO" THEN SumFunction(h) ELSE 0
  BY DEF LedgerSlack, PostedApart
<1>7. PostedApart(p, d) \in Int BY <1>1
<1> HIDE DEF f, h
<1>8. SumFunction(f) \in Int BY <1>4, SumInteger, TransferAssumption
<1>9. SumFunction(h) = SumFunction(f) + h[t] - f[t] BY <1>4, <1>5, SumUpdate, TransferAssumption
<1>10. QED BY <1>5, <1>6, <1>7, <1>8, <1>9

(* ... and with no other step. *)
LEMMA SlackStays ==
  ASSUME DocsOK, NEW t \in Transfers, NEW d, DocOK(d), doc' = [doc EXCEPT ![t] = d],
         doc[t].status # "POSTED", d.status # "POSTED", NEW p \in Products
  PROVE  LedgerSlack(p)' = LedgerSlack(p)
<1>1. PostedApart(p, d) = 0 BY DEF PostedApart
<1> DEFINE old == LedgerSlack(p)
<1>2. old \in Int /\ LedgerSlack(p)' = old + IF MethodOf[p] = "FIFO" THEN PostedApart(p, d) ELSE 0
  BY SlackMoves
<1>3. LedgerSlack(p)' = old + 0 BY <1>1, <1>2
<1> HIDE DEF old
<1>4. old + 0 = old BY <1>2
<1>5. QED BY <1>3, <1>4 DEF old

(* What moves both ledgers keeps them together. *)
LEMMA MovedTogether ==
  ASSUME NEW balance, NEW value \in Int, NEW slack, Apart(balance, value, slack), NEW v \in Int
  PROVE  Apart(balance + v, value + v, slack)
<1>1. balance \in Int BY DEF Apart
<1>2. (balance + v) - (value + v) = balance - value BY <1>1
<1>3. balance + v \in Int BY <1>1
<1>4. QED BY <1>2, <1>3 DEF Apart

-----------------------------------------------------------------------------
(* Before anything happens all balances are zero. *)
LEMMA InitValues == Init => StocksOK /\ TransitsOK
<1> SUFFICES ASSUME Init PROVE StocksOK /\ TransitsOK OBVIOUS
<1>1. StocksOK
  <2>1. \A p \in Products : LET st == NoStock(MethodOf[p], StandardOf[p])
                            IN  /\ DOMAIN st = Fields /\ st.value = 0 /\ st.avg = 0
                                /\ st.method = MethodOf[p] /\ st.std = StandardOf[p]
                                /\ st.layers = <<>>
    BY DEF NoStock, Fields
  <2>2. /\ stock = [p \in Products |-> NoStock(MethodOf[p], StandardOf[p])]
        /\ inventory = [p \in Products |-> 0]
    BY DEF Init
  <2>3. <<>> \in Seq(Layer) /\ Len(<<>>) = 0 OBVIOUS
  <2>4. LayersTyped(<<>>) /\ OldestFirst(<<>>) /\ PaidLayers(<<>>)
    BY <2>3 DEF LayersTyped, OldestFirst, PaidLayers
  <2>5. ASSUME NEW p \in Products PROVE StockOK(p, stock[p]) /\ stock[p].value = 0
    <3> DEFINE st == NoStock(MethodOf[p], StandardOf[p])
    <3>1. /\ DOMAIN st = Fields /\ st.value = 0 /\ st.avg = 0
          /\ st.method = MethodOf[p] /\ st.std = StandardOf[p] /\ st.layers = <<>>
      BY <2>1
    <3>2. stock[p] = st BY <2>2
    <3> HIDE DEF st
    <3>3. QED BY <2>4, <3>1, <3>2 DEF StockOK
  <2>6. ASSUME NEW p \in Products PROVE LedgerSlack(p) = 0
    <3> DEFINE f == [t \in Transfers |-> PostedApart(p, doc[t])]
    <3>1. \A t \in Transfers : doc[t].status = "NONE" BY DEF Init
    <3>2. f \in [Transfers -> Int] /\ \A t \in Transfers : f[t] = 0
      BY <3>1 DEF PostedApart
    <3>3. LedgerSlack(p) = IF MethodOf[p] = "FIFO" THEN SumFunction(f) ELSE 0 BY DEF LedgerSlack
    <3> HIDE DEF f
    <3>4. QED BY <3>2, <3>3, SumZero, TransferAssumption
  <2>7. Apart(0, 0, 0) BY ScaleAssumption DEF Apart
  <2>8. QED BY <2>2, <2>5, <2>6, <2>7 DEF StocksOK
<1>2. TransitsOK
  <2>1. /\ transit = [t \in Transfers |-> [p \in Products |-> 0]]
        /\ DOMAIN ghost = GhostFields
        /\ ghost.posts = [t \in Transfers |-> [p \in Products |-> 0]]
    BY DEF Init, GhostFields
  <2> DEFINE lines == [p \in Products |-> ZeroLine]
             none  == [status |-> "NONE", from |-> NoLocation, to |-> NoLocation, lines |-> lines]
  <2>2. doc = [t \in Transfers |-> none] BY DEF Init
  <2>3. \A p \in Products : lines[p] = ZeroLine OBVIOUS
  <2>4. none.status = "NONE" /\ none.lines = lines OBVIOUS
  <2> HIDE DEF lines, none
  <2>5. \A p \in Products : LineValued(p, "NONE", ZeroLine, 0, 0)
    BY ScaleAssumption DEF LineValued, LineSlack, ZeroLine, Within, InTransit
  <2>6. ASSUME NEW t \in Transfers, NEW p \in Products
        PROVE  doc[t].status = "NONE" /\ doc[t].lines[p] = ZeroLine
    BY <2>2, <2>3, <2>4
  <2>7. QED BY <2>1, <2>5, <2>6 DEF TransitsOK
<1>3. QED BY <1>1, <1>2

(* Every step keeps the books: one step per operation. *)
LEMMA NextValues ==
  QuantitiesOK /\ StocksOK /\ TransitsOK /\ [Next]_vars
    => (StocksOK /\ TransitsOK)'
<1> SUFFICES ASSUME QuantitiesOK, StocksOK, TransitsOK, [Next]_vars
             PROVE  StocksOK' /\ TransitsOK'
  OBVIOUS
<1> DocsOK BY DEF QuantitiesOK
<1>0. \A p \in Products : /\ StockOK(p, stock[p]) /\ stock[p].value \in Int
                          /\ Apart(inventory[p], stock[p].value, LedgerSlack(p))
                          /\ inventory[p] \in Int
                          /\ Held(stock[p]) /\ TotalOnHand(stock[p]) \in Nat
  BY TotalTyped DEF StocksOK, StockOK, Apart, QuantitiesOK, Held
<1>1. ASSUME DOMAIN stock' = Products, DOMAIN inventory' = Products,
             \A p \in Products : /\ StockOK(p, stock'[p])
                                 /\ Apart(inventory'[p], stock'[p].value, LedgerSlack(p)')
      PROVE  StocksOK'
  BY <1>1 DEF StocksOK, StockOK, Apart
<1>2. ASSUME UNCHANGED <<doc, transit>>, DOMAIN ghost' = GhostFields, ghost'.posts = ghost.posts
      PROVE  TransitsOK'
  BY <1>2 DEF TransitsOK, LineValued, LineSlack, Within
<1>3. ASSUME NEW p \in Products, NEW st, NEW v \in Int, StockOK(p, st), st.value = stock[p].value + v,
             stock' = [stock EXCEPT ![p] = st],
             inventory' = [inventory EXCEPT ![p] = inventory[p] + v], UNCHANGED doc
      PROVE  StocksOK'
  <2>1. \A q \in Products : LedgerSlack(q)' = LedgerSlack(q)
    BY <1>3 DEF LedgerSlack, PostedApart
  <2>2. DOMAIN stock' = Products /\ DOMAIN inventory' = Products BY <1>3 DEF StocksOK
  <2>3. ASSUME NEW q \in Products
        PROVE  StockOK(q, stock'[q]) /\ Apart(inventory'[q], stock'[q].value, LedgerSlack(q))
    <3>1. CASE q = p
      <4>1. stock'[q] = st /\ inventory'[q] = inventory[p] + v BY <3>1, <1>3 DEF StocksOK
      <4>2. Apart(inventory[p] + v, stock[p].value + v, LedgerSlack(p))
        BY <1>0, <1>3, MovedTogether
      <4>3. QED BY <3>1, <4>1, <4>2, <1>3
    <3>2. CASE q # p
      <4>1. stock'[q] = stock[q] /\ inventory'[q] = inventory[q] BY <3>2, <1>3 DEF StocksOK
      <4>2. QED BY <4>1, <1>0
    <3>3. QED BY <3>1, <3>2
  <2>4. QED BY <1>1, <2>1, <2>2, <2>3
<1>14. ASSUME NEW t \in Transfers, NEW d, DocOK(d), doc' = [doc EXCEPT ![t] = d],
              doc[t].status # "POSTED", d.status # "POSTED",
              DOMAIN stock' = Products, DOMAIN inventory' = Products,
              \A p \in Products : /\ StockOK(p, stock'[p])
                                  /\ \E v \in Int : /\ stock'[p].value = stock[p].value + v
                                                    /\ inventory'[p] = inventory[p] + v
       PROVE  StocksOK'
  <2>1. ASSUME NEW p \in Products PROVE Apart(inventory'[p], stock'[p].value, LedgerSlack(p)')
    <3>1. LedgerSlack(p)' = LedgerSlack(p) BY <1>14, SlackStays
    <3>2. PICK v \in Int : stock'[p].value = stock[p].value + v /\ inventory'[p] = inventory[p] + v
      BY <1>14
    <3>3. Apart(inventory[p] + v, stock[p].value + v, LedgerSlack(p)) BY <1>0, MovedTogether
    <3>4. QED BY <3>1, <3>2, <3>3
  <2>2. QED BY <1>1, <1>14, <2>1
<1>15. ASSUME UNCHANGED <<stock, inventory>>, NEW t \in Transfers, NEW d, DocOK(d),
              doc' = [doc EXCEPT ![t] = d], doc[t].status # "POSTED", d.status # "POSTED"
       PROVE  StocksOK'
  <2>1. DOMAIN stock' = Products /\ DOMAIN inventory' = Products BY <1>15 DEF StocksOK
  <2>2. ASSUME NEW p \in Products
        PROVE  /\ StockOK(p, stock'[p])
               /\ stock'[p].value = stock[p].value + 0 /\ inventory'[p] = inventory[p] + 0
    BY <1>0, <1>15
  <2>3. ASSUME NEW p \in Products
        PROVE  /\ StockOK(p, stock'[p])
               /\ \E v \in Int : /\ stock'[p].value = stock[p].value + v
                               /\ inventory'[p] = inventory[p] + v
    BY <2>2
  <2>4. QED BY <1>14, <1>15, <2>1, <2>3
<1>16. ASSUME NEW t \in Transfers, NEW d, doc' = [doc EXCEPT ![t] = d] PROVE DocOK(d)
  <2>1. DocsOK' BY NextDocsOK
  <2>2. doc'[t] = d BY <1>16 DEF DocsOK
  <2>3. QED BY <2>1, <2>2 DEF DocsOK, DocOK, LineOK
<1>4. ASSUME NEW p \in Products, NEW loc \in Locations, NEW qty \in Quantities,
             NEW cost \in UnitCosts, GoodsIn(p, loc, qty, cost)
      PROVE  StocksOK' /\ TransitsOK'
  <2> DEFINE in == Inbound(stock[p], loc, NoLot, NoBin, qty, cost)
  <2>1. qty \in Nat \ {0} /\ cost \in Nat BY InputAssumption
  <2>2. StockOK(p, in.stock) /\ in.value \in Int /\ in.stock.value = stock[p].value + in.value
    BY <1>0, <2>1, InboundStockOK
  <2>3. /\ stock' = [stock EXCEPT ![p] = in.stock]
        /\ inventory' = [inventory EXCEPT ![p] = inventory[p] + in.value]
    BY <1>4 DEF GoodsIn
  <2>4. UNCHANGED <<doc, transit>> /\ DOMAIN ghost' = GhostFields /\ ghost'.posts = ghost.posts
    BY <1>4 DEF GoodsIn, TransitsOK, GhostFields
  <2> HIDE DEF in
  <2>5. QED BY <1>2, <1>3, <2>2, <2>3, <2>4
<1>5. ASSUME NEW p \in Products, NEW loc \in Locations, NEW qty \in Quantities,
             NEW delta, delta = qty \/ delta = -qty, AdjustStock(p, loc, delta)
      PROVE  StocksOK' /\ TransitsOK'
  <2> DEFINE in   == Inbound(stock[p], loc, NoLot, NoBin, delta, NoCost)
             out  == Outbound(stock[p], loc, NoLot, NoBin, -delta)
             move == IF delta > 0 THEN in ELSE out
  <2>1. qty \in Nat /\ qty > 0 BY InputAssumption
  <2>2. StockOK(p, move.stock) /\ move.value \in Int
        /\ move.stock.value = stock[p].value + move.value
    <3>1. CASE delta > 0
      <4>1. delta \in Nat \ {0} BY <1>5, <2>1, <3>1
      <4>2. StockOK(p, in.stock) /\ in.value \in Int
            /\ in.stock.value = stock[p].value + in.value
        BY <1>0, <4>1, InboundStockOK
      <4>3. QED BY <3>1, <4>2
    <3>2. CASE ~(delta > 0)
      <4>1. -delta \in Nat \ {0} BY <1>5, <2>1, <3>2
      <4>2. StockOK(p, out.stock) /\ out.value \in Int
            /\ out.stock.value = stock[p].value + out.value
        BY <1>0, <4>1, OutboundStockOK
      <4>3. QED BY <3>2, <4>2
    <3>3. QED BY <3>1, <3>2
  <2>3. /\ stock' = [stock EXCEPT ![p] = move.stock]
        /\ inventory' = [inventory EXCEPT ![p] = inventory[p] + move.value]
    BY <1>5 DEF AdjustStock
  <2>4. UNCHANGED <<doc, transit>> /\ DOMAIN ghost' = GhostFields /\ ghost'.posts = ghost.posts
    BY <1>5 DEF AdjustStock, TransitsOK, GhostFields
  <2> HIDE DEF move
  <2>5. QED BY <1>2, <1>3, <2>2, <2>3, <2>4
<1>6. ASSUME NEW t \in Transfers, NEW d, DocOK(d), doc' = [doc EXCEPT ![t] = d],
             doc[t].status # "POSTED", Routed(d), d.status = "POSTED", CanLeave(d),
             stock' = [p \in Products |-> Moved(d, p)], UNCHANGED inventory
      PROVE  StocksOK'
  <2>1. ASSUME NEW p \in Products
        PROVE  StockOK(p, stock'[p]) /\ Apart(inventory[p], stock'[p].value, LedgerSlack(p)')
    <3>1. stock'[p] = Moved(d, p) /\ LineOK(d.status, d.lines[p]) BY <1>6 DEF DocOK
    <3>2. LedgerSlack(p) \in Int
          /\ LedgerSlack(p)' = LedgerSlack(p)
                               + IF MethodOf[p] = "FIFO" THEN PostedApart(p, d) ELSE 0
      BY <1>6, SlackMoves
    <3>3. QED BY <1>0, <1>6, <3>1, <3>2, MovedStockOK
  <2>2. DOMAIN stock' = Products /\ DOMAIN inventory' = Products BY <1>6 DEF StocksOK
  <2>3. QED BY <1>1, <1>6, <2>1, <2>2
<1>7. ASSUME NEW t \in Transfers, NEW from \in Locations, NEW to \in Locations,
             NEW want \in [Products -> Quantities \cup {0}],
             Create(t, from, to, want) \/ CreatePosted(t, from, to, want)
      PROVE  StocksOK' /\ TransitsOK'
  <2> DEFINE lines == [p \in Products |-> [ZeroLine EXCEPT !.qty = want[p]]]
             new(status) == [status |-> status, from |-> from, to |-> to, lines |-> lines]
  <2>1. doc[t].status = "NONE" /\ UNCHANGED <<transit, ghost>> /\ UNCHANGED inventory
    BY <1>7 DEF Create, CreatePosted
  <2>2. \A p \in Products : transit[t][p] = 0 /\ ghost.posts[t][p] = 0
    BY <2>1 DEF TransitsOK, LineValued
  <2>3. \A p \in Products : lines[p].cost = 0 /\ lines[p].sent = 0 /\ lines[p].got = 0
    BY DEF ZeroLine
  <2>4. ASSUME NEW status \in {"DRAFT", "POSTED"}
        PROVE  /\ DocOK(new(status))
               /\ new(status).status = status /\ new(status).lines = lines
               /\ Routed(new(status))
    BY NewDoc DEF Routed
  <2> HIDE DEF lines, new
  <2>5. ASSUME NEW status \in {"DRAFT", "POSTED"}, NEW p \in Products
        PROVE  LineValued(p, new(status).status, new(status).lines[p],
                          transit[t][p], ghost.posts[t][p])
    <3>1. new(status).lines[p] = lines[p] /\ new(status).status = status BY <2>4
    <3>2. InTransit(lines[p]) = 0 BY <2>3 DEF InTransit
    <3>3. Within(0, 0, 0, 0) /\ Scale * 0 = 0 BY ScaleAssumption DEF Within
    <3>4. LineSlack(p, lines[p], 0) = 0 BY <2>3, <3>3 DEF LineSlack
    <3>5. QED BY <2>2, <2>3, <3>1, <3>2, <3>3, <3>4 DEF LineValued
  <2>6. CASE Create(t, from, to, want)
    <3>1. doc' = [doc EXCEPT ![t] = new("DRAFT")] BY <2>6 DEF Create, new, lines
    <3>2. UNCHANGED <<stock, inventory>> BY <2>6 DEF Create
    <3>3. TransitsOK' BY <2>1, <2>5, <3>1, SameTransit
    <3>5. DocOK(new("DRAFT")) /\ new("DRAFT").status # "POSTED" BY <2>4
    <3>6. StocksOK' BY <1>15, <2>1, <3>1, <3>2, <3>5
    <3>4. QED BY <3>3, <3>6
  <2>7. CASE CreatePosted(t, from, to, want)
    <3>1. doc' = [doc EXCEPT ![t] = new("POSTED")] BY <2>7 DEF CreatePosted, new, lines
    <3>2. stock' = [p \in Products |-> Moved(new("POSTED"), p)] /\ CanLeave(new("POSTED"))
      BY <2>7 DEF CreatePosted, new, lines
    <3>3. TransitsOK' BY <2>1, <2>5, <3>1, SameTransit
    <3>4. DocOK(new("POSTED")) /\ Routed(new("POSTED")) /\ new("POSTED").status = "POSTED"
      BY <2>4
    <3>5. doc[t].status # "POSTED" BY <2>1
    <3>6. StocksOK' BY <1>6, <2>1, <3>1, <3>2, <3>4, <3>5
    <3>7. QED BY <3>3, <3>6
  <2>8. QED BY <1>7, <2>6, <2>7
<1>8. ASSUME NEW t \in Transfers, Post(t) \/ CancelDraft(t)
      PROVE  StocksOK' /\ TransitsOK'
  <2> DEFINE new(status) == [doc[t] EXCEPT !.status = status]
  <2>1. DocOK(doc[t]) /\ UNCHANGED <<transit, ghost>> /\ UNCHANGED inventory
    BY <1>8 DEF Post, CancelDraft, DocsOK
  <2>2. \A status : new(status).status = status /\ new(status).lines = doc[t].lines
    BY <2>1 DEF DocOK, DocFields
  <2> HIDE DEF new
  <2>3. ASSUME NEW status \in {"POSTED", "CANCELLED"}, NEW p \in Products
        PROVE  LineValued(p, new(status).status, new(status).lines[p],
                          transit[t][p], ghost.posts[t][p])
    BY <2>2 DEF TransitsOK, LineValued
  <2>4. CASE Post(t)
    <3>1. doc' = [doc EXCEPT ![t] = new("POSTED")] BY <2>4 DEF Post, new
    <3>2. /\ stock' = [p \in Products |-> Moved(doc[t], p)] /\ CanLeave(doc[t])
          /\ doc[t].status \notin {"NONE", "POSTED"} /\ Routed(doc[t])
      BY <2>4 DEF Post, QuantitiesOK
    <3>3. TransitsOK' BY <2>1, <2>3, <3>1, SameTransit
    <3>4. /\ new("POSTED").status = "POSTED" /\ new("POSTED").lines = doc[t].lines
          /\ new("POSTED").from = doc[t].from /\ new("POSTED").to = doc[t].to
          /\ DOMAIN new("POSTED") = DocFields
      BY <2>1 DEF new, DocOK, DocFields
    <3>5. DocOK(new("POSTED")) BY <2>1, <3>4 DEF DocOK, LineOK
    <3>6. Routed(new("POSTED")) /\ CanLeave(new("POSTED"))
      BY <3>2, <3>4 DEF Routed, CanLeave
    <3>7. \A p \in Products : Moved(new("POSTED"), p) = Moved(doc[t], p)
      BY <3>4 DEF Moved, Leaving
    <3>8. stock' = [p \in Products |-> Moved(new("POSTED"), p)] BY <3>2, <3>7
    <3>9. StocksOK' BY <1>6, <2>1, <3>1, <3>2, <3>4, <3>5, <3>6, <3>8
    <3>10. QED BY <3>3, <3>9
  <2>5. CASE CancelDraft(t)
    <3>1. doc' = [doc EXCEPT ![t] = new("CANCELLED")] BY <2>5 DEF CancelDraft, new
    <3>2. UNCHANGED <<stock, inventory>> /\ doc[t].status = "DRAFT" BY <2>5 DEF CancelDraft
    <3>3. TransitsOK' BY <2>1, <2>3, <3>1, SameTransit
    <3>4. /\ new("CANCELLED").status = "CANCELLED" /\ new("CANCELLED").lines = doc[t].lines
          /\ DOMAIN new("CANCELLED") = DocFields
      BY <2>1 DEF new, DocOK, DocFields
    <3>5. DocOK(new("CANCELLED")) BY <2>1, <3>2, <3>4 DEF DocOK, LineOK
    <3>6. StocksOK' BY <1>15, <3>1, <3>2, <3>4, <3>5
    <3>7. QED BY <3>3, <3>6
  <2>6. QED BY <1>8, <2>4, <2>5
<1>9. ASSUME NEW t \in Transfers, Dispatch(t) PROVE StocksOK' /\ TransitsOK'
  <2> DEFINE d == doc[t]
             value(p) == IF d.lines[p].qty = 0 THEN 0 ELSE -Leaving(d, p).value
             lines == [p \in Products |-> SentLine(d, p)]
             new == [d EXCEPT !.status = "DISPATCHED", !.lines = lines]
             st(p) == IF d.lines[p].qty = 0 THEN stock[p] ELSE Leaving(d, p).stock
             balance == [p \in Products |-> transit[t][p] + value(p)]
             posts == [p \in Products |-> IF d.lines[p].qty = 0 THEN ghost.posts[t][p]
                                          ELSE ghost.posts[t][p] + 1]
  <2>1. /\ DocOK(d) /\ d.status = "DRAFT"
        /\ doc' = [doc EXCEPT ![t] = new]
        /\ stock' = [p \in Products |-> st(p)]
        /\ inventory' = [p \in Products |-> inventory[p] - value(p)]
        /\ transit' = [transit EXCEPT ![t] = balance]
        /\ ghost' = [ghost EXCEPT !.posts[t] = posts]
    BY <1>9 DEF DocsOK, Dispatch
  <2>2. DOMAIN ghost' = GhostFields /\ ghost'.posts = [ghost.posts EXCEPT ![t] = posts]
    BY <2>1 DEF TransitsOK, GhostFields
  <2>3. new.status = "DISPATCHED" /\ new.lines = lines BY <2>1 DEF DocOK, DocFields
  <2>4. ASSUME NEW p \in Products
        PROVE  /\ StockOK(p, st(p))
               /\ \E v \in Int : st(p).value = stock[p].value + v /\ inventory[p] - value(p) = inventory[p] + v
               /\ LineValued(p, "DISPATCHED", SentLine(d, p), balance[p], posts[p])
    <3> DEFINE line == d.lines[p]
               out  == Leaving(d, p)
    <3>1. LineOK("DRAFT", line) BY <2>1 DEF DocOK
    <3>2. /\ LineValued(p, "DRAFT", line, transit[t][p], ghost.posts[t][p])
          /\ transit[t][p] = 0 /\ ghost.posts[t][p] = 0
      BY <2>1 DEF TransitsOK, LineValued
    <3>3. CASE line.qty = 0
      <4>1. SentLine(d, p) = line /\ value(p) = 0 /\ st(p) = stock[p]
            /\ balance[p] = transit[t][p] /\ posts[p] = ghost.posts[t][p]
        BY <3>2, <3>3 DEF SentLine
      <4>2. inventory[p] - 0 = inventory[p] + 0 /\ stock[p].value = stock[p].value + 0 BY <1>0
      <4>3. LineValued(p, "DISPATCHED", line, transit[t][p], ghost.posts[t][p])
        BY <3>2 DEF LineValued
      <4>4. QED BY <1>0, <4>1, <4>2, <4>3
    <3>4. CASE line.qty # 0
      <4>1. line.qty \in Nat \ {0} /\ line.sent = 0 /\ line.got = 0 BY <3>1, <3>4 DEF LineOK
      <4>0. d.from \in Locations BY <2>1 DEF QuantitiesOK, Routed
      <4>2. /\ StockOK(p, out.stock) /\ out.value \in Int /\ out.unit \in Nat
            /\ out.stock.value = stock[p].value + out.value
            /\ MethodOf[p] = "STANDARD" => out.unit = StandardOf[p]
            /\ MethodOf[p] = "FIFO" => Worth(-out.value, line.qty, out.unit, Scale + line.qty)
            /\ MethodOf[p] # "FIFO" => Worth(-out.value, line.qty, out.unit, Scale)
        BY <1>0, <4>0, <4>1, OutboundStockOK DEF Leaving
      <4>3. value(p) = -out.value /\ st(p) = out.stock BY <3>4
      <4>4. SentLine(d, p) = [line EXCEPT !.sent = line.qty, !.cost = out.unit]
        BY <3>4 DEF SentLine
      <4> HIDE DEF out
      <4>5. balance[p] = -out.value /\ posts[p] = 1 BY <3>2, <3>4, <4>2, <4>3
      <4>6. inventory[p] - value(p) = inventory[p] + out.value
        BY <1>0, <4>2, <4>3
      <4> HIDE DEF balance, posts, value, st, d, line
      <4>7. SentLine(d, p).cost = out.unit /\ SentLine(d, p).sent = line.qty
            /\ SentLine(d, p).got = 0
        BY <3>1, <4>1, <4>4 DEF LineOK, LineFields
      <4>8. InTransit(SentLine(d, p)) = line.qty BY <4>1, <4>7 DEF InTransit
      <4>9. Within(-out.value, line.qty, out.unit, LineSlack(p, SentLine(d, p), 1))
        <5>1. LineSlack(p, SentLine(d, p), 1) = Scale + IF MethodOf[p] = "FIFO" THEN line.qty ELSE 0
          BY <4>1, <4>7, ScaleAssumption DEF LineSlack
        <5>2. CASE MethodOf[p] = "FIFO"
          <6>1. Scale + line.qty \in Int BY <4>1, ScaleAssumption
          <6>2. Within(-out.value, line.qty, out.unit, Scale + line.qty)
            BY <4>1, <4>2, <5>2, <6>1, PostingIn
          <6>3. QED BY <5>1, <5>2, <6>2
        <5>3. CASE MethodOf[p] # "FIFO"
          <6>1. Scale \in Int /\ Scale + 0 = Scale BY ScaleAssumption
          <6>2. Within(-out.value, line.qty, out.unit, Scale)
            BY <4>1, <4>2, <5>3, <6>1, PostingIn
          <6>3. QED BY <5>1, <5>3, <6>1, <6>2
        <5>4. QED BY <5>2, <5>3
      <4>10. /\ StockOK(p, st(p))
             /\ \E v \in Int : st(p).value = stock[p].value + v /\ inventory[p] - value(p) = inventory[p] + v
        BY <4>2, <4>3, <4>6
      <4>11. LineValued(p, "DISPATCHED", SentLine(d, p), balance[p], posts[p])
        BY <4>2, <4>5, <4>7, <4>8, <4>9 DEF LineValued
      <4>12. QED BY <4>10, <4>11
    <3>5. QED BY <3>3, <3>4
  <2>5. StocksOK'
    <3> HIDE DEF st, value, new, lines, d
    <3>1. DocOK(new) /\ new.status # "POSTED" /\ doc[t].status # "POSTED"
      BY <1>16, <2>1, <2>3 DEF d
    <3>2. DOMAIN stock' = Products /\ DOMAIN inventory' = Products BY <2>1
    <3>3. ASSUME NEW p \in Products
          PROVE  /\ StockOK(p, stock'[p])
                 /\ \E v \in Int : stock'[p].value = stock[p].value + v /\ inventory'[p] = inventory[p] + v
      <4>1. stock'[p] = st(p) /\ inventory'[p] = inventory[p] - value(p) BY <2>1
      <4>2. QED BY <2>4, <4>1
    <3>4. QED BY <1>14, <2>1, <3>1, <3>2, <3>3
  <2>6. DOMAIN balance = Products /\ DOMAIN posts = Products
        /\ \A p \in Products : lines[p] = SentLine(d, p)
    OBVIOUS
  <2> HIDE DEF balance, posts, lines, new, d, st, value
  <2>7. \A p \in Products : LineValued(p, new.status, new.lines[p], balance[p], posts[p])
    BY <2>3, <2>4, <2>6
  <2>8. TransitsOK' BY <2>1, <2>2, <2>6, <2>7, OneTransit
  <2>9. QED BY <2>5, <2>8
<1>10. ASSUME NEW t \in Transfers, NEW asked \in [Products -> Asked] \cup {All},
              NEW closeShort \in BOOLEAN, Receive(t, asked, closeShort)
       PROVE  StocksOK' /\ TransitsOK'
  <2> DEFINE d == doc[t]
             take == Taken(d, asked)
             rest(p) == InTransit(d.lines[p]) - take[p]
             lost(p) == IF closeShort THEN rest(p) ELSE 0
             done == \A p \in Products : rest(p) = lost(p)
             loss(p) == IF lost(p) > 0 THEN Loss(d.lines[p], take[p]) ELSE 0
             value(p) == ValueIn(t, d.to, take, p)
             st(p) == IF take[p] = 0 THEN stock[p] ELSE Arriving(t, d.to, take, p).stock
             status == IF done THEN "RECEIVED" ELSE d.status
             line(p) == [d.lines[p] EXCEPT !.got = @ + take[p] + lost(p)]
             lines == [p \in Products |-> line(p)]
             new == [d EXCEPT !.status = status, !.lines = lines]
             balance == [p \in Products |-> transit[t][p] - value(p) - loss(p)]
             posts == [p \in Products |-> ghost.posts[t][p] + (IF take[p] > 0 THEN 1 ELSE 0)
                                            + (IF lost(p) > 0 THEN 1 ELSE 0)]
             allLost == [p \in Products |-> ghost.lost[p] + lost(p)]
  <2>1. /\ DocOK(d) /\ d.status = "DISPATCHED"
        /\ doc' = [doc EXCEPT ![t] = new]
        /\ stock' = [p \in Products |-> st(p)]
        /\ inventory' = [p \in Products |-> inventory[p] + value(p)]
        /\ transit' = [transit EXCEPT ![t] = balance]
    BY <1>10 DEF DocsOK, Receive, Arrive
  <2>2. ghost' = [ghost EXCEPT !.lost = allLost, !.posts[t] = posts]
    BY <1>10 DEF Receive
  <2>3. DOMAIN ghost' = GhostFields /\ ghost'.posts = [ghost.posts EXCEPT ![t] = posts]
    <3> HIDE DEF allLost, posts
    <3>1. QED BY <2>2 DEF TransitsOK, GhostFields
  <2>4. new.status = status /\ new.lines = lines /\ status \in {"DISPATCHED", "RECEIVED"}
    BY <2>1 DEF DocOK, DocFields
  <2>5. ASSUME NEW p \in Products
        PROVE  /\ StockOK(p, st(p)) /\ st(p).value = stock[p].value + value(p) /\ value(p) \in Int
               /\ LineValued(p, status, line(p), balance[p], posts[p])
    <3> DEFINE l == d.lines[p]
               q == InTransit(l)
               k == take[p]
    <3>1. LineOK("DISPATCHED", l) /\ LineOK(doc[t].status, doc[t].lines[p])
      BY <2>1 DEF DocOK
    <3>2. k \in 0..q BY <2>1, TakenCapped
    <3>3. LineValued(p, doc[t].status, l, transit[t][p], ghost.posts[t][p])
      BY DEF TransitsOK
    <3> DEFINE before == LineSlack(p, l, ghost.posts[t][p])
               slack == before + (IF k > 0 THEN Scale ELSE 0)
    <3>0. before = LineSlack(p, doc[t].lines[p], ghost.posts[t][p]) OBVIOUS
    <3> HIDE DEF before
    <3>4. /\ StockOK(p, st(p)) /\ st(p).value = stock[p].value + value(p)
          /\ value(p) \in Nat
          /\ Within(transit[t][p] - value(p), q - k, l.cost, slack)
      BY <1>0, <2>1, <3>0, <3>1, <3>2, <3>3, ArrivedLine DEF QuantitiesOK, Routed
    <3>5. /\ l.cost \in Nat /\ transit[t][p] \in Int /\ ghost.posts[t][p] \in Nat
          /\ MethodOf[p] = "STANDARD" /\ l.sent # 0 => l.cost = StandardOf[p]
      BY <3>3 DEF LineValued
    <3>6. q \in Nat /\ k \in Nat /\ q = l.sent - l.got /\ l.sent \in Nat /\ l.got \in Nat
      BY <3>1, <3>2 DEF LineOK, InTransit
    <3> DEFINE bal == transit[t][p] - value(p)
               n == ghost.posts[t][p] + (IF k > 0 THEN 1 ELSE 0)
    <3>7. bal \in Int /\ n \in Nat BY <3>4, <3>5
    <3> DEFINE fifo == IF MethodOf[p] = "FIFO" THEN l.sent ELSE 0
    <3>17. fifo \in Int BY <3>6
    <3>18. before = Scale * ghost.posts[t][p] + fifo BY DEF before, LineSlack
    <3>19. slack = Scale * n + fifo /\ slack \in Int
      BY <3>5, <3>17, <3>18, ScaleAssumption
    <3>8. lost(p) = 0 \/ lost(p) = q - k OBVIOUS
    <3>9. loss(p) = IF lost(p) > 0 THEN HalfEven((q - k) * l.cost, Scale) ELSE 0
      BY DEF Loss
    <3>10. balance[p] = bal - loss(p) /\ posts[p] = n + (IF lost(p) > 0 THEN 1 ELSE 0)
      OBVIOUS
    <3>11. /\ line(p).cost = l.cost /\ line(p).sent = l.sent
           /\ line(p).got = l.got + k + lost(p)
      BY <3>1 DEF LineOK, LineFields
    <3> HIDE DEF balance, posts, line, loss, lost, value, st, status, rest, done, take, d, l, q, k, bal, n, slack, fifo
    <3>12. Within(bal, q - k, l.cost, slack) BY <3>4 DEF bal, q, k, l
    <3>13. Within(balance[p], q - k - lost(p), l.cost, Scale * posts[p] + fifo)
           /\ balance[p] \in Int /\ posts[p] \in Nat /\ lost(p) \in Nat
      <4>1. CASE lost(p) = 0
        <5>1. balance[p] = bal /\ posts[p] = n /\ q - k - lost(p) = q - k
          BY <3>6, <3>7, <3>9, <3>10, <4>1
        <5>2. QED BY <3>7, <3>12, <3>19, <4>1, <5>1
      <4>2. CASE lost(p) # 0
        <5>1. lost(p) = q - k /\ lost(p) > 0 /\ q - k \in Nat BY <3>2, <3>6, <3>8, <4>2
        <5> DEFINE left == q - k
                   v == HalfEven(left * l.cost, Scale)
        <5>2. balance[p] = bal - v /\ posts[p] = n + 1 BY <3>9, <3>10, <5>1
        <5>3. left \in Nat /\ left \in 0..left /\ left - left = 0 BY <5>1
        <5>4. Worth(v, left, l.cost, Scale) BY <3>5, <5>3, RoundedWorth
        <5>5. Within(bal, left, l.cost, slack) BY <3>12
        <5> HIDE DEF left, v
        <5>6. Within(bal - v, left - left, l.cost, slack + Scale)
          BY <3>5, <3>7, <3>19, <5>3, <5>4, <5>5, PostingAway
        <5>7. q - k - lost(p) = left - left BY <5>1, <5>3 DEF left
        <5>8. v \in Nat BY <5>4 DEF Worth
        <5>10. slack + Scale = Scale * posts[p] + fifo
          BY <3>7, <3>17, <3>19, <5>2, ScaleAssumption
        <5>9. QED BY <3>7, <5>1, <5>2, <5>6, <5>7, <5>8, <5>10
      <4>3. QED BY <4>1, <4>2
    <3>14. InTransit(line(p)) = q - k - lost(p)
      BY <3>6, <3>11, <3>13 DEF InTransit
    <3>20. LineSlack(p, line(p), posts[p]) = Scale * posts[p] + fifo
      BY <3>11 DEF LineSlack, fifo
    <3>15. LineValued(p, status, line(p), balance[p], posts[p])
      BY <2>4, <3>5, <3>11, <3>13, <3>14, <3>20 DEF LineValued
    <3>16. QED BY <3>4, <3>15
  <2>6. StocksOK'
    <3> HIDE DEF st, value, new, lines, d, status
    <3>1. DocOK(new) /\ new.status # "POSTED" /\ doc[t].status # "POSTED"
      BY <1>16, <2>1, <2>4 DEF d
    <3>2. DOMAIN stock' = Products /\ DOMAIN inventory' = Products BY <2>1
    <3>3. ASSUME NEW p \in Products
          PROVE  /\ StockOK(p, stock'[p])
                 /\ \E v \in Int : stock'[p].value = stock[p].value + v /\ inventory'[p] = inventory[p] + v
      <4>1. stock'[p] = st(p) /\ inventory'[p] = inventory[p] + value(p) BY <2>1
      <4>2. QED BY <2>5, <4>1
    <3>4. QED BY <1>14, <2>1, <3>1, <3>2, <3>3
  <2>7. DOMAIN balance = Products /\ DOMAIN posts = Products
        /\ \A p \in Products : lines[p] = line(p)
    OBVIOUS
  <2> HIDE DEF balance, posts, lines, new, d, st, value, line, status
  <2>8. \A p \in Products : LineValued(p, new.status, new.lines[p], balance[p], posts[p])
    BY <2>4, <2>5, <2>7
  <2>9. TransitsOK' BY <2>1, <2>3, <2>7, <2>8, OneTransit
  <2>10. QED BY <2>6, <2>9
<1>11. ASSUME NEW t \in Transfers, CancelDispatched(t) PROVE StocksOK' /\ TransitsOK'
  <2> DEFINE d == doc[t]
             back == Taken(d, All)
             value(p) == ValueIn(t, d.from, back, p)
             st(p) == IF back[p] = 0 THEN stock[p] ELSE Arriving(t, d.from, back, p).stock
             line(p) == [d.lines[p] EXCEPT !.got = @ + back[p]]
             lines == [p \in Products |-> line(p)]
             new == [d EXCEPT !.status = "CANCELLED", !.lines = lines]
             balance == [p \in Products |-> transit[t][p] - value(p)]
             posts == [p \in Products |-> IF back[p] > 0 THEN ghost.posts[t][p] + 1
                                          ELSE ghost.posts[t][p]]
  <2>1. /\ DocOK(d) /\ d.status = "DISPATCHED"
        /\ doc' = [doc EXCEPT ![t] = new]
        /\ stock' = [p \in Products |-> st(p)]
        /\ inventory' = [p \in Products |-> inventory[p] + value(p)]
        /\ transit' = [transit EXCEPT ![t] = balance]
        /\ ghost' = [ghost EXCEPT !.posts[t] = posts]
    BY <1>11 DEF DocsOK, CancelDispatched, Arrive
  <2>2. DOMAIN ghost' = GhostFields /\ ghost'.posts = [ghost.posts EXCEPT ![t] = posts]
    <3> HIDE DEF posts
    <3>1. QED BY <2>1 DEF TransitsOK, GhostFields
  <2>3. new.status = "CANCELLED" /\ new.lines = lines BY <2>1 DEF DocOK, DocFields
  <2>4. ASSUME NEW p \in Products
        PROVE  /\ StockOK(p, st(p))
               /\ \E v \in Int : st(p).value = stock[p].value + v /\ inventory[p] + value(p) = inventory[p] + v
               /\ LineValued(p, "CANCELLED", line(p), balance[p], posts[p])
    <3> DEFINE l == d.lines[p]
               q == InTransit(l)
               k == back[p]
    <3>1. LineOK("DISPATCHED", l) /\ LineOK(doc[t].status, doc[t].lines[p])
      BY <2>1 DEF DocOK
    <3>2. k = q BY DEF Taken
    <3>3. LineValued(p, doc[t].status, l, transit[t][p], ghost.posts[t][p])
      BY DEF TransitsOK
    <3>4. q \in Nat /\ q = l.sent - l.got /\ l.sent \in Nat /\ l.got \in Nat
      BY <3>1 DEF LineOK, InTransit
    <3>5. k \in 0..q BY <3>2, <3>4
    <3> DEFINE before == LineSlack(p, l, ghost.posts[t][p])
               slack == before + (IF k > 0 THEN Scale ELSE 0)
    <3>0. before = LineSlack(p, doc[t].lines[p], ghost.posts[t][p]) OBVIOUS
    <3> HIDE DEF before
    <3>6. /\ StockOK(p, st(p)) /\ st(p).value = stock[p].value + value(p)
          /\ value(p) \in Nat
          /\ Within(transit[t][p] - value(p), q - k, l.cost, slack)
      BY <1>0, <2>1, <3>0, <3>1, <3>3, <3>5, ArrivedLine DEF QuantitiesOK, Routed
    <3>7. /\ l.cost \in Nat /\ transit[t][p] \in Int /\ ghost.posts[t][p] \in Nat
          /\ MethodOf[p] = "STANDARD" /\ l.sent # 0 => l.cost = StandardOf[p]
      BY <3>3 DEF LineValued
    <3>8. /\ line(p).cost = l.cost /\ line(p).sent = l.sent /\ line(p).got = l.got + k
      BY <3>1 DEF LineOK, LineFields
    <3>9. posts[p] = ghost.posts[t][p] + (IF k > 0 THEN 1 ELSE 0) /\ posts[p] \in Nat
      BY <3>7
    <3>10. balance[p] = transit[t][p] - value(p) /\ balance[p] \in Int BY <3>6, <3>7
    <3> DEFINE fifo == IF MethodOf[p] = "FIFO" THEN l.sent ELSE 0
    <3>15. fifo \in Int BY <3>4
    <3>16. before = Scale * ghost.posts[t][p] + fifo BY DEF before, LineSlack
    <3>17. slack = Scale * posts[p] + fifo
      BY <3>7, <3>9, <3>15, <3>16, ScaleAssumption
    <3>18. LineSlack(p, line(p), posts[p]) = slack BY <3>8, <3>17 DEF LineSlack
    <3> HIDE DEF balance, posts, line, value, st, back, d, l, q, k, slack, fifo
    <3>11. InTransit(line(p)) = q - k BY <3>2, <3>4, <3>8 DEF InTransit
    <3>12. Within(balance[p], InTransit(line(p)), line(p).cost, slack)
      BY <3>6, <3>8, <3>10, <3>11 DEF q, k, l
    <3>13. LineValued(p, "CANCELLED", line(p), balance[p], posts[p])
      BY <3>7, <3>8, <3>9, <3>10, <3>12, <3>18 DEF LineValued
    <3>14. QED BY <3>6, <3>13
  <2>5. StocksOK'
    <3> HIDE DEF st, value, new, lines, d
    <3>1. DocOK(new) /\ new.status # "POSTED" /\ doc[t].status # "POSTED"
      BY <1>16, <2>1, <2>3 DEF d
    <3>2. DOMAIN stock' = Products /\ DOMAIN inventory' = Products BY <2>1
    <3>3. ASSUME NEW p \in Products
          PROVE  /\ StockOK(p, stock'[p])
                 /\ \E v \in Int : stock'[p].value = stock[p].value + v /\ inventory'[p] = inventory[p] + v
      <4>1. stock'[p] = st(p) /\ inventory'[p] = inventory[p] + value(p) BY <2>1
      <4>2. QED BY <2>4, <4>1
    <3>4. QED BY <1>14, <2>1, <3>1, <3>2, <3>3
  <2>6. DOMAIN balance = Products /\ DOMAIN posts = Products
        /\ \A p \in Products : lines[p] = line(p)
    OBVIOUS
  <2> HIDE DEF balance, posts, lines, new, d, st, value, line
  <2>7. \A p \in Products : LineValued(p, new.status, new.lines[p], balance[p], posts[p])
    BY <2>3, <2>4, <2>6
  <2>8. TransitsOK' BY <2>1, <2>2, <2>6, <2>7, OneTransit
  <2>9. QED BY <2>5, <2>8
<1>12. CASE UNCHANGED vars
  <2>1. UNCHANGED <<stock, doc, inventory, transit, ghost>> BY <1>12 DEF vars
  <2>2. \A p \in Products : LedgerSlack(p)' = LedgerSlack(p)
    BY <2>1 DEF LedgerSlack, PostedApart
  <2>3. StocksOK' BY <1>0, <1>1, <2>1, <2>2 DEF StocksOK
  <2>4. TransitsOK' BY <1>2, <2>1 DEF TransitsOK
  <2>5. QED BY <2>3, <2>4
<1>13. QED
  BY <1>4, <1>5, <1>7, <1>8, <1>9, <1>10, <1>11, <1>12 DEF Next

(* The inductive invariant of the books, whatever the costing methods. *)
BooksOK == QuantitiesOK /\ StocksOK /\ TransitsOK

(* BooksOK holds in every state. *)
LEMMA BooksInvariance == Spec => []BooksOK
<1>1. Init => BooksOK BY InitQuantities, InitValues DEF BooksOK
<1>2. BooksOK /\ [Next]_vars => BooksOK' BY NextQuantities, NextValues DEF BooksOK
<1>3. QED BY <1>1, <1>2, PTL DEF Spec

(* Account 1000 is the inventory subledger, product by product, after any mix of
   receipts, adjustments and transfers: to the cent, but for what one-step transfers
   of FIFO products may leave. *)
THEOREM TransferBooksBalance == Spec => []Reconciled
<1>1. BooksOK => Reconciled BY DEF BooksOK, StocksOK, Apart, Reconciled
<1>2. QED BY BooksInvariance, <1>1, PTL

(* No moving average is negative, so no unit cost and no movement value has the
   wrong sign. *)
THEOREM AveragesStayAmounts == Spec => []AveragesTyped
<1>1. BooksOK => AveragesTyped BY DEF BooksOK, StocksOK, StockOK, AveragesTyped
<1>2. QED BY BooksInvariance, <1>1, PTL

(* Account 1010 is worth what is in transit, at the dispatched cost, to half a cent for
   each posting made to it, and for a FIFO line half a cost unit per unit sent. *)
THEOREM TransitNeverDrifts == Spec => []TransitWithinRounding
<1>1. BooksOK => TransitWithinRounding
  <2> SUFFICES ASSUME TransitsOK, NEW t \in Transfers, NEW p \in Products
               PROVE  LET line  == doc[t].lines[p]
                          drift == Scale * transit[t][p] - InTransit(line) * line.cost
                      IN  2 * drift <= TransitSlack(t, p) /\ -2 * drift <= TransitSlack(t, p)
    BY DEF TransitWithinRounding, BooksOK
  <2>1. Within(transit[t][p], InTransit(doc[t].lines[p]), doc[t].lines[p].cost,
               LineSlack(p, doc[t].lines[p], ghost.posts[t][p]))
    BY DEF TransitsOK, LineValued
  <2>2. TransitSlack(t, p) = LineSlack(p, doc[t].lines[p], ghost.posts[t][p])
    BY DEF TransitSlack, LineSlack
  <2>3. QED BY <2>1, <2>2 DEF Within
<1>2. QED BY BooksInvariance, <1>1, PTL

-----------------------------------------------------------------------------
(* One work order, changed by requests that read first and write later.  Its movements
   are the record: what is left of them is what the line and the order say while requests
   come one at a time, and what they cost is in the accounts however requests overlap. *)

AllIdle == \A c \in Clients : req[c] = Idle
Alone == \A c, d \in Clients : req[c] # Idle /\ req[d] # Idle => c = d
RequestsOK == req = [c \in Clients |-> req[c]] /\ overlaps \in Nat /\ (calm => Alone)

(* No request is under way to begin with. *)
LEMMA RequestsBegin == InitRequests => RequestsOK /\ AllIdle
BY DEF InitRequests, RequestsOK, Alone, calm, AllIdle

(* A request is read in ... *)
LEMMA RequestLoads ==
  ASSUME RequestsOK, NEW c \in Clients, NEW r, req[c] = Idle, req' = [req EXCEPT ![c] = r], Start
  PROVE  /\ RequestsOK' /\ (calm' => calm /\ AllIdle)
         /\ req'[c] = r /\ \A d \in Clients \ {c} : req'[d] = req[d]
BY DEF RequestsOK, Alone, AllIdle, Start, calm

(* ... and carried out. *)
LEMMA RequestEnds ==
  ASSUME RequestsOK, NEW c \in Clients, req' = [req EXCEPT ![c] = Idle], UNCHANGED overlaps
  PROVE  /\ RequestsOK' /\ (calm' => calm) /\ req'[c] = Idle
         /\ \A d \in Clients \ {c} : req'[d] = req[d] /\ (calm /\ req[c] # Idle => req'[d] = Idle)
BY DEF RequestsOK, Alone, calm

OrderRead(r) ==
  /\ r.wo \in WorkOrder /\ r.mat \in WorkOrderMaterial /\ r.hours \in Hours /\ r.booked \in Hours
  /\ r.op \in {"firm", "release", "cancel", "close", "variance", "issue", "complete",
               "scrap_material", "scrap_goods", "reverse", "book"}
  /\ r.qty \in Nat /\ (r.op \in {"issue", "complete", "scrap_material", "scrap_goods", "reverse"} => r.qty > 0)
  /\ r.op = "scrap_material" => r.mat.issued > 0
  /\ r.op = "reverse" =>
       \E o \in OrderMovement : /\ r.orig = {o} /\ r.qty + o.reversed <= o.qty /\ r.move \in DOMAIN moves
                           /\ o.kind = moves[r.move].kind /\ o.qty = moves[r.move].qty
                           /\ o.cost = moves[r.move].cost
OrderWell ==
  /\ wo \in WorkOrder /\ mat \in WorkOrderMaterial /\ moves \in Seq(OrderMovement)
  /\ \A m \in DOMAIN moves : /\ moves[m].reversed <= moves[m].qty
                             /\ moves[m].kind = "ISSUE" => moves[m].cost = ComponentCost
  /\ comp \in Nat /\ fin \in [qty : Nat, avg : Nat] /\ hours \in Hours
  /\ gl \in [WipAccounts -> Int]
OrderReadsWell ==
  /\ RequestsOK /\ overlaps \in 0 .. MaxOverlaps
  /\ \A c \in Clients : req[c] # Idle => OrderRead(req[c])

AccountsFollow == gl["raw_material"] = -Net("ISSUE") /\ gl["finished_goods"] = Net("COMPLETION")
WipFollows == gl["wip"] = (IF wo.cleared THEN 0 ELSE Remaining(wo)) - Restored
UnitsFollow ==
  /\ mat.issued = Left("ISSUE") /\ comp = Stock - mat.issued /\ mat.issued <= Required
  /\ mat.status = "ISSUED" <=> mat.issued = Required
  /\ mat.cost = mat.issued * ComponentCost
  /\ wo.completed = Left("COMPLETION")
StatusFollows ==
  /\ wo.cleared => wo.status = "CLOSED"
  /\ wo.status \in {"PLANNED", "FIRM", "CANCELLED"} => wo.completed = 0 /\ mat.issued = 0
  /\ wo.status = "RELEASED" => wo.completed = 0
  /\ wo.status = "PARTIALLY_COMPLETED" => wo.completed \in 1 .. Quantity - 1
  /\ wo.status \in {"COMPLETED", "CLOSED"} => wo.completed = Quantity
OrderAsRead(r) ==
  IF r.op = "variance" THEN wo.status = "CLOSED" /\ Remaining(r.wo) = Remaining(wo)
  ELSE /\ r.wo = wo /\ r.mat = mat /\ r.hours = hours
       /\ r.op = "firm" => wo.status = "PLANNED"
       /\ r.op = "release" => wo.status \in {"PLANNED", "FIRM"}
       /\ r.op = "cancel" => wo.completed <= 0 /\ mat.issued <= 0
                             /\ wo.status \in {"PLANNED", "FIRM", "RELEASED"}
       /\ r.op = "close" => wo.status = "COMPLETED"
       /\ r.op \in {"issue", "complete", "scrap_material", "scrap_goods", "book"} => wo.status \in Operational
       /\ r.op = "issue" => r.qty <= Required - mat.issued
       /\ r.op = "complete" => wo.completed + r.qty <= Quantity
       /\ r.op = "reverse" => wo.status \notin {"CLOSED", "CANCELLED"} /\ r.orig = {moves[r.move]}
OrderCalm == WipFollows /\ UnitsFollow /\ StatusFollows

WorkOrderInv ==
  /\ OrderWell /\ OrderReadsWell /\ AccountsFollow
  /\ calm => OrderCalm /\ \A c \in Clients : req[c] # Idle => OrderAsRead(req[c])

(* Rounding half up gives a whole number, and keeps the sign. *)
LEMMA RoundsToInteger ==
  ASSUME NEW n \in Int, NEW d \in Nat \ {0}
  PROVE  HalfUp(n, d) \in Int /\ (n >= 0 => HalfUp(n, d) >= 0)
<1>1. \A a \in Int, b \in Nat \ {0} : a \div b \in Int /\ (a >= 0 => a \div b >= 0)
  OBVIOUS
<1>2. 2 * n + d \in Int /\ 2 * (-n) + d \in Int /\ 2 * d \in Nat \ {0} /\ (n >= 0 => 2 * n + d >= 0)
  OBVIOUS
<1>3. (2 * n + d) \div (2 * d) \in Int /\ (2 * (-n) + d) \div (2 * d) \in Int
      /\ (n >= 0 => (2 * n + d) \div (2 * d) >= 0)
  BY <1>1, <1>2
<1> QED BY <1>3 DEF HalfUp, Nearest

(* What a movement counts for, and costs. *)
UnitsOf(m, kind) == IF m.kind = kind THEN m.qty - m.reversed ELSE 0
WorthOf(m, kind) == IF m.kind = kind THEN m.qty * m.cost - m.back ELSE 0
BackOf(m) == IF m.kind = "COMPLETION" THEN m.back ELSE 0

(* Those are numbers, of every movement. *)
LEMMA MovementsCount ==
  ASSUME NEW m \in OrderMovement, NEW kind
  PROVE  UnitsOf(m, kind) \in Int /\ WorthOf(m, kind) \in Int /\ BackOf(m) \in Int
<1>1. m.qty \in Nat /\ m.cost \in Nat /\ m.reversed \in Nat /\ m.back \in Int
  BY DEF OrderMovement
<1>2. m.qty * m.cost \in Nat
  BY <1>1
<1> QED BY <1>1, <1>2 DEF UnitsOf, WorthOf, BackOf

(* The sums over the movements are numbers; what is left of the movements of a kind is
   no less than what is left of one of them. *)
LEMMA MovementSums ==
  ASSUME moves \in Seq(OrderMovement), NEW kind
  PROVE  Left(kind) \in Int /\ Net(kind) \in Int /\ Restored \in Int
<1>1. PICK n \in Nat : DOMAIN moves = 1 .. n /\ IsFiniteSet(1 .. n)
  BY FS_Interval
<1>2. \A m \in 1 .. n : moves[m] \in OrderMovement
  BY <1>1
<1>3. PICK f, g, h : /\ f = [m \in 1 .. n |-> UnitsOf(moves[m], kind)]
                     /\ g = [m \in 1 .. n |-> WorthOf(moves[m], kind)]
                     /\ h = [m \in 1 .. n |-> BackOf(moves[m])]
  OBVIOUS
<1>4. f \in [1 .. n -> Int] /\ g \in [1 .. n -> Int] /\ h \in [1 .. n -> Int]
  BY <1>2, <1>3, MovementsCount
<1>5. SumFunction(f) \in Int /\ SumFunction(g) \in Int /\ SumFunction(h) \in Int
  BY ONLY <1>1, <1>4, SumInteger
<1>6. Left(kind) = SumFunction(f) /\ Net(kind) = SumFunction(g) /\ Restored = SumFunction(h)
  BY <1>1, <1>3 DEF Left, Net, Restored, UnitsOf, WorthOf, BackOf
<1> QED BY <1>5, <1>6

(* What is left of the movements of a kind is at least what is left of one of them. *)
LEMMA LeftBounds ==
  ASSUME OrderWell, NEW kind
  PROVE  Left(kind) \in Nat
         /\ \A m \in DOMAIN moves : moves[m].kind = kind => moves[m].qty - moves[m].reversed <= Left(kind)
<1>1. PICK n \in Nat : DOMAIN moves = 1 .. n /\ IsFiniteSet(1 .. n)
  <2>1. moves \in Seq(OrderMovement)
    BY DEF OrderWell
  <2> QED BY <2>1, FS_Interval
<1>2. \A m \in 1 .. n : moves[m] \in OrderMovement /\ moves[m].reversed <= moves[m].qty
  BY <1>1 DEF OrderWell
<1>3. PICK f : f = [m \in 1 .. n |-> UnitsOf(moves[m], kind)]
  OBVIOUS
<1>4. f \in [1 .. n -> Nat]
  BY <1>2, <1>3 DEF UnitsOf, OrderMovement
<1>5. SumFunction(f) \in Nat /\ \A m \in 1 .. n : f[m] <= SumFunction(f)
  BY ONLY <1>1, <1>4, SumNatural
<1>6. Left(kind) = SumFunction(f)
  BY <1>1, <1>3 DEF Left, UnitsOf
<1> QED BY <1>1, <1>3, <1>5, <1>6 DEF UnitsOf

(* One more movement. *)
LEMMA MovementAdded ==
  ASSUME moves \in Seq(OrderMovement), NEW m \in OrderMovement, moves' = Append(moves, m), NEW kind
  PROVE  /\ Left(kind)' = Left(kind) + UnitsOf(m, kind)
         /\ Net(kind)' = Net(kind) + WorthOf(m, kind)
         /\ Restored' = Restored + BackOf(m)
<1>1. PICK n \in Nat : n = Len(moves) /\ DOMAIN moves = 1 .. n
  OBVIOUS
<1>2. moves' \in Seq(OrderMovement) /\ DOMAIN moves' = 1 .. n + 1 /\ moves'[n + 1] = m
      /\ \A i \in 1 .. n : moves'[i] = moves[i]
  BY <1>1
<1>3. PICK f, g, h : /\ f = [i \in 1 .. n |-> UnitsOf(moves[i], kind)]
                     /\ g = [i \in 1 .. n |-> WorthOf(moves[i], kind)]
                     /\ h = [i \in 1 .. n |-> BackOf(moves[i])]
  OBVIOUS
<1>4. PICK u, v, w : /\ u = [i \in 1 .. n + 1 |-> UnitsOf(moves'[i], kind)]
                     /\ v = [i \in 1 .. n + 1 |-> WorthOf(moves'[i], kind)]
                     /\ w = [i \in 1 .. n + 1 |-> BackOf(moves'[i])]
  OBVIOUS
<1>5. (\A i \in 1 .. n : moves[i] \in OrderMovement) /\ (\A i \in 1 .. n + 1 : moves'[i] \in OrderMovement)
  BY <1>1, <1>2
<1>6. f \in [1 .. n -> Int] /\ g \in [1 .. n -> Int] /\ h \in [1 .. n -> Int]
  BY <1>3, <1>5, MovementsCount
<1>7. u \in [1 .. n + 1 -> Int] /\ v \in [1 .. n + 1 -> Int] /\ w \in [1 .. n + 1 -> Int]
  BY <1>4, <1>5, MovementsCount
<1>8. \A i \in 1 .. n : i \in 1 .. n + 1 /\ f[i] = u[i] /\ g[i] = v[i] /\ h[i] = w[i]
  BY <1>2, <1>3, <1>4
<1>9. /\ SumFunction(u) = SumFunction(f) + u[n + 1] /\ SumFunction(v) = SumFunction(g) + v[n + 1]
      /\ SumFunction(w) = SumFunction(h) + w[n + 1]
  BY ONLY n \in Nat, <1>6, <1>7, <1>8, SumExtend
<1>10. n + 1 \in 1 .. n + 1
  OBVIOUS
<1>11. u[n + 1] = UnitsOf(m, kind) /\ v[n + 1] = WorthOf(m, kind) /\ w[n + 1] = BackOf(m)
  BY <1>2, <1>4, <1>10
<1>12. Left(kind) = SumFunction(f) /\ Net(kind) = SumFunction(g) /\ Restored = SumFunction(h)
  BY <1>1, <1>3 DEF Left, Net, Restored, UnitsOf, WorthOf, BackOf
<1>13. Left(kind)' = SumFunction(u) /\ Net(kind)' = SumFunction(v) /\ Restored' = SumFunction(w)
  BY <1>2, <1>4 DEF Left, Net, Restored, UnitsOf, WorthOf, BackOf
<1> QED BY <1>9, <1>11, <1>12, <1>13

(* One movement changes. *)
LEMMA MovementChanged ==
  ASSUME moves \in Seq(OrderMovement), NEW a \in DOMAIN moves, NEW m \in OrderMovement,
         NEW old \in OrderMovement, moves[a] = old, moves' = [moves EXCEPT ![a] = m], NEW kind
  PROVE  /\ Left(kind)' = Left(kind) + UnitsOf(m, kind) - UnitsOf(old, kind)
         /\ Net(kind)' = Net(kind) + WorthOf(m, kind) - WorthOf(old, kind)
         /\ Restored' = Restored + BackOf(m) - BackOf(old)
<1>1. PICK n \in Nat : n = Len(moves) /\ DOMAIN moves = 1 .. n
  OBVIOUS
<1>f. IsFiniteSet(1 .. n) /\ a \in 1 .. n
  BY <1>1, FS_Interval
<1>2. DOMAIN moves' = 1 .. n /\ moves'[a] = m /\ (\A i \in (1 .. n) \ {a} : moves'[i] = moves[i])
  BY <1>1
<1>3. PICK f, g, h : /\ f = [i \in 1 .. n |-> UnitsOf(moves[i], kind)]
                     /\ g = [i \in 1 .. n |-> WorthOf(moves[i], kind)]
                     /\ h = [i \in 1 .. n |-> BackOf(moves[i])]
  OBVIOUS
<1>4. PICK u, v, w : /\ u = [i \in 1 .. n |-> UnitsOf(moves'[i], kind)]
                     /\ v = [i \in 1 .. n |-> WorthOf(moves'[i], kind)]
                     /\ w = [i \in 1 .. n |-> BackOf(moves'[i])]
  OBVIOUS
<1>5. (\A i \in 1 .. n : moves[i] \in OrderMovement) /\ (\A i \in 1 .. n : moves'[i] \in OrderMovement)
  BY <1>1, <1>2
<1>6. f \in [1 .. n -> Int] /\ g \in [1 .. n -> Int] /\ h \in [1 .. n -> Int]
  BY <1>3, <1>5, MovementsCount
<1>7. u \in [1 .. n -> Int] /\ v \in [1 .. n -> Int] /\ w \in [1 .. n -> Int]
  BY <1>4, <1>5, MovementsCount
<1>8. \A i \in (1 .. n) \ {a} : u[i] = f[i] /\ v[i] = g[i] /\ w[i] = h[i]
  BY <1>2, <1>3, <1>4
<1>9. /\ SumFunction(u) = SumFunction(f) + u[a] - f[a] /\ SumFunction(v) = SumFunction(g) + v[a] - g[a]
      /\ SumFunction(w) = SumFunction(h) + w[a] - h[a]
  BY ONLY <1>f, <1>6, <1>7, <1>8, SumUpdate, ZenonT(60)
<1>10. /\ u[a] = UnitsOf(m, kind) /\ v[a] = WorthOf(m, kind) /\ w[a] = BackOf(m)
       /\ f[a] = UnitsOf(old, kind) /\ g[a] = WorthOf(old, kind) /\ h[a] = BackOf(old)
  BY <1>2, <1>3, <1>4, <1>f
<1>11. Left(kind) = SumFunction(f) /\ Net(kind) = SumFunction(g) /\ Restored = SumFunction(h)
  BY <1>1, <1>3 DEF Left, Net, Restored, UnitsOf, WorthOf, BackOf
<1>12. Left(kind)' = SumFunction(u) /\ Net(kind)' = SumFunction(v) /\ Restored' = SumFunction(w)
  BY <1>2, <1>4 DEF Left, Net, Restored, UnitsOf, WorthOf, BackOf
<1> QED BY <1>9, <1>10, <1>11, <1>12

(* The sums stay while the movements do. *)
LEMMA MovementsStay ==
  ASSUME UNCHANGED moves
  PROVE  /\ \A kind : Left(kind)' = Left(kind) /\ Net(kind)' = Net(kind)
         /\ Restored' = Restored
BY DEF Left, Net, Restored

(* A request reads the order, and changes nothing yet. *)
LEMMA OrderIsRead ==
  ASSUME WorkOrderInv, NEW c \in Clients, NEW op, NEW q, NEW m, NEW booked, ReadOrder(c, op, q, m, booked),
         NEW r, OrderRead(r), calm => OrderAsRead(r),
         r = [op |-> op, qty |-> q, move |-> m, booked |-> booked, wo |-> wo, mat |-> mat, hours |-> hours,
              orig |-> IF m = 0 THEN {} ELSE {moves[m]}]
  PROVE  WorkOrderInv'
<1>1. /\ req[c] = Idle /\ Start /\ req' = [req EXCEPT ![c] = r]
      /\ UNCHANGED <<wo, mat, moves, comp, fin, hours, gl>>
  BY DEF ReadOrder
<1>2. OrderWell /\ OrderReadsWell /\ AccountsFollow
  BY DEF WorkOrderInv
<1>3. /\ RequestsOK' /\ (calm' => calm /\ AllIdle)
      /\ req'[c] = r /\ \A d \in Clients \ {c} : req'[d] = req[d]
  BY <1>1, <1>2, RequestLoads DEF OrderReadsWell
<1>4. OrderWell' /\ AccountsFollow'
  BY <1>1, <1>2, MovementsStay DEF OrderWell, AccountsFollow
<1>5. overlaps' \in 0 .. MaxOverlaps
  BY <1>1, <1>2, OverlapAssumption DEF OrderReadsWell, Start
<1>6. ASSUME NEW d \in Clients, req'[d] # Idle PROVE OrderRead(req[d])'
  <2>1. PICK x : x = req'[d] /\ OrderRead(x)
    BY <1>2, <1>3, <1>6 DEF OrderReadsWell
  <2>2. OrderRead(x)'
    BY <1>1, <2>1 DEF OrderRead
  <2> QED BY <2>1, <2>2
<1>7. ASSUME calm' PROVE OrderCalm' /\ \A d \in Clients : req'[d] # Idle => OrderAsRead(req[d])'
  <2>1. OrderCalm /\ OrderAsRead(r) /\ AllIdle
    BY <1>3, <1>7 DEF WorkOrderInv
  <2>2. OrderCalm'
    BY <1>1, <2>1, MovementsStay DEF OrderCalm, WipFollows, UnitsFollow, StatusFollows, Remaining
  <2>3. OrderAsRead(r)'
    BY <1>1, <2>1 DEF OrderAsRead, Remaining
  <2>4. \A d \in Clients : req'[d] # Idle => req'[d] = r
    BY <1>3, <2>1 DEF AllIdle
  <2> QED BY <2>2, <2>3, <2>4
<1> QED BY <1>3, <1>4, <1>5, <1>6, <1>7 DEF WorkOrderInv, OrderReadsWell

(* The requests of the order's page, as they are read. *)
LEMMA PageKeeps ==
  ASSUME WorkOrderInv, NEW c \in Clients,
         \/ WorkOrderAction(c) \/ WorkOrderRelease(c) \/ WorkOrderIssue(c) \/ WorkOrderComplete(c)
         \/ WorkOrderCorrect(c) \/ WorkOrderBook(c)
  PROVE  WorkOrderInv'
<1>1. wo \in WorkOrder /\ mat \in WorkOrderMaterial /\ hours \in Hours /\ NoHours \in Hours
      /\ moves \in Seq(OrderMovement) /\ comp \in Nat
  BY DEF WorkOrderInv, OrderWell, NoHours, Hours
<1>2. ASSUME NEW op \in {"firm", "release", "cancel", "close"}, LoadOrder(c, op, 0, 0),
             op = "firm" => wo.status = "PLANNED", op = "release" => wo.status \in {"PLANNED", "FIRM"},
             op = "cancel" => wo.completed <= 0 /\ mat.issued <= 0
                              /\ wo.status \in {"PLANNED", "FIRM", "RELEASED"},
             op = "close" => wo.status = "COMPLETED"
      PROVE  WorkOrderInv'
  <2>1. PICK r : r = [op |-> op, qty |-> 0, move |-> 0, booked |-> NoHours, wo |-> wo, mat |-> mat,
                      hours |-> hours, orig |-> {}]
    OBVIOUS
  <2>2. r.op = op /\ r.qty = 0 /\ r.booked = NoHours /\ r.wo = wo /\ r.mat = mat /\ r.hours = hours
    BY <2>1
  <2>3. OrderRead(r) /\ OrderAsRead(r)
    BY <1>1, <1>2, <2>2 DEF OrderRead, OrderAsRead
  <2> QED BY <1>2, <2>1, <2>3, OrderIsRead DEF LoadOrder
<1>3. ASSUME NEW op \in {"issue", "complete", "scrap_material", "scrap_goods"}, NEW q \in Nat \ {0},
             LoadOrder(c, op, q, 0), wo.status \in Operational,
             op = "issue" => q <= Required - mat.issued,
             op = "complete" => wo.completed + q <= Quantity,
             op = "scrap_material" => q <= mat.issued - mat.scrapped
      PROVE  WorkOrderInv'
  <2>1. PICK r : r = [op |-> op, qty |-> q, move |-> 0, booked |-> NoHours, wo |-> wo, mat |-> mat,
                      hours |-> hours, orig |-> {}]
    OBVIOUS
  <2>2. r.op = op /\ r.qty = q /\ r.booked = NoHours /\ r.wo = wo /\ r.mat = mat /\ r.hours = hours
    BY <2>1
  <2>3. op = "scrap_material" => mat.issued > 0
    BY <1>1, <1>3 DEF WorkOrderMaterial
  <2>4. OrderRead(r) /\ OrderAsRead(r)
    BY <1>1, <1>3, <2>2, <2>3 DEF OrderRead, OrderAsRead
  <2> QED BY <1>3, <2>1, <2>4, OrderIsRead DEF LoadOrder
<1>4. CASE WorkOrderAction(c) \/ WorkOrderRelease(c)
  BY <1>2, <1>4 DEF WorkOrderAction, WorkOrderRelease, LoadFirm, LoadCancel, LoadClose, LoadRelease
<1>5. CASE WorkOrderIssue(c)
  <2>1. \A q \in Nat \ {0} : LoadIssue(c, q) => WorkOrderInv'
    BY <1>3 DEF LoadIssue
  <2>2. CASE LoadIssueAll(c)
    <3>1. PICK left, q : left = Required - mat.issued /\ q = Min({left, comp}) /\ q > 0 /\ LoadIssue(c, q)
      BY <2>2 DEF LoadIssueAll
    <3>2. left \in Int
      BY <1>1, <3>1, PlanAssumption DEF WorkOrderMaterial
    <3>3. q \in {left, comp}
      <4>1. \E x \in {left, comp} : \A y \in {left, comp} : x <= y
        BY <1>1, <3>2
      <4> QED BY <3>1, <4>1 DEF Min
    <3>4. q \in Nat \ {0}
      BY <1>1, <3>1, <3>2, <3>3
    <3> QED BY <2>1, <3>1, <3>4
  <2>3. CASE \E q \in 1 .. Required : LoadIssue(c, q)
    BY <2>1, <2>3, PlanAssumption
  <2> QED BY <1>5, <2>2, <2>3 DEF WorkOrderIssue
<1>6. CASE WorkOrderComplete(c)
  BY <1>3, <1>6, PlanAssumption DEF WorkOrderComplete, LoadComplete
<1>7. CASE WorkOrderCorrect(c)
  <2>1. CASE \E q \in 1 .. Required : LoadScrapMaterial(c, q)
    BY <1>3, <2>1, PlanAssumption DEF LoadScrapMaterial
  <2>2. CASE \E q \in 1 .. Quantity : LoadScrapGoods(c, q)
    BY <1>3, <2>2, PlanAssumption DEF LoadScrapGoods
  <2>3. CASE \E m \in 1 .. Len(moves) : \E q \in 1 .. moves[m].qty : LoadReverse(c, m, q)
    <3>1. PICK m \in 1 .. Len(moves) : \E q \in 1 .. moves[m].qty : LoadReverse(c, m, q)
      BY <2>3
    <3>2. PICK q \in 1 .. moves[m].qty : LoadReverse(c, m, q)
      BY <3>1
    <3>3. PICK o \in OrderMovement : o = moves[m]
      BY <1>1
    <3>4. q \in Nat /\ q > 0 /\ q + o.reversed <= o.qty /\ wo.status \notin {"CLOSED", "CANCELLED"}
          /\ LoadOrder(c, "reverse", q, m) /\ m \in DOMAIN moves /\ m # 0
      BY <1>1, <3>2, <3>3 DEF LoadReverse, OrderMovement
    <3>5. PICK r : r = [op |-> "reverse", qty |-> q, move |-> m, booked |-> NoHours, wo |-> wo, mat |-> mat,
                        hours |-> hours, orig |-> {moves[m]}]
      OBVIOUS
    <3>6. r.op = "reverse" /\ r.qty = q /\ r.booked = NoHours /\ r.wo = wo /\ r.mat = mat /\ r.hours = hours
          /\ r.orig = {o} /\ r.move = m
      BY <3>3, <3>5
    <3>7. OrderRead(r)
      BY <1>1, <3>3, <3>4, <3>6 DEF OrderRead
    <3>8. OrderAsRead(r)
      BY <3>3, <3>4, <3>6 DEF OrderAsRead
    <3> QED BY <3>4, <3>5, <3>7, <3>8, OrderIsRead DEF LoadOrder
  <2> QED BY <1>7, <2>1, <2>2, <2>3 DEF WorkOrderCorrect
<1>8. CASE WorkOrderBook(c)
  <2>1. PICK booked \in Bookings : wo.status \in Operational /\ ReadOrder(c, "book", 0, 0, booked)
    BY <1>8 DEF WorkOrderBook, LoadBook
  <2>2. PICK r : r = [op |-> "book", qty |-> 0, move |-> 0, booked |-> booked, wo |-> wo, mat |-> mat,
                      hours |-> hours, orig |-> {}]
    OBVIOUS
  <2>3. r.op = "book" /\ r.qty = 0 /\ r.booked = booked /\ r.wo = wo /\ r.mat = mat /\ r.hours = hours
    BY <2>2
  <2>4. booked \in Hours
    BY PlanAssumption DEF Hours
  <2>5. OrderRead(r) /\ OrderAsRead(r)
    BY <1>1, <2>1, <2>3, <2>4 DEF OrderRead, OrderAsRead
  <2> QED BY <2>1, <2>2, <2>5, OrderIsRead
<1> QED BY <1>4, <1>5, <1>6, <1>7, <1>8

(* An operation is carried out: the other requests know their movement still, and while
   requests come one at a time there are none. *)
LEMMA OrderIsDone ==
  ASSUME WorkOrderInv, NEW c \in Clients, req[c] # Idle, Answer(c),
         OrderWell', AccountsFollow', calm => OrderCalm',
         \A m \in DOMAIN moves : /\ m \in DOMAIN moves' /\ moves'[m].kind = moves[m].kind
                                 /\ moves'[m].qty = moves[m].qty /\ moves'[m].cost = moves[m].cost
  PROVE  WorkOrderInv'
<1>1. OrderReadsWell /\ req' = [req EXCEPT ![c] = Idle] /\ UNCHANGED overlaps
  BY DEF WorkOrderInv, Answer
<1>2. /\ RequestsOK' /\ (calm' => calm) /\ req'[c] = Idle
      /\ \A d \in Clients \ {c} : req'[d] = req[d] /\ (calm /\ req[c] # Idle => req'[d] = Idle)
  BY <1>1, RequestEnds DEF OrderReadsWell
<1>3. ASSUME NEW d \in Clients, req'[d] # Idle PROVE OrderRead(req[d])'
  <2>1. PICK x : x = req'[d] /\ OrderRead(x)
    BY <1>1, <1>2, <1>3 DEF OrderReadsWell
  <2>2. OrderRead(x)'
    BY <2>1 DEF OrderRead
  <2> QED BY <2>1, <2>2
<1>4. calm' => \A d \in Clients : req'[d] = Idle
  BY <1>2
<1> QED BY <1>1, <1>2, <1>3, <1>4 DEF WorkOrderInv, OrderReadsWell

(* A journal puts its amount on both sides, or is not posted. *)
LEMMA JournalPosts ==
  ASSUME NEW before \in [WipAccounts -> Int], NEW debit \in WipAccounts, NEW credit \in WipAccounts,
         debit # credit, NEW amount \in Int, NEW after, after = Posted(before, debit, credit, amount)
  PROVE  /\ after \in [WipAccounts -> Int]
         /\ \A a \in WipAccounts \ {debit, credit} : after[a] = before[a]
         /\ amount >= 0 => after[debit] = before[debit] + amount /\ after[credit] = before[credit] - amount
<1>1. CASE amount <= 0
  BY <1>1 DEF Posted
<1>2. CASE ~ (amount <= 0)
  <2>1. after = [before EXCEPT ![debit] = @ + amount, ![credit] = @ - amount]
    BY <1>2 DEF Posted
  <2>2. \A a \in WipAccounts : after[a] = IF a = credit THEN before[a] - amount
                                          ELSE IF a = debit THEN before[a] + amount ELSE before[a]
    BY <2>1
  <2> QED BY <2>1, <2>2
<1> QED BY <1>1, <1>2

(* What a pending request and the tables are known to be. *)
LEMMA OrderKnown ==
  ASSUME WorkOrderInv, NEW c \in Clients, req[c] # Idle
  PROVE  /\ OrderWell /\ OrderRead(req[c]) /\ AccountsFollow
         /\ calm => OrderCalm /\ OrderAsRead(req[c])
         /\ Left("ISSUE") \in Nat /\ Left("COMPLETION") \in Nat
         /\ Net("ISSUE") \in Int /\ Net("COMPLETION") \in Int /\ Restored \in Int
<1>1. OrderWell
  BY DEF WorkOrderInv
<1>2. moves \in Seq(OrderMovement)
  BY <1>1 DEF OrderWell
<1> QED BY <1>1, <1>2, LeftBounds, MovementSums DEF WorkOrderInv, OrderReadsWell

(* The status is saved. *)
LEMMA StatusKeeps ==
  ASSUME WorkOrderInv, NEW c \in Clients, SaveStatus(c)
  PROVE  WorkOrderInv'
<1>1. PICK r : r = req[c] /\ r # Idle /\ r.op \in {"firm", "release", "cancel"}
  BY DEF SaveStatus
<1>2. /\ OrderWell /\ AccountsFollow /\ (calm => OrderCalm /\ OrderAsRead(r))
      /\ Left("ISSUE") \in Nat /\ Left("COMPLETION") \in Nat
  BY <1>1, OrderKnown
<1>3. PICK status \in {"FIRM", "RELEASED", "CANCELLED"} :
        /\ wo' = [wo EXCEPT !.status = status] /\ (r.op = "firm" <=> status = "FIRM")
        /\ (r.op = "release" <=> status = "RELEASED")
        /\ Answer(c) /\ UNCHANGED <<mat, moves, comp, fin, hours, gl>>
  <2>1. CASE r.op = "firm"
    BY <1>1, <2>1 DEF SaveStatus
  <2>2. CASE r.op = "release"
    BY <1>1, <2>2 DEF SaveStatus
  <2>3. CASE r.op = "cancel"
    BY <1>1, <2>3 DEF SaveStatus
  <2> QED BY <1>1, <2>1, <2>2, <2>3
<1>4. /\ wo' \in WorkOrder /\ wo'.status = status /\ wo'.completed = wo.completed
      /\ wo'.cleared = wo.cleared /\ Remaining(wo') = Remaining(wo)
  BY <1>2, <1>3 DEF OrderWell, WorkOrder, OrderStatuses, Remaining
<1>5. OrderWell' /\ AccountsFollow'
  BY <1>2, <1>3, <1>4, MovementsStay DEF OrderWell, AccountsFollow
<1>6. ASSUME calm PROVE OrderCalm'
  <2>1. OrderCalm /\ OrderAsRead(r)
    BY <1>2, <1>6
  <2>2. WipFollows' /\ UnitsFollow'
    BY <1>3, <1>4, <2>1, MovementsStay DEF OrderCalm, WipFollows, UnitsFollow
  <2>3. StatusFollows'
    BY <1>1, <1>2, <1>3, <1>4, <2>1 DEF OrderCalm, UnitsFollow, StatusFollows, OrderAsRead
  <2> QED BY <2>2, <2>3 DEF OrderCalm
<1> QED BY <1>1, <1>3, <1>5, <1>6, OrderIsDone

(* A line has the status its issued quantity says. *)
LEMMA MaterialStatus ==
  ASSUME NEW row \in WorkOrderMaterial, NEW after, after = WithMaterialStatus(row)
  PROVE  /\ after \in WorkOrderMaterial /\ after.issued = row.issued /\ after.cost = row.cost
         /\ after.scrapped = row.scrapped
         /\ after.status = IF row.issued <= 0 THEN "OPEN"
                           ELSE IF row.issued < Required THEN "PARTIALLY_ISSUED" ELSE "ISSUED"
BY DEF WithMaterialStatus, WorkOrderMaterial

(* Components are issued. *)
LEMMA IssueKeeps ==
  ASSUME WorkOrderInv, NEW c \in Clients, Issue(c)
  PROVE  WorkOrderInv'
<1>1. PICK r : r = req[c] /\ r # Idle /\ r.op = "issue"
  BY DEF Issue, Doing
<1>2. /\ OrderWell /\ OrderRead(r) /\ AccountsFollow /\ (calm => OrderCalm /\ OrderAsRead(r))
      /\ Left("ISSUE") \in Nat /\ Left("COMPLETION") \in Nat
      /\ Net("ISSUE") \in Int /\ Net("COMPLETION") \in Int /\ Restored \in Int
  BY <1>1, OrderKnown
<1>3. PICK q \in Nat, cost \in Nat : q = r.qty /\ q > 0 /\ cost = q * ComponentCost
  <2>1. r.qty \in Nat /\ r.qty > 0 /\ ComponentCost \in Nat
    BY <1>1, <1>2, PlanAssumption DEF OrderRead
  <2>2. r.qty * ComponentCost \in Nat
    BY <2>1
  <2> QED BY <2>1, <2>2
<1>4. PICK new : new = [kind |-> "ISSUE", qty |-> q, cost |-> ComponentCost, reversed |-> 0, back |-> 0]
  OBVIOUS
<1>5. /\ comp >= q /\ comp' = comp - q /\ moves' = Append(moves, new)
      /\ mat' = WithMaterialStatus([mat EXCEPT !.issued = r.mat.issued + q, !.cost = r.mat.cost + cost])
      /\ wo' = [wo EXCEPT !.material = r.wo.material + cost]
      /\ gl' = Posted(gl, "wip", "raw_material", cost)
      /\ Answer(c) /\ UNCHANGED <<fin, hours>>
  BY <1>1, <1>3, <1>4 DEF Issue, PostIssue
<1>6. new \in OrderMovement /\ new.kind = "ISSUE" /\ new.qty = q /\ new.cost = ComponentCost
      /\ new.reversed = 0 /\ new.back = 0
  BY <1>3, <1>4, PlanAssumption DEF OrderMovement
<1>7. /\ Left("ISSUE")' = Left("ISSUE") + q /\ Left("COMPLETION")' = Left("COMPLETION")
      /\ Net("ISSUE")' = Net("ISSUE") + cost /\ Net("COMPLETION")' = Net("COMPLETION")
      /\ Restored' = Restored
  <2>1. moves \in Seq(OrderMovement)
    BY <1>2 DEF OrderWell
  <2>2. /\ UnitsOf(new, "ISSUE") = q /\ UnitsOf(new, "COMPLETION") = 0 /\ BackOf(new) = 0
        /\ WorthOf(new, "ISSUE") = cost /\ WorthOf(new, "COMPLETION") = 0
    BY <1>3, <1>6 DEF UnitsOf, WorthOf, BackOf
  <2> QED BY <1>2, <1>5, <1>6, <2>1, <2>2, MovementAdded
<1>8. /\ gl' \in [WipAccounts -> Int] /\ gl'["wip"] = gl["wip"] + cost
      /\ gl'["raw_material"] = gl["raw_material"] - cost /\ gl'["finished_goods"] = gl["finished_goods"]
  <2>1. gl \in [WipAccounts -> Int] /\ "wip" \in WipAccounts /\ "raw_material" \in WipAccounts
        /\ "finished_goods" \in WipAccounts
    BY <1>2 DEF OrderWell, WipAccounts
  <2>2. PICK before, after : before = gl /\ after = gl'
    OBVIOUS
  <2>3. PICK debit \in WipAccounts, credit \in WipAccounts : debit = "wip" /\ credit = "raw_material" /\ debit # credit
    BY <2>1
  <2>4. cost \in Int /\ cost >= 0 /\ before \in [WipAccounts -> Int] /\ after = Posted(before, debit, credit, cost)
    BY <1>3, <1>5, <2>1, <2>2, <2>3
  <2>5. /\ after \in [WipAccounts -> Int]
        /\ \A a \in WipAccounts \ {debit, credit} : after[a] = before[a]
        /\ after[debit] = before[debit] + cost /\ after[credit] = before[credit] - cost
    BY <2>3, <2>4, JournalPosts
  <2> QED BY <2>1, <2>2, <2>3, <2>5
<1>9. /\ wo' \in WorkOrder /\ wo'.status = wo.status /\ wo'.completed = wo.completed
      /\ wo'.cleared = wo.cleared /\ (r.wo = wo => Remaining(wo') = Remaining(wo) + cost)
      /\ Remaining(wo) \in Int
  <2>1. wo \in WorkOrder /\ r.wo \in WorkOrder
    BY <1>2 DEF OrderWell, OrderRead
  <2>2. PICK material \in Int : material = r.wo.material + cost
    BY <1>3, <2>1 DEF WorkOrder
  <2>3. wo' = [wo EXCEPT !.material = material]
    BY <1>5, <2>2
  <2> QED BY <1>3, <2>1, <2>2, <2>3 DEF WorkOrder, Remaining
<1>10. /\ mat' \in WorkOrderMaterial /\ mat'.issued = r.mat.issued + q /\ mat'.cost = r.mat.cost + cost
       /\ mat'.status = IF mat'.issued <= 0 THEN "OPEN"
                        ELSE IF mat'.issued < Required THEN "PARTIALLY_ISSUED" ELSE "ISSUED"
  <2>1. mat \in WorkOrderMaterial /\ r.mat \in WorkOrderMaterial
    BY <1>2 DEF OrderWell, OrderRead
  <2>2. PICK issued \in Int, paid \in Int : issued = r.mat.issued + q /\ paid = r.mat.cost + cost
    BY <1>3, <2>1 DEF WorkOrderMaterial
  <2>3. mat' = WithMaterialStatus([mat EXCEPT !.issued = issued, !.cost = paid])
    BY <1>5, <2>2
  <2>4. PICK row : row = [mat EXCEPT !.issued = issued, !.cost = paid]
    OBVIOUS
  <2>5. row \in WorkOrderMaterial /\ row.issued = issued /\ row.cost = paid
    BY <2>1, <2>2, <2>4 DEF WorkOrderMaterial
  <2>6. PICK after : after = mat' /\ after = WithMaterialStatus(row)
    BY <2>3, <2>4
  <2>7. /\ after \in WorkOrderMaterial /\ after.issued = issued /\ after.cost = paid
        /\ after.status = IF issued <= 0 THEN "OPEN"
                          ELSE IF issued < Required THEN "PARTIALLY_ISSUED" ELSE "ISSUED"
    BY <2>5, <2>6, MaterialStatus
  <2> QED BY <2>2, <2>6, <2>7
<1>11. \A m \in DOMAIN moves : m \in DOMAIN moves' /\ moves'[m] = moves[m]
  BY <1>2, <1>5 DEF OrderWell
<1>12. OrderWell'
  <2>1. moves' \in Seq(OrderMovement)
    BY <1>2, <1>5, <1>6 DEF OrderWell
  <2>2. \A m \in DOMAIN moves' : /\ moves'[m].reversed <= moves'[m].qty
                                 /\ moves'[m].kind = "ISSUE" => moves'[m].cost = ComponentCost
    BY <1>2, <1>3, <1>5, <1>6 DEF OrderWell
  <2>3. comp' \in Nat
    BY <1>2, <1>3, <1>5 DEF OrderWell
  <2> QED BY <1>2, <1>5, <1>8, <1>9, <1>10, <2>1, <2>2, <2>3 DEF OrderWell
<1>13. AccountsFollow'
  BY <1>2, <1>7, <1>8 DEF AccountsFollow
<1>14. ASSUME calm PROVE OrderCalm'
  <2>1. OrderCalm /\ r.wo = wo /\ r.mat = mat /\ wo.status \in Operational /\ q <= Required - mat.issued
    BY <1>1, <1>2, <1>3, <1>14 DEF OrderAsRead
  <2>2. mat.issued \in Nat /\ gl["wip"] \in Int
    BY <1>2, <2>1 DEF OrderCalm, UnitsFollow, OrderWell, WipAccounts
  <2>3. WipFollows'
    BY <1>2, <1>7, <1>8, <1>9, <2>1, <2>2 DEF OrderCalm, WipFollows, StatusFollows, Operational
  <2>4. mat'.cost = mat'.issued * ComponentCost
    <3>1. mat.cost = mat.issued * ComponentCost /\ ComponentCost \in Nat
      BY <2>1, PlanAssumption DEF OrderCalm, UnitsFollow
    <3>2. (mat.issued + q) * ComponentCost = mat.issued * ComponentCost + q * ComponentCost
      BY <1>3, <2>2, <3>1
    <3> QED BY <1>3, <1>10, <2>1, <3>1, <3>2
  <2>5. UnitsFollow'
    <3>1. mat'.issued = Left("ISSUE")' /\ comp' = Stock - mat'.issued /\ mat'.issued <= Required
      <4>1. mat.issued = Left("ISSUE") /\ comp = Stock - mat.issued /\ mat'.issued = mat.issued + q
            /\ Left("ISSUE")' = Left("ISSUE") + q /\ comp' = comp - q
        BY <1>5, <1>7, <1>10, <2>1 DEF OrderCalm, UnitsFollow
      <4>2. Stock \in Nat /\ Required \in Nat
        BY PlanAssumption
      <4> QED BY <2>1, <2>2, <4>1, <4>2
    <3>2. mat'.status = "ISSUED" <=> mat'.issued = Required
      BY <1>3, <1>10, <2>1, <2>2, <3>1, PlanAssumption
    <3>3. wo'.completed = Left("COMPLETION")'
      BY <1>7, <1>9, <2>1 DEF OrderCalm, UnitsFollow
    <3> QED BY <2>4, <3>1, <3>2, <3>3 DEF UnitsFollow
  <2>6. StatusFollows'
    BY <1>9, <2>1 DEF OrderCalm, StatusFollows, Operational
  <2> QED BY <2>3, <2>5, <2>6 DEF OrderCalm
<1> QED BY <1>1, <1>5, <1>11, <1>12, <1>13, <1>14, OrderIsDone

(* The cost of a completed unit is an amount. *)
LEMMA CompletionCost ==
  ASSUME NEW w \in WorkOrder
  PROVE  CompletionUnitCost(w) \in Nat /\ Remaining(w) \in Int
<1>1. Remaining(w) \in Int /\ w.completed \in Int
  BY DEF WorkOrder, Remaining
<1>2. CASE Remaining(w) > 0 /\ Quantity > w.completed
  <2>1. PICK n \in Int, d \in Nat \ {0} : n = Remaining(w) /\ d = Quantity - w.completed
    BY <1>1, <1>2, PlanAssumption
  <2>2. HalfUp(n, d) \in Nat
    BY <1>2, <2>1, RoundsToInteger
  <2> QED BY <1>1, <1>2, <2>1, <2>2 DEF CompletionUnitCost
<1>3. CASE ~ (Remaining(w) > 0 /\ Quantity > w.completed)
  BY <1>1, <1>3, PlanAssumption DEF CompletionUnitCost
<1> QED BY <1>2, <1>3

(* Units are completed. *)
LEMMA CompleteKeeps ==
  ASSUME WorkOrderInv, NEW c \in Clients, Complete(c)
  PROVE  WorkOrderInv'
<1>1. PICK r : r = req[c] /\ r # Idle /\ r.op = "complete"
  BY DEF Complete, Doing
<1>2. /\ OrderWell /\ OrderRead(r) /\ AccountsFollow /\ (calm => OrderCalm /\ OrderAsRead(r))
      /\ Left("ISSUE") \in Nat /\ Left("COMPLETION") \in Nat
      /\ Net("ISSUE") \in Int /\ Net("COMPLETION") \in Int /\ Restored \in Int
  BY <1>1, OrderKnown
<1>3. PICK q \in Nat, unit \in Nat, cost \in Nat :
        q = r.qty /\ q > 0 /\ unit = CompletionUnitCost(r.wo) /\ cost = q * unit
  <2>1. r.qty \in Nat /\ r.qty > 0 /\ r.wo \in WorkOrder
    BY <1>1, <1>2 DEF OrderRead
  <2>2. CompletionUnitCost(r.wo) \in Nat
    BY <2>1, CompletionCost
  <2>3. r.qty * CompletionUnitCost(r.wo) \in Nat
    BY <2>1, <2>2
  <2> QED BY <2>1, <2>2, <2>3
<1>4. PICK new : new = [kind |-> "COMPLETION", qty |-> q, cost |-> unit, reversed |-> 0, back |-> 0]
  OBVIOUS
<1>5. /\ moves' = Append(moves, new)
      /\ fin' = [qty |-> fin.qty + q, avg |-> HalfUp(fin.qty * fin.avg + cost, fin.qty + q)]
      /\ wo' = [wo EXCEPT !.completed = r.wo.completed + q, !.goods = r.wo.goods + cost,
                          !.status = Progress(r.wo.completed + q)]
      /\ gl' = Posted(gl, "finished_goods", "wip", cost)
      /\ Answer(c) /\ UNCHANGED <<mat, comp, hours>>
  BY <1>1, <1>3, <1>4 DEF Complete, PostCompletion
<1>6. new \in OrderMovement /\ new.kind = "COMPLETION" /\ new.qty = q /\ new.cost = unit
      /\ new.reversed = 0 /\ new.back = 0
  BY <1>3, <1>4 DEF OrderMovement
<1>7. /\ Left("COMPLETION")' = Left("COMPLETION") + q /\ Left("ISSUE")' = Left("ISSUE")
      /\ Net("COMPLETION")' = Net("COMPLETION") + cost /\ Net("ISSUE")' = Net("ISSUE")
      /\ Restored' = Restored
  <2>1. moves \in Seq(OrderMovement)
    BY <1>2 DEF OrderWell
  <2>2. /\ UnitsOf(new, "COMPLETION") = q /\ UnitsOf(new, "ISSUE") = 0 /\ BackOf(new) = 0
        /\ WorthOf(new, "COMPLETION") = cost /\ WorthOf(new, "ISSUE") = 0
    BY <1>3, <1>6 DEF UnitsOf, WorthOf, BackOf
  <2> QED BY <1>2, <1>5, <1>6, <2>1, <2>2, MovementAdded
<1>8. /\ gl' \in [WipAccounts -> Int] /\ gl'["wip"] = gl["wip"] - cost
      /\ gl'["finished_goods"] = gl["finished_goods"] + cost /\ gl'["raw_material"] = gl["raw_material"]
  <2>1. gl \in [WipAccounts -> Int] /\ "wip" \in WipAccounts /\ "raw_material" \in WipAccounts
        /\ "finished_goods" \in WipAccounts
    BY <1>2 DEF OrderWell, WipAccounts
  <2>2. PICK before, after : before = gl /\ after = gl'
    OBVIOUS
  <2>3. PICK debit \in WipAccounts, credit \in WipAccounts : debit = "finished_goods" /\ credit = "wip" /\ debit # credit
    BY <2>1
  <2>4. cost \in Int /\ cost >= 0 /\ before \in [WipAccounts -> Int] /\ after = Posted(before, debit, credit, cost)
    BY <1>3, <1>5, <2>1, <2>2, <2>3
  <2>5. /\ after \in [WipAccounts -> Int]
        /\ \A a \in WipAccounts \ {debit, credit} : after[a] = before[a]
        /\ after[debit] = before[debit] + cost /\ after[credit] = before[credit] - cost
    BY <2>3, <2>4, JournalPosts
  <2> QED BY <2>1, <2>2, <2>3, <2>5
<1>9. /\ wo' \in WorkOrder /\ wo'.status = Progress(r.wo.completed + q) /\ wo'.completed = r.wo.completed + q
      /\ wo'.cleared = wo.cleared /\ (r.wo = wo => Remaining(wo') = Remaining(wo) - cost)
      /\ Remaining(wo) \in Int /\ wo.completed \in Int
  <2>1. wo \in WorkOrder /\ r.wo \in WorkOrder
    BY <1>2 DEF OrderWell, OrderRead
  <2>2. PICK done \in Int, goods \in Int, status \in OrderStatuses :
          done = r.wo.completed + q /\ goods = r.wo.goods + cost /\ status = Progress(r.wo.completed + q)
    <3>1. r.wo.completed + q \in Int /\ r.wo.goods + cost \in Int
      BY <1>3, <2>1 DEF WorkOrder
    <3>2. Progress(r.wo.completed + q) \in OrderStatuses
      BY DEF Progress, OrderStatuses
    <3> QED BY <3>1, <3>2
  <2>3. wo' = [wo EXCEPT !.completed = done, !.goods = goods, !.status = status]
    BY <1>5, <2>2
  <2>4. /\ wo' \in WorkOrder /\ wo'.completed = done /\ wo'.goods = goods /\ wo'.status = status
        /\ wo'.material = wo.material /\ wo'.labour = wo.labour /\ wo'.overhead = wo.overhead
        /\ wo'.cleared = wo.cleared
    BY <2>1, <2>2, <2>3 DEF WorkOrder
  <2> QED BY <1>3, <2>1, <2>2, <2>4 DEF WorkOrder, Remaining
<1>10. fin' \in [qty : Nat, avg : Nat]
  <2>1. fin.qty \in Nat /\ fin.avg \in Nat
    BY <1>2 DEF OrderWell
  <2>2. fin.qty * fin.avg \in Nat
    BY <2>1
  <2>3. PICK n \in Int, d \in Nat \ {0} : n = fin.qty * fin.avg + cost /\ n >= 0 /\ d = fin.qty + q
    BY <1>3, <2>1, <2>2
  <2>4. HalfUp(n, d) \in Nat
    BY <2>3, RoundsToInteger
  <2> QED BY <1>5, <2>3, <2>4
<1>11. \A m \in DOMAIN moves : m \in DOMAIN moves' /\ moves'[m] = moves[m]
  BY <1>2, <1>5 DEF OrderWell
<1>12. OrderWell'
  <2>1. moves' \in Seq(OrderMovement)
    BY <1>2, <1>5, <1>6 DEF OrderWell
  <2>2. \A m \in DOMAIN moves' : /\ moves'[m].reversed <= moves'[m].qty
                                 /\ moves'[m].kind = "ISSUE" => moves'[m].cost = ComponentCost
    <3>1. ASSUME NEW m \in DOMAIN moves' PROVE m \in DOMAIN moves \/ moves'[m] = new
      <4>1. moves \in Seq(OrderMovement) /\ moves' = Append(moves, new)
        BY <1>2, <1>5 DEF OrderWell
      <4> QED BY <4>1
    <3> QED BY <1>2, <1>3, <1>6, <1>11, <3>1 DEF OrderWell
  <2> QED BY <1>2, <1>5, <1>8, <1>9, <1>10, <2>1, <2>2 DEF OrderWell
<1>13. AccountsFollow'
  BY <1>2, <1>7, <1>8 DEF AccountsFollow
<1>14. ASSUME calm PROVE OrderCalm'
  <2>1. OrderCalm /\ r.wo = wo /\ wo.status \in Operational /\ wo.completed + q <= Quantity
    BY <1>1, <1>2, <1>3, <1>14 DEF OrderAsRead
  <2>2. wo.completed \in Nat /\ gl["wip"] \in Int
    BY <1>2, <2>1 DEF OrderCalm, UnitsFollow, OrderWell, WipAccounts
  <2>3. WipFollows'
    BY <1>2, <1>7, <1>8, <1>9, <2>1, <2>2 DEF OrderCalm, WipFollows, StatusFollows, Operational
  <2>4. UnitsFollow'
    BY <1>2, <1>5, <1>7, <1>9, <2>1 DEF OrderCalm, UnitsFollow
  <2>5. StatusFollows'
    <3>1. ~ wo'.cleared /\ wo'.completed \in Nat \ {0} /\ wo'.completed <= Quantity
      BY <1>3, <1>9, <2>1, <2>2 DEF OrderCalm, StatusFollows, Operational
    <3>2. wo'.status = IF wo'.completed >= Quantity THEN "COMPLETED" ELSE "PARTIALLY_COMPLETED"
      BY <1>9, <2>1 DEF Progress
    <3> QED BY <3>1, <3>2, PlanAssumption DEF StatusFollows
  <2> QED BY <2>3, <2>4, <2>5 DEF OrderCalm
<1> QED BY <1>1, <1>5, <1>11, <1>12, <1>13, <1>14, OrderIsDone

(* Material is scrapped: its share of what the line cost leaves WIP. *)
LEMMA ScrapMaterialKeeps ==
  ASSUME WorkOrderInv, NEW c \in Clients, ScrapMaterial(c)
  PROVE  WorkOrderInv'
<1>1. PICK r : r = req[c] /\ r # Idle /\ r.op = "scrap_material"
  BY DEF ScrapMaterial, Doing
<1>2. /\ OrderWell /\ OrderRead(r) /\ AccountsFollow /\ (calm => OrderCalm /\ OrderAsRead(r))
      /\ Left("ISSUE") \in Nat /\ Restored \in Int
  BY <1>1, OrderKnown
<1>3. PICK q \in Nat, issued \in Nat \ {0}, paid \in Int : q = r.qty /\ issued = r.mat.issued /\ paid = r.mat.cost
  BY <1>1, <1>2 DEF OrderRead, WorkOrderMaterial
<1>4. PICK value \in Int : value = HalfUp(r.mat.cost * r.qty, r.mat.issued) /\ (paid >= 0 => value >= 0)
  <2>1. paid * q \in Int /\ (paid >= 0 => paid * q >= 0)
    OBVIOUS
  <2> QED BY <1>3, <2>1, RoundsToInteger
<1>5. /\ mat' = [mat EXCEPT !.scrapped = r.mat.scrapped + q]
      /\ wo' = [wo EXCEPT !.material = r.wo.material - value]
      /\ gl' = Posted(gl, "variance", "wip", value)
      /\ Answer(c) /\ UNCHANGED <<moves, comp, fin, hours>>
  BY <1>1, <1>3, <1>4 DEF ScrapMaterial, PostMaterialScrap
<1>6. /\ wo' \in WorkOrder /\ wo'.status = wo.status /\ wo'.completed = wo.completed
      /\ wo'.cleared = wo.cleared /\ (r.wo = wo => Remaining(wo') = Remaining(wo) - value)
      /\ Remaining(wo) \in Int
  <2>1. wo \in WorkOrder /\ r.wo \in WorkOrder
    BY <1>2 DEF OrderWell, OrderRead
  <2>2. PICK material \in Int : material = r.wo.material - value
    BY <2>1 DEF WorkOrder
  <2>3. wo' = [wo EXCEPT !.material = material]
    BY <1>5, <2>2
  <2> QED BY <2>1, <2>2, <2>3 DEF WorkOrder, Remaining
<1>7. mat' \in WorkOrderMaterial /\ mat'.issued = mat.issued /\ mat'.cost = mat.cost /\ mat'.status = mat.status
  <2>1. mat \in WorkOrderMaterial /\ r.mat \in WorkOrderMaterial
    BY <1>2 DEF OrderWell, OrderRead
  <2>2. PICK lost \in Nat : lost = r.mat.scrapped + q
    BY <2>1 DEF WorkOrderMaterial
  <2>3. mat' = [mat EXCEPT !.scrapped = lost]
    BY <1>5, <2>2
  <2> QED BY <2>1, <2>3 DEF WorkOrderMaterial
<1>8. /\ gl' \in [WipAccounts -> Int] /\ gl'["raw_material"] = gl["raw_material"]
      /\ gl'["finished_goods"] = gl["finished_goods"] /\ (value >= 0 => gl'["wip"] = gl["wip"] - value)
      /\ gl["wip"] \in Int
  <2>1. gl \in [WipAccounts -> Int] /\ {"wip", "raw_material", "finished_goods", "variance"} \subseteq WipAccounts
    BY <1>2 DEF OrderWell, WipAccounts
  <2>2. PICK before, after : before = gl /\ after = gl'
    OBVIOUS
  <2>3. PICK debit \in WipAccounts, credit \in WipAccounts : debit = "variance" /\ credit = "wip" /\ debit # credit
    BY <2>1
  <2>4. before \in [WipAccounts -> Int] /\ after = Posted(before, debit, credit, value)
    BY <1>5, <2>1, <2>2, <2>3
  <2>5. /\ after \in [WipAccounts -> Int]
        /\ \A a \in WipAccounts \ {debit, credit} : after[a] = before[a]
        /\ value >= 0 => after[credit] = before[credit] - value
    BY <2>3, <2>4, JournalPosts
  <2> QED BY <2>1, <2>2, <2>3, <2>5
<1>9. OrderWell'
  BY <1>2, <1>5, <1>6, <1>7, <1>8 DEF OrderWell
<1>10. AccountsFollow'
  BY <1>2, <1>5, <1>8, MovementsStay DEF AccountsFollow
<1>11. ASSUME calm PROVE OrderCalm'
  <2>1. OrderCalm /\ r.wo = wo /\ r.mat = mat /\ wo.status \in Operational
    BY <1>1, <1>2, <1>11 DEF OrderAsRead
  <2>2. paid >= 0
    <3>1. paid = issued * ComponentCost /\ ComponentCost \in Nat
      BY <1>3, <2>1, PlanAssumption DEF OrderCalm, UnitsFollow
    <3> QED BY <3>1
  <2>3. WipFollows'
    BY <1>2, <1>4, <1>5, <1>6, <1>8, <2>1, <2>2, MovementsStay
       DEF OrderCalm, WipFollows, StatusFollows, Operational
  <2>4. UnitsFollow'
    BY <1>5, <1>6, <1>7, <2>1, MovementsStay DEF OrderCalm, UnitsFollow
  <2>5. StatusFollows'
    BY <1>6, <1>7, <2>1 DEF OrderCalm, StatusFollows
  <2> QED BY <2>3, <2>4, <2>5 DEF OrderCalm
<1> QED BY <1>1, <1>5, <1>9, <1>10, <1>11, OrderIsDone

(* Finished units are scrapped before they are stock. *)
LEMMA ScrapGoodsKeeps ==
  ASSUME WorkOrderInv, NEW c \in Clients, ScrapGoods(c)
  PROVE  WorkOrderInv'
<1>1. PICK r : r = req[c] /\ r # Idle /\ r.op = "scrap_goods"
  BY DEF ScrapGoods, Doing
<1>2. /\ OrderWell /\ OrderRead(r) /\ AccountsFollow /\ (calm => OrderCalm /\ OrderAsRead(r))
      /\ Restored \in Int
  BY <1>1, OrderKnown
<1>3. PICK q \in Nat, value \in Nat : q = r.qty /\ value = r.qty * CompletionUnitCost(r.wo)
  <2>1. r.qty \in Nat /\ r.wo \in WorkOrder
    BY <1>2 DEF OrderRead
  <2>2. CompletionUnitCost(r.wo) \in Nat
    BY <2>1, CompletionCost
  <2>3. r.qty * CompletionUnitCost(r.wo) \in Nat
    BY <2>1, <2>2
  <2> QED BY <2>1, <2>3
<1>5. /\ wo' = [wo EXCEPT !.scrapped = r.wo.scrapped + q, !.material = r.wo.material - value]
      /\ gl' = Posted(gl, "variance", "wip", value)
      /\ Answer(c) /\ UNCHANGED <<mat, moves, comp, fin, hours>>
  BY <1>1, <1>3 DEF ScrapGoods, PostGoodsScrap
<1>6. /\ wo' \in WorkOrder /\ wo'.status = wo.status /\ wo'.completed = wo.completed
      /\ wo'.cleared = wo.cleared /\ (r.wo = wo => Remaining(wo') = Remaining(wo) - value)
      /\ Remaining(wo) \in Int
  <2>1. wo \in WorkOrder /\ r.wo \in WorkOrder
    BY <1>2 DEF OrderWell, OrderRead
  <2>2. PICK material \in Int, lost \in Nat : material = r.wo.material - value /\ lost = r.wo.scrapped + q
    BY <1>3, <2>1 DEF WorkOrder
  <2>3. wo' = [wo EXCEPT !.scrapped = lost, !.material = material]
    BY <1>5, <2>2
  <2>4. /\ wo' \in WorkOrder /\ wo'.status = wo.status /\ wo'.completed = wo.completed
        /\ wo'.cleared = wo.cleared /\ wo'.material = material /\ wo'.labour = wo.labour
        /\ wo'.overhead = wo.overhead /\ wo'.goods = wo.goods
    BY <2>1, <2>2, <2>3 DEF WorkOrder
  <2>5. wo.material \in Int /\ wo.labour \in Nat /\ wo.overhead \in Nat /\ wo.goods \in Int
    BY <2>1 DEF WorkOrder
  <2> QED BY <1>3, <2>2, <2>4, <2>5 DEF Remaining
<1>8. /\ gl' \in [WipAccounts -> Int] /\ gl'["raw_material"] = gl["raw_material"]
      /\ gl'["finished_goods"] = gl["finished_goods"] /\ gl'["wip"] = gl["wip"] - value
      /\ gl["wip"] \in Int
  <2>1. gl \in [WipAccounts -> Int] /\ {"wip", "raw_material", "finished_goods", "variance"} \subseteq WipAccounts
    BY <1>2 DEF OrderWell, WipAccounts
  <2>2. PICK before, after : before = gl /\ after = gl'
    OBVIOUS
  <2>3. PICK debit \in WipAccounts, credit \in WipAccounts : debit = "variance" /\ credit = "wip" /\ debit # credit
    BY <2>1
  <2>4. before \in [WipAccounts -> Int] /\ after = Posted(before, debit, credit, value) /\ value \in Int /\ value >= 0
    BY <1>3, <1>5, <2>1, <2>2, <2>3
  <2>5. /\ after \in [WipAccounts -> Int]
        /\ \A a \in WipAccounts \ {debit, credit} : after[a] = before[a]
        /\ after[credit] = before[credit] - value
    BY <2>3, <2>4, JournalPosts
  <2> QED BY <2>1, <2>2, <2>3, <2>5
<1>9. OrderWell'
  BY <1>2, <1>5, <1>6, <1>8 DEF OrderWell
<1>10. AccountsFollow'
  BY <1>2, <1>5, <1>8, MovementsStay DEF AccountsFollow
<1>11. ASSUME calm PROVE OrderCalm'
  <2>1. OrderCalm /\ r.wo = wo /\ wo.status \in Operational
    BY <1>1, <1>2, <1>11 DEF OrderAsRead
  <2>2. WipFollows'
    BY <1>2, <1>3, <1>5, <1>6, <1>8, <2>1, MovementsStay
       DEF OrderCalm, WipFollows, StatusFollows, Operational
  <2>3. UnitsFollow'
    BY <1>5, <1>6, <2>1, MovementsStay DEF OrderCalm, UnitsFollow
  <2>4. StatusFollows'
    BY <1>5, <1>6, <2>1 DEF OrderCalm, StatusFollows
  <2> QED BY <2>2, <2>3, <2>4 DEF OrderCalm
<1> QED BY <1>1, <1>5, <1>9, <1>10, <1>11, OrderIsDone

(* What a reversal marks on its movement. *)
LEMMA MarkChanges ==
  ASSUME OrderWell, NEW c \in Clients, OrderRead(req[c]), req[c].op = "reverse", NEW value \in Int,
         MarkReversed(c, value)
  PROVE  \E o \in OrderMovement, old \in OrderMovement :
           /\ req[c].orig = {o} /\ o = Original(c) /\ old = moves[req[c].move] /\ req[c].move \in DOMAIN moves
           /\ o.kind = old.kind /\ (o.kind = "ISSUE" => o.cost = ComponentCost)
           /\ req[c].qty + o.reversed <= o.qty /\ old.reversed <= old.qty
           /\ moves' \in Seq(OrderMovement)
           /\ \A m \in DOMAIN moves' : /\ moves'[m].reversed <= moves'[m].qty
                                       /\ moves'[m].kind = "ISSUE" => moves'[m].cost = ComponentCost
           /\ \A m \in DOMAIN moves : /\ m \in DOMAIN moves' /\ moves'[m].kind = moves[m].kind
                                      /\ moves'[m].qty = moves[m].qty /\ moves'[m].cost = moves[m].cost
           /\ \A kind \in {"ISSUE", "COMPLETION"} :
                /\ Left(kind)' = Left(kind) + IF o.kind = kind THEN old.reversed - (o.reversed + req[c].qty) ELSE 0
                /\ Net(kind)' = Net(kind) - IF o.kind = kind THEN value ELSE 0
           /\ Restored' = Restored + IF o.kind = "COMPLETION" THEN value ELSE 0
<1>1. PICK r : r = req[c] /\ r.op = "reverse" /\ OrderRead(r)
  OBVIOUS
<1>2. PICK o \in OrderMovement : /\ r.orig = {o} /\ r.qty + o.reversed <= o.qty /\ r.move \in DOMAIN moves
                            /\ o.kind = moves[r.move].kind /\ o.qty = moves[r.move].qty
                            /\ o.cost = moves[r.move].cost
  BY <1>1 DEF OrderRead
<1>3. o = Original(c) /\ moves \in Seq(OrderMovement) /\ r.qty \in Nat
  BY <1>1, <1>2 DEF Original, OrderWell, OrderRead
<1>4. PICK a \in DOMAIN moves : a = r.move
  BY <1>2
<1>5. PICK old \in OrderMovement : old = moves[a]
  BY <1>3
<1>t. /\ o.qty \in Nat /\ o.reversed \in Nat /\ old.qty \in Nat /\ old.reversed \in Nat /\ old.back \in Int
      /\ r.qty \in Nat
  BY <1>3 DEF OrderMovement
<1>6. PICK taken \in Nat, back \in Int : taken = o.reversed + r.qty /\ back = old.back + value
  BY <1>t
<1>7. PICK new : new = [[old EXCEPT !.reversed = taken] EXCEPT !.back = back]
  OBVIOUS
<1>8. /\ new \in OrderMovement /\ new.kind = old.kind /\ new.qty = old.qty /\ new.cost = old.cost
      /\ new.reversed = taken /\ new.back = back
  BY <1>6, <1>7 DEF OrderMovement
<1>9. moves' = [moves EXCEPT ![a] = new]
  <2>1. moves' = [moves EXCEPT ![a].reversed = taken, ![a].back = @ + value]
    BY <1>1, <1>3, <1>4, <1>6 DEF MarkReversed
  <2>2. [old EXCEPT !.reversed = taken].back = old.back
    BY DEF OrderMovement
  <2>3. moves' = [[moves EXCEPT ![a] = [old EXCEPT !.reversed = taken]] EXCEPT ![a] =
                    [[old EXCEPT !.reversed = taken] EXCEPT !.back = back]]
    BY <1>3, <1>4, <1>5, <1>6, <2>1, <2>2
  <2> QED BY <1>3, <1>7, <2>3
<1>10. moves' \in Seq(OrderMovement) /\ DOMAIN moves' = DOMAIN moves /\ moves'[a] = new
       /\ \A m \in DOMAIN moves \ {a} : moves'[m] = moves[m]
  BY <1>3, <1>8, <1>9
<1>11. o.kind = old.kind /\ o.qty = old.qty /\ o.cost = old.cost /\ old.reversed <= old.qty
       /\ (old.kind = "ISSUE" => old.cost = ComponentCost) /\ taken <= old.qty
  <2>1. o.kind = old.kind /\ o.qty = old.qty /\ o.cost = old.cost /\ r.qty + o.reversed <= o.qty
    BY <1>2, <1>4, <1>5
  <2>2. old.reversed <= old.qty /\ (old.kind = "ISSUE" => old.cost = ComponentCost)
    BY <1>4, <1>5 DEF OrderWell
  <2> QED BY <1>t, <1>6, <2>1, <2>2
<1>12. ASSUME NEW kind
       PROVE  /\ Left(kind)' = Left(kind) + UnitsOf(new, kind) - UnitsOf(old, kind)
              /\ Net(kind)' = Net(kind) + WorthOf(new, kind) - WorthOf(old, kind)
              /\ Restored' = Restored + BackOf(new) - BackOf(old)
              /\ Left(kind) \in Int /\ Net(kind) \in Int /\ Restored \in Int
  <2>1. moves \in Seq(OrderMovement) /\ new \in OrderMovement /\ old = moves[a] /\ moves' = [moves EXCEPT ![a] = new]
    BY <1>3, <1>5, <1>8, <1>9
  <2>2. Left(kind) \in Int /\ Net(kind) \in Int /\ Restored \in Int
    BY ONLY <2>1, MovementSums
  <2>3. /\ Left(kind)' = Left(kind) + UnitsOf(new, kind) - UnitsOf(old, kind)
        /\ Net(kind)' = Net(kind) + WorthOf(new, kind) - WorthOf(old, kind)
        /\ Restored' = Restored + BackOf(new) - BackOf(old)
    BY <2>1, MovementChanged, ZenonT(30)
  <2> QED BY <2>2, <2>3
<1>13. ASSUME NEW kind \in {"ISSUE", "COMPLETION"}
       PROVE  /\ Left(kind)' = Left(kind) + IF o.kind = kind THEN old.reversed - (o.reversed + r.qty) ELSE 0
              /\ Net(kind)' = Net(kind) - IF o.kind = kind THEN value ELSE 0
  <2>1. old.qty \in Nat /\ old.reversed \in Nat /\ old.qty * old.cost \in Nat /\ old.back \in Int
    <3>1. old.qty \in Nat /\ old.cost \in Nat /\ old.reversed \in Nat /\ old.back \in Int
      BY DEF OrderMovement
    <3> QED BY <3>1
  <2>2. UnitsOf(new, kind) - UnitsOf(old, kind) = IF o.kind = kind THEN old.reversed - taken ELSE 0
    BY <1>6, <1>8, <1>11, <2>1 DEF UnitsOf
  <2>3. WorthOf(new, kind) - WorthOf(old, kind) = IF o.kind = kind THEN -value ELSE 0
    <3>1. PICK worth \in Nat : worth = old.qty * old.cost
      BY <2>1
    <3> QED BY <1>6, <1>8, <1>11, <2>1, <3>1 DEF WorthOf
  <2>4. UnitsOf(new, kind) \in Int /\ UnitsOf(old, kind) \in Int /\ WorthOf(new, kind) \in Int
        /\ WorthOf(old, kind) \in Int
    BY <1>8, MovementsCount
  <2>5. Left(kind)' = Left(kind) + (UnitsOf(new, kind) - UnitsOf(old, kind))
        /\ Net(kind)' = Net(kind) + (WorthOf(new, kind) - WorthOf(old, kind))
    BY <1>12, <2>4
  <2> QED BY <1>6, <1>12, <2>2, <2>3, <2>5
<1>14. Restored' = Restored + IF o.kind = "COMPLETION" THEN value ELSE 0
  <2>1. old.back \in Int
    BY DEF OrderMovement
  <2> QED BY <1>6, <1>8, <1>11, <1>12, <2>1 DEF BackOf
<1>15. \A m \in DOMAIN moves' : /\ moves'[m].reversed <= moves'[m].qty
                                /\ moves'[m].kind = "ISSUE" => moves'[m].cost = ComponentCost
  BY <1>8, <1>10, <1>11 DEF OrderWell
<1>16. \A m \in DOMAIN moves : /\ m \in DOMAIN moves' /\ moves'[m].kind = moves[m].kind
                               /\ moves'[m].qty = moves[m].qty /\ moves'[m].cost = moves[m].cost
  BY <1>5, <1>8, <1>10
<1> QED BY <1>1, <1>2, <1>3, <1>4, <1>5, <1>10, <1>11, <1>13, <1>14, <1>15, <1>16

(* The journal of an operation, on the accounts. *)
LEMMA AccountsPosted ==
  ASSUME OrderWell, NEW debit \in WipAccounts, NEW credit \in WipAccounts, debit # credit,
         NEW amount \in Int, gl' = Posted(gl, debit, credit, amount)
  PROVE  /\ gl' \in [WipAccounts -> Int] /\ \A a \in WipAccounts : gl[a] \in Int
         /\ \A a \in WipAccounts \ {debit, credit} : gl'[a] = gl[a]
         /\ amount >= 0 => gl'[debit] = gl[debit] + amount /\ gl'[credit] = gl[credit] - amount
<1>1. PICK before, after : before = gl /\ after = gl'
  OBVIOUS
<1>2. before \in [WipAccounts -> Int] /\ after = Posted(before, debit, credit, amount)
  BY <1>1 DEF OrderWell
<1>3. /\ after \in [WipAccounts -> Int] /\ \A a \in WipAccounts \ {debit, credit} : after[a] = before[a]
      /\ amount >= 0 => after[debit] = before[debit] + amount /\ after[credit] = before[credit] - amount
  BY <1>2, JournalPosts
<1> QED BY <1>1, <1>2, <1>3

(* Components go back into stock. *)
LEMMA ReverseIssueKeeps ==
  ASSUME WorkOrderInv, NEW c \in Clients, ReverseIssue(c)
  PROVE  WorkOrderInv'
<1>1. PICK r : r = req[c] /\ r # Idle /\ r.op = "reverse"
  BY DEF ReverseIssue, Doing
<1>2. /\ OrderWell /\ OrderRead(r) /\ AccountsFollow /\ (calm => OrderCalm /\ OrderAsRead(r))
      /\ Left("ISSUE") \in Nat /\ Left("COMPLETION") \in Nat
      /\ Net("ISSUE") \in Int /\ Net("COMPLETION") \in Int /\ Restored \in Int
  BY <1>1, OrderKnown
<1>3. PICK o \in OrderMovement : r.orig = {o} /\ o = Original(c) /\ o.kind = "ISSUE" /\ o.cost = ComponentCost
                            /\ r.move \in DOMAIN moves
  <2>1. PICK o \in OrderMovement : /\ r.orig = {o} /\ r.move \in DOMAIN moves /\ o.kind = moves[r.move].kind
                              /\ o.cost = moves[r.move].cost
    BY <1>1, <1>2 DEF OrderRead
  <2>2. o = Original(c)
    BY <1>1, <2>1 DEF Original
  <2>3. o.kind = "ISSUE"
    BY <2>2 DEF ReverseIssue
  <2> QED BY <1>2, <2>1, <2>2, <2>3 DEF OrderWell
<1>4. PICK q \in Nat, value \in Nat : q = r.qty /\ q > 0 /\ value = q * ComponentCost
  <2>1. r.qty \in Nat /\ r.qty > 0 /\ ComponentCost \in Nat
    BY <1>1, <1>2, PlanAssumption DEF OrderRead
  <2>2. r.qty * ComponentCost \in Nat
    BY <2>1
  <2> QED BY <2>1, <2>2
<1>5. /\ comp' = comp + q /\ MarkReversed(c, value)
      /\ mat' = WithMaterialStatus([mat EXCEPT !.issued = r.mat.issued - q, !.cost = r.mat.cost - value])
      /\ wo' = [wo EXCEPT !.material = r.wo.material - value]
      /\ gl' = Posted(gl, "raw_material", "wip", value)
      /\ Answer(c) /\ UNCHANGED <<fin, hours>>
  BY <1>1, <1>3, <1>4 DEF ReverseIssue, PostIssueReversal
<1>6. PICK old \in OrderMovement :
        /\ old = moves[r.move] /\ old.kind = "ISSUE" /\ old.reversed <= old.qty /\ q + o.reversed <= o.qty
        /\ moves' \in Seq(OrderMovement)
        /\ \A m \in DOMAIN moves' : /\ moves'[m].reversed <= moves'[m].qty
                                    /\ moves'[m].kind = "ISSUE" => moves'[m].cost = ComponentCost
        /\ \A m \in DOMAIN moves : /\ m \in DOMAIN moves' /\ moves'[m].kind = moves[m].kind
                                   /\ moves'[m].qty = moves[m].qty /\ moves'[m].cost = moves[m].cost
        /\ Left("ISSUE")' = Left("ISSUE") + (old.reversed - (o.reversed + q))
        /\ Left("COMPLETION")' = Left("COMPLETION")
        /\ Net("ISSUE")' = Net("ISSUE") - value /\ Net("COMPLETION")' = Net("COMPLETION")
        /\ Restored' = Restored
  <2>1. PICK p \in OrderMovement, old \in OrderMovement :
           /\ req[c].orig = {p} /\ p = Original(c) /\ old = moves[req[c].move] /\ req[c].move \in DOMAIN moves
           /\ p.kind = old.kind /\ (p.kind = "ISSUE" => p.cost = ComponentCost)
           /\ req[c].qty + p.reversed <= p.qty /\ old.reversed <= old.qty
           /\ moves' \in Seq(OrderMovement)
           /\ \A m \in DOMAIN moves' : /\ moves'[m].reversed <= moves'[m].qty
                                       /\ moves'[m].kind = "ISSUE" => moves'[m].cost = ComponentCost
           /\ \A m \in DOMAIN moves : /\ m \in DOMAIN moves' /\ moves'[m].kind = moves[m].kind
                                      /\ moves'[m].qty = moves[m].qty /\ moves'[m].cost = moves[m].cost
           /\ \A kind \in {"ISSUE", "COMPLETION"} :
                /\ Left(kind)' = Left(kind) + IF p.kind = kind THEN old.reversed - (p.reversed + req[c].qty) ELSE 0
                /\ Net(kind)' = Net(kind) - IF p.kind = kind THEN value ELSE 0
           /\ Restored' = Restored + IF p.kind = "COMPLETION" THEN value ELSE 0
    <3>1. OrderWell /\ OrderRead(req[c]) /\ req[c].op = "reverse" /\ value \in Int /\ MarkReversed(c, value)
      BY <1>1, <1>2, <1>5
    <3> QED BY ONLY <3>1, MarkChanges, c \in Clients, value \in Int
  <2>2. p = o /\ p.kind = "ISSUE" /\ req[c] = r
    BY <1>1, <1>3, <2>1
  <2>3. /\ Left("ISSUE")' = Left("ISSUE") + (old.reversed - (p.reversed + q))
        /\ Left("COMPLETION")' = Left("COMPLETION") + 0
        /\ Net("ISSUE")' = Net("ISSUE") - value /\ Net("COMPLETION")' = Net("COMPLETION") - 0
        /\ Restored' = Restored + 0
    BY <1>4, <2>1, <2>2
  <2> QED BY <1>2, <1>4, <2>1, <2>2, <2>3
<1>8. /\ gl' \in [WipAccounts -> Int] /\ gl'["wip"] = gl["wip"] - value
      /\ gl'["raw_material"] = gl["raw_material"] + value /\ gl'["finished_goods"] = gl["finished_goods"]
      /\ gl["wip"] \in Int /\ gl["raw_material"] \in Int
  <2>1. "raw_material" \in WipAccounts /\ "wip" \in WipAccounts
        /\ "finished_goods" \in WipAccounts \ {"raw_material", "wip"}
    BY DEF WipAccounts
  <2> QED BY <1>2, <1>4, <1>5, <2>1, AccountsPosted
<1>9. /\ wo' \in WorkOrder /\ wo'.status = wo.status /\ wo'.completed = wo.completed
      /\ wo'.cleared = wo.cleared /\ (r.wo = wo => Remaining(wo') = Remaining(wo) - value)
      /\ Remaining(wo) \in Int
  <2>1. wo \in WorkOrder /\ r.wo \in WorkOrder
    BY <1>2 DEF OrderWell, OrderRead
  <2>2. PICK material \in Int : material = r.wo.material - value
    BY <1>4, <2>1 DEF WorkOrder
  <2>3. wo' = [wo EXCEPT !.material = material]
    BY <1>5, <2>2
  <2> QED BY <1>4, <2>1, <2>2, <2>3 DEF WorkOrder, Remaining
<1>10. /\ mat' \in WorkOrderMaterial /\ mat'.issued = r.mat.issued - q /\ mat'.cost = r.mat.cost - value
       /\ mat'.status = IF mat'.issued <= 0 THEN "OPEN"
                        ELSE IF mat'.issued < Required THEN "PARTIALLY_ISSUED" ELSE "ISSUED"
  <2>1. mat \in WorkOrderMaterial /\ r.mat \in WorkOrderMaterial
    BY <1>2 DEF OrderWell, OrderRead
  <2>2. PICK issued \in Int, paid \in Int : issued = r.mat.issued - q /\ paid = r.mat.cost - value
    BY <1>4, <2>1 DEF WorkOrderMaterial
  <2>3. PICK row : row = [mat EXCEPT !.issued = issued, !.cost = paid]
    OBVIOUS
  <2>4. row \in WorkOrderMaterial /\ row.issued = issued /\ row.cost = paid
    BY <2>1, <2>2, <2>3 DEF WorkOrderMaterial
  <2>5. PICK after : after = mat' /\ after = WithMaterialStatus(row)
    BY <1>5, <2>2, <2>3
  <2>6. /\ after \in WorkOrderMaterial /\ after.issued = issued /\ after.cost = paid
        /\ after.status = IF issued <= 0 THEN "OPEN"
                          ELSE IF issued < Required THEN "PARTIALLY_ISSUED" ELSE "ISSUED"
    BY <2>4, <2>5, MaterialStatus
  <2> QED BY <2>2, <2>5, <2>6
<1>12. OrderWell'
  <2>1. comp' \in Nat
    BY <1>2, <1>4, <1>5 DEF OrderWell
  <2> QED BY <1>2, <1>5, <1>6, <1>8, <1>9, <1>10, <2>1 DEF OrderWell
<1>13. AccountsFollow'
  BY <1>2, <1>4, <1>6, <1>8 DEF AccountsFollow
<1>14. ASSUME calm PROVE OrderCalm'
  <2>1. OrderCalm /\ r.wo = wo /\ r.mat = mat /\ r.orig = {moves[r.move]}
    BY <1>1, <1>2, <1>14 DEF OrderAsRead
  <2>2. mat.issued \in Nat /\ mat.issued <= Required /\ mat.issued = Left("ISSUE") /\ comp = Stock - mat.issued
    BY <1>2, <2>1 DEF OrderCalm, UnitsFollow
  <2>3. o = old
    BY <1>3, <1>6, <2>1
  <2>4. o.reversed \in Nat /\ o.qty \in Nat /\ old.qty - old.reversed <= Left("ISSUE")
    <3>1. \A m \in DOMAIN moves : moves[m].kind = "ISSUE" => moves[m].qty - moves[m].reversed <= Left("ISSUE")
      BY <1>2, LeftBounds
    <3> QED BY <1>3, <1>6, <3>1 DEF OrderMovement
  <2>5. Left("ISSUE")' = Left("ISSUE") - q /\ q <= mat.issued
    <3>1. PICK taken \in Nat, whole \in Nat, left \in Nat :
            taken = o.reversed /\ whole = o.qty /\ left = Left("ISSUE")
      BY <1>2, <2>4
    <3>2. whole - taken <= left /\ q + taken <= whole
      BY <1>6, <2>3, <2>4, <3>1
    <3>3. q <= left
      BY <3>2
    <3>4. Left("ISSUE")' = left + (taken - (taken + q))
      BY <1>6, <2>3, <3>1
    <3> QED BY <2>2, <3>1, <3>3, <3>4
  <2>6. WipFollows'
    <3>1. wo.cleared => wo.status = "CLOSED"
      BY <2>1 DEF OrderCalm, StatusFollows
    <3>2. wo.status \notin {"CLOSED", "CANCELLED"}
      BY <1>1, <1>2, <1>14 DEF OrderAsRead
    <3> QED BY <1>2, <1>4, <1>6, <1>8, <1>9, <2>1, <3>1, <3>2 DEF OrderCalm, WipFollows
  <2>7. mat'.cost = mat'.issued * ComponentCost
    <3>1. mat.cost = mat.issued * ComponentCost /\ ComponentCost \in Nat
      BY <2>1, PlanAssumption DEF OrderCalm, UnitsFollow
    <3>2. (mat.issued - q) * ComponentCost = mat.issued * ComponentCost - q * ComponentCost
      BY <1>4, <2>2, <3>1
    <3> QED BY <1>4, <1>10, <2>1, <3>1, <3>2
  <2>8. UnitsFollow'
    <3>1. wo.completed = Left("COMPLETION")
      BY <2>1 DEF OrderCalm, UnitsFollow
    <3>2. mat'.issued = mat.issued - q /\ mat'.issued \in Nat /\ mat'.issued < Required
      BY <1>4, <1>10, <2>1, <2>2, <2>5, PlanAssumption
    <3>3. mat'.status # "ISSUED"
      BY <1>10, <3>2
    <3>4. comp' = Stock - mat'.issued
      BY <1>4, <1>5, <2>2, <3>2, PlanAssumption
    <3>5. mat'.issued = Left("ISSUE")' /\ wo'.completed = Left("COMPLETION")'
      BY <1>6, <1>9, <2>2, <2>5, <3>1, <3>2
    <3>6. mat'.issued <= Required /\ mat'.issued # Required
      BY <3>2, PlanAssumption
    <3> QED BY <2>7, <3>3, <3>4, <3>5, <3>6 DEF UnitsFollow
  <2>9. StatusFollows'
    <3>1. mat.issued > 0
      BY <1>4, <2>2, <2>5
    <3> QED BY <1>9, <2>1, <3>1 DEF OrderCalm, StatusFollows
  <2> QED BY <2>6, <2>8, <2>9 DEF OrderCalm
<1> QED BY <1>1, <1>5, <1>6, <1>12, <1>13, <1>14, OrderIsDone

(* Finished units are taken back: off the finished goods cost, and onto the material. *)
LEMMA ReverseCompletionKeeps ==
  ASSUME WorkOrderInv, NEW c \in Clients, ReverseCompletion(c)
  PROVE  WorkOrderInv'
<1>1. PICK r : r = req[c] /\ r # Idle /\ r.op = "reverse"
  BY DEF ReverseCompletion, Doing
<1>2. /\ OrderWell /\ OrderRead(r) /\ AccountsFollow /\ (calm => OrderCalm /\ OrderAsRead(r))
      /\ Left("ISSUE") \in Nat /\ Left("COMPLETION") \in Nat
      /\ Net("ISSUE") \in Int /\ Net("COMPLETION") \in Int /\ Restored \in Int
  BY <1>1, OrderKnown
<1>3. PICK o \in OrderMovement : r.orig = {o} /\ o = Original(c) /\ o.kind = "COMPLETION" /\ r.move \in DOMAIN moves
  <2>1. PICK o \in OrderMovement : r.orig = {o} /\ r.move \in DOMAIN moves
    BY <1>1, <1>2 DEF OrderRead
  <2>2. o = Original(c)
    BY <1>1, <2>1 DEF Original
  <2> QED BY <2>1, <2>2 DEF ReverseCompletion
<1>4. PICK q \in Nat, value \in Nat : q = r.qty /\ q > 0 /\ value = r.qty * fin.avg
  <2>1. r.qty \in Nat /\ r.qty > 0 /\ fin.avg \in Nat
    BY <1>1, <1>2 DEF OrderRead, OrderWell
  <2>2. r.qty * fin.avg \in Nat
    BY <2>1
  <2> QED BY <2>1, <2>2
<1>5. /\ fin.qty >= q /\ fin' = [fin EXCEPT !.qty = @ - q] /\ MarkReversed(c, value)
      /\ wo' = [wo EXCEPT !.completed = r.wo.completed - q, !.goods = r.wo.goods - value,
                          !.material = r.wo.material + value,
                          !.status = StatusAfterReversal(r.wo.completed - q, r.wo.status)]
      /\ gl' = Posted(gl, "wip", "finished_goods", value)
      /\ Answer(c) /\ UNCHANGED <<mat, comp, hours>>
  BY <1>1, <1>3, <1>4 DEF ReverseCompletion, PostCompletionReversal
<1>6. PICK old \in OrderMovement :
        /\ old = moves[r.move] /\ old.kind = "COMPLETION" /\ old.reversed <= old.qty /\ q + o.reversed <= o.qty
        /\ moves' \in Seq(OrderMovement)
        /\ \A m \in DOMAIN moves' : /\ moves'[m].reversed <= moves'[m].qty
                                    /\ moves'[m].kind = "ISSUE" => moves'[m].cost = ComponentCost
        /\ \A m \in DOMAIN moves : /\ m \in DOMAIN moves' /\ moves'[m].kind = moves[m].kind
                                   /\ moves'[m].qty = moves[m].qty /\ moves'[m].cost = moves[m].cost
        /\ Left("COMPLETION")' = Left("COMPLETION") + (old.reversed - (o.reversed + q))
        /\ Left("ISSUE")' = Left("ISSUE")
        /\ Net("COMPLETION")' = Net("COMPLETION") - value /\ Net("ISSUE")' = Net("ISSUE")
        /\ Restored' = Restored + value
  <2>1. PICK p \in OrderMovement, old \in OrderMovement :
           /\ req[c].orig = {p} /\ p = Original(c) /\ old = moves[req[c].move] /\ req[c].move \in DOMAIN moves
           /\ p.kind = old.kind /\ (p.kind = "ISSUE" => p.cost = ComponentCost)
           /\ req[c].qty + p.reversed <= p.qty /\ old.reversed <= old.qty
           /\ moves' \in Seq(OrderMovement)
           /\ \A m \in DOMAIN moves' : /\ moves'[m].reversed <= moves'[m].qty
                                       /\ moves'[m].kind = "ISSUE" => moves'[m].cost = ComponentCost
           /\ \A m \in DOMAIN moves : /\ m \in DOMAIN moves' /\ moves'[m].kind = moves[m].kind
                                      /\ moves'[m].qty = moves[m].qty /\ moves'[m].cost = moves[m].cost
           /\ \A kind \in {"ISSUE", "COMPLETION"} :
                /\ Left(kind)' = Left(kind) + IF p.kind = kind THEN old.reversed - (p.reversed + req[c].qty) ELSE 0
                /\ Net(kind)' = Net(kind) - IF p.kind = kind THEN value ELSE 0
           /\ Restored' = Restored + IF p.kind = "COMPLETION" THEN value ELSE 0
    <3>1. OrderWell /\ OrderRead(req[c]) /\ req[c].op = "reverse" /\ value \in Int /\ MarkReversed(c, value)
      BY <1>1, <1>2, <1>5
    <3> QED BY ONLY <3>1, MarkChanges, c \in Clients, value \in Int
  <2>2. p = o /\ p.kind = "COMPLETION" /\ req[c] = r
    BY <1>1, <1>3, <2>1
  <2>3. /\ Left("COMPLETION")' = Left("COMPLETION") + (old.reversed - (p.reversed + q))
        /\ Left("ISSUE")' = Left("ISSUE") + 0
        /\ Net("COMPLETION")' = Net("COMPLETION") - value /\ Net("ISSUE")' = Net("ISSUE") - 0
        /\ Restored' = Restored + value
    BY <1>4, <2>1, <2>2
  <2> QED BY <1>2, <1>4, <2>1, <2>2, <2>3
<1>8. /\ gl' \in [WipAccounts -> Int] /\ gl'["wip"] = gl["wip"] + value
      /\ gl'["finished_goods"] = gl["finished_goods"] - value /\ gl'["raw_material"] = gl["raw_material"]
      /\ gl["wip"] \in Int /\ gl["finished_goods"] \in Int
  <2>1. "finished_goods" \in WipAccounts /\ "wip" \in WipAccounts
        /\ "raw_material" \in WipAccounts \ {"finished_goods", "wip"}
    BY DEF WipAccounts
  <2> QED BY <1>2, <1>4, <1>5, <2>1, AccountsPosted
<1>9. /\ wo' \in WorkOrder /\ wo'.completed = r.wo.completed - q /\ r.wo.completed \in Int
      /\ wo'.status = StatusAfterReversal(r.wo.completed - q, r.wo.status)
      /\ wo'.cleared = wo.cleared /\ (r.wo = wo => Remaining(wo') = Remaining(wo) + value + value)
      /\ Remaining(wo) \in Int
  <2>1. wo \in WorkOrder /\ r.wo \in WorkOrder
    BY <1>2 DEF OrderWell, OrderRead
  <2>2. /\ r.wo.completed \in Int /\ r.wo.goods \in Int /\ r.wo.material \in Int /\ r.wo.status \in OrderStatuses
        /\ wo.goods \in Int /\ wo.material \in Int /\ wo.labour \in Nat /\ wo.overhead \in Nat
    BY <2>1 DEF WorkOrder
  <2>3. PICK done \in Int, goods \in Int, material \in Int :
          done = r.wo.completed - q /\ goods = r.wo.goods - value /\ material = r.wo.material + value
    BY <1>4, <2>2
  <2>4. PICK status \in OrderStatuses : status = StatusAfterReversal(r.wo.completed - q, r.wo.status)
    BY <2>2 DEF StatusAfterReversal, OrderStatuses
  <2>5. wo' = [wo EXCEPT !.completed = done, !.goods = goods, !.material = material, !.status = status]
    BY <1>5, <2>3, <2>4
  <2>6. /\ wo' \in WorkOrder /\ wo'.completed = done /\ wo'.goods = goods /\ wo'.material = material
        /\ wo'.status = status /\ wo'.labour = wo.labour /\ wo'.overhead = wo.overhead
        /\ wo'.cleared = wo.cleared
    BY <2>1, <2>3, <2>4, <2>5 DEF WorkOrder
  <2> QED BY <1>4, <2>2, <2>3, <2>4, <2>6 DEF Remaining
<1>10. fin' \in [qty : Nat, avg : Nat]
  <2>1. fin \in [qty : Nat, avg : Nat]
    BY <1>2 DEF OrderWell
  <2>2. PICK n \in Nat : n = fin.qty - q
    BY <1>4, <1>5, <2>1
  <2>3. fin' = [fin EXCEPT !.qty = n]
    BY <1>5, <2>1, <2>2
  <2> QED BY <2>1, <2>3
<1>12. OrderWell'
  BY <1>2, <1>5, <1>6, <1>8, <1>9, <1>10 DEF OrderWell
<1>13. AccountsFollow'
  BY <1>2, <1>4, <1>6, <1>8 DEF AccountsFollow
<1>14. ASSUME calm PROVE OrderCalm'
  <2>1. OrderCalm /\ r.wo = wo /\ r.orig = {moves[r.move]} /\ wo.status \notin {"CLOSED", "CANCELLED"}
    BY <1>1, <1>2, <1>14 DEF OrderAsRead
  <2>2. wo.completed \in Nat /\ wo.completed = Left("COMPLETION") /\ wo.completed <= Quantity /\ ~ wo.cleared
    <3>1. wo.status \in OrderStatuses
      BY <1>2 DEF OrderWell, WorkOrder
    <3>2. wo.completed = Left("COMPLETION")
      BY <2>1 DEF OrderCalm, UnitsFollow
    <3> QED BY <1>2, <2>1, <3>1, <3>2, PlanAssumption DEF OrderCalm, StatusFollows, OrderStatuses
  <2>3. o = old
    BY <1>3, <1>6, <2>1
  <2>4. o.reversed \in Nat /\ o.qty \in Nat /\ old.qty - old.reversed <= Left("COMPLETION")
    <3>1. \A m \in DOMAIN moves : moves[m].kind = "COMPLETION" => moves[m].qty - moves[m].reversed <= Left("COMPLETION")
      BY <1>2, LeftBounds
    <3> QED BY <1>3, <1>6, <3>1 DEF OrderMovement
  <2>5. Left("COMPLETION")' = Left("COMPLETION") - q /\ q <= wo.completed
    <3>1. PICK taken \in Nat, whole \in Nat, left \in Nat :
            taken = o.reversed /\ whole = o.qty /\ left = Left("COMPLETION")
      BY <1>2, <2>4
    <3>2. whole - taken <= left /\ q + taken <= whole
      BY <1>6, <2>3, <2>4, <3>1
    <3>3. q <= left
      BY <3>2
    <3>4. Left("COMPLETION")' = left + (taken - (taken + q))
      BY <1>6, <2>3, <3>1
    <3> QED BY <2>2, <3>1, <3>3, <3>4
  <2>6. WipFollows'
    BY <1>2, <1>4, <1>6, <1>8, <1>9, <2>1, <2>2 DEF OrderCalm, WipFollows
  <2>7. UnitsFollow'
    <3>1. wo'.completed = Left("COMPLETION")'
      BY <1>9, <2>1, <2>2, <2>5
    <3> QED BY <1>5, <1>6, <2>1, <3>1 DEF OrderCalm, UnitsFollow
  <2>8. StatusFollows'
    <3>1. PICK n \in Nat : n = wo.completed - q /\ n < Quantity
      BY <1>4, <2>2, <2>5, PlanAssumption
    <3>2. wo'.completed = n /\ ~ wo'.cleared /\ wo'.status = StatusAfterReversal(n, wo.status)
      BY <1>9, <2>1, <2>2, <3>1
    <3>3. wo'.status = IF n = 0 THEN "RELEASED" ELSE "PARTIALLY_COMPLETED"
      BY <3>1, <3>2 DEF StatusAfterReversal
    <3> QED BY <3>1, <3>2, <3>3, PlanAssumption DEF StatusFollows
  <2> QED BY <2>6, <2>7, <2>8 DEF OrderCalm
<1> QED BY <1>1, <1>5, <1>6, <1>12, <1>13, <1>14, OrderIsDone

(* Hours are booked, and absorbed at the work centre's rates. *)
LEMMA BookKeeps ==
  ASSUME WorkOrderInv, NEW c \in Clients, Book(c)
  PROVE  WorkOrderInv'
<1>1. PICK r : r = req[c] /\ r # Idle /\ r.op = "book"
  BY DEF Book, Doing
<1>2. /\ OrderWell /\ OrderRead(r) /\ AccountsFollow /\ (calm => OrderCalm /\ OrderAsRead(r)) /\ Restored \in Int
  BY <1>1, OrderKnown
<1>3. PICK booked \in Hours : booked = r.booked
  BY <1>2 DEF OrderRead
<1>4. PICK labour \in Nat, overhead \in Nat :
        /\ labour = booked["labour"] * Rate["labour"] /\ overhead = booked["overhead"] * Rate["overhead"]
        /\ (~ booked["labour"] > 0 => labour = 0) /\ (~ booked["overhead"] > 0 => overhead = 0)
  <2>1. /\ booked["labour"] \in Nat /\ booked["overhead"] \in Nat
        /\ Rate["labour"] \in Nat /\ Rate["overhead"] \in Nat
    BY PlanAssumption DEF Hours
  <2>2. \A a, b \in Nat : a * b \in Nat /\ (~ a > 0 => a * b = 0)
    OBVIOUS
  <2> QED BY <2>1, <2>2
<1>5. /\ hours' = [k \in DOMAIN hours |-> IF booked[k] > 0 THEN r.hours[k] + booked[k] ELSE hours[k]]
      /\ wo' = [wo EXCEPT !.labour = IF booked["labour"] > 0 THEN r.wo.labour + labour ELSE @,
                          !.overhead = IF booked["overhead"] > 0 THEN r.wo.overhead + overhead ELSE @]
      /\ gl' = Posted(Posted(gl, "wip", "labour", labour), "wip", "overhead", overhead)
      /\ Answer(c) /\ UNCHANGED <<mat, moves, comp, fin>>
  <2>1. DOMAIN booked = {"labour", "overhead"}
    BY DEF Hours
  <2>2. PICK amount : amount = [k \in DOMAIN booked |-> booked[k] * Rate[k]]
    OBVIOUS
  <2>3. amount["labour"] = labour /\ amount["overhead"] = overhead
    BY <1>4, <2>1, <2>2
  <2>4. PICK worth : worth = [k \in DOMAIN req[c].booked |-> req[c].booked[k] * Rate[k]] /\ worth = amount
    BY <1>1, <1>3, <2>2
  <2>5. gl' = Posted(Posted(gl, "wip", "labour", worth["labour"]), "wip", "overhead", worth["overhead"])
    BY <2>4 DEF Book, PostBooking
  <2>6. wo' = [wo EXCEPT !.labour = IF booked["labour"] > 0 THEN r.wo.labour + worth["labour"] ELSE @,
                         !.overhead = IF booked["overhead"] > 0 THEN r.wo.overhead + worth["overhead"] ELSE @]
    BY <1>1, <1>3, <2>4 DEF Book
  <2>7. hours' = [k \in DOMAIN hours |-> IF booked[k] > 0 THEN r.hours[k] + booked[k] ELSE hours[k]]
    BY <1>1, <1>3 DEF Book
  <2>8. Answer(c) /\ UNCHANGED <<mat, moves, comp, fin>>
    BY DEF Book
  <2> QED BY <2>3, <2>4, <2>5, <2>6, <2>7, <2>8
<1>6. /\ wo' \in WorkOrder /\ wo'.status = wo.status /\ wo'.completed = wo.completed
      /\ wo'.cleared = wo.cleared /\ (r.wo = wo => Remaining(wo') = Remaining(wo) + labour + overhead)
      /\ Remaining(wo) \in Int
  <2>1. wo \in WorkOrder /\ r.wo \in WorkOrder
    BY <1>2 DEF OrderWell, OrderRead
  <2>2. /\ r.wo.labour \in Nat /\ r.wo.overhead \in Nat /\ wo.goods \in Int /\ wo.material \in Int
        /\ wo.labour \in Nat /\ wo.overhead \in Nat
    BY <2>1 DEF WorkOrder
  <2>3. PICK l \in Nat, h \in Nat : /\ l = IF booked["labour"] > 0 THEN r.wo.labour + labour ELSE wo.labour
                                    /\ h = IF booked["overhead"] > 0 THEN r.wo.overhead + overhead ELSE wo.overhead
    BY <2>2
  <2>4. wo' = [wo EXCEPT !.labour = l, !.overhead = h]
    BY <1>5, <2>1, <2>3 DEF WorkOrder
  <2>5. /\ wo' \in WorkOrder /\ wo'.labour = l /\ wo'.overhead = h /\ wo'.status = wo.status
        /\ wo'.completed = wo.completed /\ wo'.cleared = wo.cleared /\ wo'.goods = wo.goods
        /\ wo'.material = wo.material
    BY <2>1, <2>3, <2>4 DEF WorkOrder
  <2>6. r.wo = wo => l = wo.labour + labour /\ h = wo.overhead + overhead
    BY <1>4, <2>2, <2>3
  <2> QED BY <2>2, <2>3, <2>5, <2>6 DEF Remaining
<1>7. hours' \in Hours
  <2>1. hours \in Hours /\ r.hours \in Hours
    BY <1>2 DEF OrderWell, OrderRead
  <2> QED BY <1>5, <2>1 DEF Hours
<1>8. /\ gl' \in [WipAccounts -> Int] /\ gl'["raw_material"] = gl["raw_material"]
      /\ gl'["finished_goods"] = gl["finished_goods"] /\ gl'["wip"] = gl["wip"] + labour + overhead
      /\ gl["wip"] \in Int
  <2>1. {"wip", "labour", "overhead", "raw_material", "finished_goods"} \subseteq WipAccounts
        /\ gl \in [WipAccounts -> Int]
    BY <1>2 DEF OrderWell, WipAccounts
  <2>2. PICK before, middle, after : before = gl /\ middle = Posted(gl, "wip", "labour", labour) /\ after = gl'
    OBVIOUS
  <2>3. PICK wip \in WipAccounts, l \in WipAccounts, h \in WipAccounts : wip = "wip" /\ l = "labour" /\ h = "overhead"
    BY <2>1
  <2>4. before \in [WipAccounts -> Int] /\ middle = Posted(before, wip, l, labour) /\ wip # l /\ wip # h
        /\ labour \in Int /\ labour >= 0 /\ overhead \in Int /\ overhead >= 0
    BY <2>1, <2>2, <2>3
  <2>5. /\ middle \in [WipAccounts -> Int] /\ \A a \in WipAccounts \ {wip, l} : middle[a] = before[a]
        /\ middle[wip] = before[wip] + labour
    <3>1. PICK entry \in Int : entry = labour /\ entry >= 0
      BY <2>4
    <3>2. middle = Posted(before, wip, l, entry)
      BY <2>4, <3>1
    <3>3. /\ middle \in [WipAccounts -> Int] /\ \A a \in WipAccounts \ {wip, l} : middle[a] = before[a]
          /\ entry >= 0 => middle[wip] = before[wip] + entry /\ middle[l] = before[l] - entry
      <4>1. /\ before \in [WipAccounts -> Int] /\ wip \in WipAccounts /\ l \in WipAccounts /\ wip # l
            /\ entry \in Int
        BY <2>3, <2>4, <3>1
      <4> QED BY ONLY <4>1, <3>2, JournalPosts
    <3> QED BY <3>1, <3>3
  <2>6. after = Posted(middle, wip, h, overhead)
    BY <1>5, <2>2, <2>3
  <2>7. /\ after \in [WipAccounts -> Int] /\ \A a \in WipAccounts \ {wip, h} : after[a] = middle[a]
        /\ after[wip] = middle[wip] + overhead
    <3>1. PICK entry \in Int : entry = overhead /\ entry >= 0
      BY <2>4
    <3>2. after = Posted(middle, wip, h, entry)
      BY <2>6, <3>1
    <3>3. /\ after \in [WipAccounts -> Int] /\ \A a \in WipAccounts \ {wip, h} : after[a] = middle[a]
          /\ entry >= 0 => after[wip] = middle[wip] + entry /\ after[h] = middle[h] - entry
      <4>1. /\ middle \in [WipAccounts -> Int] /\ wip \in WipAccounts /\ h \in WipAccounts /\ wip # h
            /\ entry \in Int
        BY <2>3, <2>4, <2>5, <3>1
      <4> QED BY ONLY <4>1, <3>2, JournalPosts
    <3> QED BY <3>1, <3>3
  <2> QED BY <2>1, <2>2, <2>3, <2>5, <2>7
<1>9. OrderWell' /\ AccountsFollow'
  BY <1>2, <1>5, <1>6, <1>7, <1>8, MovementsStay DEF OrderWell, AccountsFollow
<1>10. ASSUME calm PROVE OrderCalm'
  <2>1. OrderCalm /\ r.wo = wo /\ wo.status \in Operational
    BY <1>1, <1>2, <1>10 DEF OrderAsRead
  <2>2. WipFollows'
    BY <1>2, <1>5, <1>6, <1>8, <2>1, MovementsStay DEF OrderCalm, WipFollows, StatusFollows, Operational
  <2>3. UnitsFollow' /\ StatusFollows'
    BY <1>5, <1>6, <2>1, MovementsStay DEF OrderCalm, UnitsFollow, StatusFollows
  <2> QED BY <2>2, <2>3 DEF OrderCalm
<1> QED BY <1>1, <1>5, <1>9, <1>10, OrderIsDone

(* The order is closed; its variance is still to be posted. *)
LEMMA CloseKeeps ==
  ASSUME WorkOrderInv, NEW c \in Clients, Close(c)
  PROVE  WorkOrderInv'
<1>1. PICK r : r = req[c] /\ r # Idle /\ r.op = "close"
  BY DEF Close, Doing
<1>2. OrderWell /\ OrderReadsWell /\ OrderRead(r) /\ AccountsFollow /\ (calm => OrderCalm /\ OrderAsRead(r))
  BY <1>1, OrderKnown DEF WorkOrderInv
<1>3. /\ wo' = [wo EXCEPT !.status = "CLOSED"] /\ req' = [req EXCEPT ![c].op = "variance"]
      /\ UNCHANGED <<mat, moves, comp, fin, hours, gl, overlaps>>
  BY DEF Close
<1>4. /\ wo' \in WorkOrder /\ wo'.status = "CLOSED" /\ wo'.completed = wo.completed
      /\ wo'.cleared = wo.cleared /\ Remaining(wo') = Remaining(wo)
  BY <1>2, <1>3 DEF OrderWell, WorkOrder, OrderStatuses, Remaining
<1>5. OrderWell' /\ AccountsFollow'
  BY <1>2, <1>3, <1>4, MovementsStay DEF OrderWell, AccountsFollow
<1>6. PICK new : new = [r EXCEPT !.op = "variance"]
  OBVIOUS
<1>7. /\ req' = [d \in Clients |-> IF d = c THEN new ELSE req[d]]
      /\ req = [d \in Clients |-> req[d]]
  BY <1>1, <1>2, <1>3, <1>6 DEF OrderReadsWell, RequestsOK
<1>8. RequestsOK' /\ overlaps' \in 0 .. MaxOverlaps /\ (calm' <=> calm)
  <2>1. calm' <=> calm
    BY <1>3 DEF calm
  <2>2. calm => \A d \in Clients : req[d] # Idle => d = c
    BY <1>1, <1>2 DEF OrderReadsWell, RequestsOK, Alone
  <2>3. calm => Alone'
    BY <1>7, <2>2 DEF Alone
  <2>4. req' = [d \in Clients |-> req'[d]]
    BY <1>7
  <2> QED BY <1>2, <1>3, <2>1, <2>3, <2>4 DEF OrderReadsWell, RequestsOK
<1>9. ASSUME NEW d \in Clients, req'[d] # Idle PROVE OrderRead(req[d])'
  <2>1. CASE d = c
    <3>1. PICK x : x = req'[d] /\ x = new
      BY <1>7, <2>1
    <3>2. /\ x.wo = r.wo /\ x.mat = r.mat /\ x.hours = r.hours /\ x.booked = r.booked /\ x.qty = r.qty
          /\ x.op = "variance"
      BY <1>6, <1>1, <1>2, <3>1 DEF OrderRead
    <3>3. OrderRead(x)'
      BY <1>2, <3>2 DEF OrderRead
    <3> QED BY <3>1, <3>3
  <2>2. CASE d # c
    <3>1. PICK x : x = req'[d] /\ OrderRead(x)
      BY <1>2, <1>7, <1>9, <2>2 DEF OrderReadsWell
    <3>2. OrderRead(x)'
      BY <1>3, <3>1 DEF OrderRead
    <3> QED BY <3>1, <3>2
  <2> QED BY <2>1, <2>2
<1>10. ASSUME calm PROVE OrderCalm' /\ \A d \in Clients : req'[d] # Idle => OrderAsRead(req[d])'
  <2>1. OrderCalm /\ r.wo = wo /\ wo.status = "COMPLETED"
    BY <1>1, <1>2, <1>10 DEF OrderAsRead
  <2>2. OrderCalm'
    BY <1>3, <1>4, <2>1, MovementsStay DEF OrderCalm, WipFollows, UnitsFollow, StatusFollows
  <2>3. ASSUME NEW d \in Clients, req'[d] # Idle PROVE OrderAsRead(req[d])'
    <3>1. d = c
      BY <1>1, <1>2, <1>7, <1>10, <2>3 DEF OrderReadsWell, RequestsOK, Alone
    <3>2. PICK x : x = req'[d] /\ x = new
      BY <1>7, <3>1
    <3>3. x.op = "variance" /\ x.wo = wo
      BY <1>6, <1>1, <2>1, <3>2
    <3>4. OrderAsRead(x)'
      BY <1>4, <3>3 DEF OrderAsRead
    <3> QED BY <3>2, <3>4
  <2> QED BY <2>2, <2>3
<1> QED BY <1>5, <1>8, <1>9, <1>10 DEF WorkOrderInv, OrderReadsWell

(* What is left of a closed order is posted, once; or never. *)
LEMMA CloseVarianceKeeps ==
  ASSUME WorkOrderInv, NEW c \in Clients, CloseVariance(c) \/ CloseFails(c)
  PROVE  WorkOrderInv'
<1>1. PICK r : r = req[c] /\ r # Idle /\ r.op = "variance"
  BY DEF CloseVariance, CloseFails, Doing
<1>2. /\ OrderWell /\ OrderRead(r) /\ AccountsFollow /\ (calm => OrderCalm /\ OrderAsRead(r)) /\ Restored \in Int
  BY <1>1, OrderKnown
<1>3. PICK left \in Int : left = Remaining(r.wo)
  BY <1>2 DEF OrderRead, WorkOrder, Remaining
<1>4. Answer(c) /\ UNCHANGED <<mat, moves, comp, fin, hours>>
  BY DEF CloseVariance, CloseFails
<1>5. CASE UNCHANGED <<gl, wo>>
  <2>1. OrderWell' /\ AccountsFollow'
    BY <1>2, <1>4, <1>5, MovementsStay DEF OrderWell, AccountsFollow
  <2>2. ASSUME calm PROVE OrderCalm'
    BY <1>2, <1>4, <1>5, <2>2, MovementsStay
       DEF OrderCalm, WipFollows, UnitsFollow, StatusFollows, Remaining
  <2> QED BY <1>1, <1>4, <2>1, <2>2, OrderIsDone
<1>6. CASE ~ wo.cleared /\ PostVariance(left) /\ wo' = [wo EXCEPT !.cleared = TRUE]
  <2>1. /\ wo' \in WorkOrder /\ wo'.cleared /\ wo'.status = wo.status /\ wo'.completed = wo.completed
    BY <1>2, <1>6 DEF OrderWell, WorkOrder
  <2>2. "variance" \in WipAccounts /\ "wip" \in WipAccounts
        /\ {"raw_material", "finished_goods"} \subseteq WipAccounts \ {"variance", "wip"} /\ -left \in Int
    BY DEF WipAccounts
  <2>3. /\ gl' \in [WipAccounts -> Int] /\ gl'["raw_material"] = gl["raw_material"]
        /\ gl'["finished_goods"] = gl["finished_goods"] /\ gl'["wip"] = gl["wip"] - left /\ gl["wip"] \in Int
    <3>1. CASE left > 0
      <4>1. gl' = Posted(gl, "variance", "wip", left) /\ left >= 0
        BY <1>6, <3>1 DEF PostVariance
      <4> QED BY <1>2, <2>2, <4>1, AccountsPosted
    <3>2. CASE ~ left > 0
      <4>1. PICK amount \in Int : amount = -left /\ amount >= 0
        BY <3>2
      <4>2. gl' = Posted(gl, "wip", "variance", amount)
        BY <1>6, <3>2, <4>1 DEF PostVariance
      <4>3. /\ gl' \in [WipAccounts -> Int] /\ gl'["raw_material"] = gl["raw_material"]
            /\ gl'["finished_goods"] = gl["finished_goods"] /\ gl'["wip"] = gl["wip"] + amount /\ gl["wip"] \in Int
        BY <1>2, <2>2, <4>1, <4>2, AccountsPosted
      <4> QED BY <4>1, <4>3
    <3> QED BY <3>1, <3>2
  <2>4. OrderWell' /\ AccountsFollow'
    BY <1>2, <1>4, <2>1, <2>3, MovementsStay DEF OrderWell, AccountsFollow
  <2>5. ASSUME calm PROVE OrderCalm'
    <3>1. OrderCalm /\ wo.status = "CLOSED" /\ left = Remaining(wo)
      BY <1>1, <1>2, <1>3, <2>5 DEF OrderAsRead
    <3>2. WipFollows'
      BY <1>2, <1>4, <1>6, <2>1, <2>3, <3>1, MovementsStay DEF OrderCalm, WipFollows
    <3>3. UnitsFollow' /\ StatusFollows'
      BY <1>4, <2>1, <3>1, MovementsStay DEF OrderCalm, UnitsFollow, StatusFollows
    <3> QED BY <3>2, <3>3 DEF OrderCalm
  <2> QED BY <1>1, <1>4, <2>4, <2>5, OrderIsDone
<1> QED BY <1>1, <1>3, <1>5, <1>6 DEF CloseVariance, CloseFails

(* A sale takes finished units only. *)
LEMMA SaleKeeps ==
  ASSUME WorkOrderInv, SellFinished
  PROVE  WorkOrderInv'
<1>1. /\ fin.qty > 0 /\ fin' = [fin EXCEPT !.qty = @ - 1]
      /\ UNCHANGED <<wo, mat, moves, comp, hours, gl, req, overlaps>>
  BY DEF SellFinished
<1>2. fin' \in [qty : Nat, avg : Nat]
  <2>1. fin \in [qty : Nat, avg : Nat]
    BY DEF WorkOrderInv, OrderWell
  <2>2. PICK n \in Nat : n = fin.qty - 1
    BY <1>1, <2>1
  <2>3. fin' = [fin EXCEPT !.qty = n]
    BY <1>1, <2>1, <2>2
  <2> QED BY <2>1, <2>3
<1>3. OrderWell' /\ OrderReadsWell' /\ AccountsFollow'
  BY <1>1, <1>2, MovementsStay
     DEF WorkOrderInv, OrderWell, OrderReadsWell, RequestsOK, Alone, calm, AccountsFollow, OrderRead
<1>4. ASSUME calm' PROVE OrderCalm' /\ \A d \in Clients : req'[d] # Idle => OrderAsRead(req[d])'
  <2>1. OrderCalm /\ \A d \in Clients : req[d] # Idle => OrderAsRead(req[d])
    BY <1>1, <1>4 DEF WorkOrderInv, calm
  <2> QED BY <1>1, <2>1, MovementsStay
          DEF OrderCalm, WipFollows, UnitsFollow, StatusFollows, Remaining, OrderAsRead
<1> QED BY <1>3, <1>4 DEF WorkOrderInv

(* A planned order, with no movement and empty accounts. *)
LEMMA WorkOrderBegins == InitWorkOrder => WorkOrderInv
<1> SUFFICES ASSUME InitWorkOrder PROVE WorkOrderInv
  OBVIOUS
<1>1. /\ wo = [status |-> "PLANNED", completed |-> 0, scrapped |-> 0, material |-> 0, labour |-> 0,
               overhead |-> 0, goods |-> 0, cleared |-> FALSE]
      /\ mat = [status |-> "OPEN", issued |-> 0, scrapped |-> 0, cost |-> 0]
      /\ moves = <<>> /\ comp = Stock /\ fin = [qty |-> 0, avg |-> 0] /\ hours = NoHours
      /\ gl = [a \in WipAccounts |-> 0] /\ InitRequests
  BY DEF InitWorkOrder
<1>2. RequestsOK /\ AllIdle /\ overlaps \in 0 .. MaxOverlaps
  <2>1. overlaps = 0
    BY <1>1 DEF InitRequests
  <2> QED BY <1>1, <2>1, RequestsBegin, OverlapAssumption
<1>3. wo \in WorkOrder /\ mat \in WorkOrderMaterial
  BY <1>1 DEF WorkOrder, WorkOrderMaterial, OrderStatuses
<1>4. OrderWell
  <2>1. hours \in Hours /\ gl \in [WipAccounts -> Int]
    BY <1>1 DEF Hours, NoHours
  <2> QED BY <1>1, <1>3, <2>1, PlanAssumption DEF OrderWell
<1>5. \A kind : Left(kind) = 0 /\ Net(kind) = 0 /\ Restored = 0
  <2>1. IsFiniteSet({}) /\ DOMAIN moves = {}
    BY <1>1, FS_EmptySet
  <2>2. ASSUME NEW f, DOMAIN f = {}, f = [i \in {} |-> f[i]] PROVE SumFunction(f) = 0
    <3>1. f \in [{} -> Nat] /\ \A i \in {} : f[i] = 0
      BY <2>2
    <3> QED BY ONLY <2>1, <3>1, SumZero
  <2> SUFFICES ASSUME NEW kind PROVE Left(kind) = 0 /\ Net(kind) = 0 /\ Restored = 0
    OBVIOUS
  <2>3. PICK f, g, h : /\ f = [m \in DOMAIN moves |-> IF moves[m].kind = kind THEN moves[m].qty - moves[m].reversed ELSE 0]
                       /\ g = [m \in DOMAIN moves |-> IF moves[m].kind = kind
                                                      THEN moves[m].qty * moves[m].cost - moves[m].back ELSE 0]
                       /\ h = [m \in DOMAIN moves |-> IF moves[m].kind = "COMPLETION" THEN moves[m].back ELSE 0]
    OBVIOUS
  <2>4. Left(kind) = SumFunction(f) /\ Net(kind) = SumFunction(g) /\ Restored = SumFunction(h)
    BY <2>3 DEF Left, Net, Restored
  <2> QED BY <2>1, <2>2, <2>3, <2>4
<1>6. AccountsFollow /\ OrderCalm
  <2>1. \A a \in WipAccounts : gl[a] = 0
    BY <1>1
  <2>2. "raw_material" \in WipAccounts /\ "finished_goods" \in WipAccounts /\ "wip" \in WipAccounts
    BY DEF WipAccounts
  <2>3. wo.status = "PLANNED" /\ wo.completed = 0 /\ ~ wo.cleared /\ Remaining(wo) = 0
    BY <1>1 DEF Remaining
  <2>4. mat.issued = 0 /\ mat.cost = 0 /\ mat.status = "OPEN"
    BY <1>1
  <2>5. AccountsFollow /\ WipFollows
    BY <1>5, <2>1, <2>2, <2>3 DEF AccountsFollow, WipFollows
  <2>6. UnitsFollow /\ StatusFollows
    BY <1>1, <1>5, <2>3, <2>4, PlanAssumption DEF UnitsFollow, StatusFollows
  <2> QED BY <2>5, <2>6 DEF OrderCalm
<1> QED BY <1>2, <1>4, <1>6 DEF WorkOrderInv, OrderReadsWell, AllIdle

(* Every step keeps the invariant. *)
LEMMA WorkOrderKeeps == WorkOrderInv /\ [NextWorkOrder]_workOrderVars => WorkOrderInv'
<1> SUFFICES ASSUME WorkOrderInv, [NextWorkOrder]_workOrderVars PROVE WorkOrderInv'
  OBVIOUS
<1>1. CASE UNCHANGED workOrderVars
  <2>1. UNCHANGED <<wo, mat, moves, comp, fin, hours, gl, req, overlaps>>
    BY <1>1 DEF workOrderVars
  <2>2. OrderWell' /\ OrderReadsWell' /\ AccountsFollow'
    BY <2>1, MovementsStay
       DEF WorkOrderInv, OrderWell, OrderReadsWell, RequestsOK, Alone, calm, AccountsFollow, OrderRead
  <2>3. ASSUME calm' PROVE OrderCalm' /\ \A d \in Clients : req'[d] # Idle => OrderAsRead(req[d])'
    <3>1. OrderCalm /\ \A d \in Clients : req[d] # Idle => OrderAsRead(req[d])
      BY <2>1, <2>3 DEF WorkOrderInv, calm
    <3> QED BY <2>1, <3>1, MovementsStay
            DEF OrderCalm, WipFollows, UnitsFollow, StatusFollows, Remaining, OrderAsRead
  <2> QED BY <2>2, <2>3 DEF WorkOrderInv
<1>2. CASE SellFinished
  BY <1>2, SaleKeeps
<1>3. ASSUME NEW c \in Clients,
             \/ WorkOrderAction(c) \/ WorkOrderRelease(c) \/ WorkOrderIssue(c) \/ WorkOrderComplete(c)
             \/ WorkOrderCorrect(c) \/ WorkOrderBook(c)
      PROVE  WorkOrderInv'
  BY <1>3, PageKeeps
<1>4. ASSUME NEW c \in Clients,
             \/ SaveStatus(c) \/ Issue(c) \/ Complete(c) \/ ScrapMaterial(c) \/ ScrapGoods(c)
             \/ ReverseIssue(c) \/ ReverseCompletion(c) \/ Book(c) \/ Close(c) \/ CloseVariance(c)
             \/ CloseFails(c)
      PROVE  WorkOrderInv'
  BY <1>4, StatusKeeps, IssueKeeps, CompleteKeeps, ScrapMaterialKeeps, ScrapGoodsKeeps, ReverseIssueKeeps,
     ReverseCompletionKeeps, BookKeeps, CloseKeeps, CloseVarianceKeeps
<1> QED BY <1>1, <1>2, <1>3, <1>4 DEF NextWorkOrder

(* The invariant holds in every state, however requests overlap. *)
THEOREM WorkOrderInvariant == WorkOrderSpec => []WorkOrderInv
BY WorkOrderBegins, WorkOrderKeeps, PTL DEF WorkOrderSpec

(* The order, its line, its movements, the stock and the accounts keep their types, and no
   movement is marked as reversed beyond its quantity, though a request marks it by what it
   read before the product was locked (work_order_correction.py). *)
THEOREM WorkOrderTypesHold == WorkOrderSpec => []WorkOrderTypes
<1>1. WorkOrderInv => WorkOrderTypes
  BY DEF WorkOrderInv, OrderWell, OrderReadsWell, OrderRead, WorkOrderTypes
<1> QED BY <1>1, WorkOrderInvariant, PTL

(* For any quantities, costs and rates, and any number of requests and movements: the raw
   material and finished goods accounts hold what the movements cost, through every race;
   and while requests come one at a time the WIP account is what the order's own figures
   say is left, nothing once its variance is posted, but for the completions that were
   reversed (_post of work_order_posting.py against the wip_*_cost fields). *)
THEOREM WipFollowsOrder == WorkOrderSpec => []WipMatchesOrder
<1>1. WorkOrderInv => WipMatchesOrder
  BY DEF WorkOrderInv, AccountsFollow, OrderCalm, WipFollows, WipMatchesOrder
<1> QED BY <1>1, WorkOrderInvariant, PTL

(* While requests come one at a time, the material line, the component's stock and the
   order's completed quantity are what the movements left, and its status is the one those
   quantities call for, through issues, completions and reversals in any order
   (_update_material_status, complete_work_order, reverse_work_order_completion). *)
THEOREM OrderIsItsMovements == WorkOrderSpec => []OrderFollowsMovements
<1>1. WorkOrderInv => OrderFollowsMovements
  <2> SUFFICES ASSUME WorkOrderInv, calm PROVE OrderFollowsMovements
    BY DEF OrderFollowsMovements
  <2>1. UnitsFollow /\ StatusFollows /\ wo.status \in OrderStatuses
    BY DEF WorkOrderInv, OrderCalm, OrderWell, WorkOrder
  <2>2. CASE wo.status \in {"PLANNED", "FIRM", "CANCELLED"}
    BY <2>1, <2>2 DEF OrderFollowsMovements, UnitsFollow, StatusFollows
  <2>3. CASE wo.status = "RELEASED"
    BY <2>1, <2>3 DEF OrderFollowsMovements, UnitsFollow, StatusFollows
  <2>4. CASE wo.status = "PARTIALLY_COMPLETED"
    BY <2>1, <2>4 DEF OrderFollowsMovements, UnitsFollow, StatusFollows
  <2>5. CASE wo.status \in {"COMPLETED", "CLOSED"}
    BY <2>1, <2>5 DEF OrderFollowsMovements, UnitsFollow, StatusFollows
  <2> QED BY <2>1, <2>2, <2>3, <2>4, <2>5 DEF OrderStatuses
<1> QED BY <1>1, WorkOrderInvariant, PTL
=============================================================================
