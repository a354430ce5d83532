------------------------- MODULE CustomerOrdersProofs -------------------------
(***************************************************************************)
(* Theorems about CustomerOrders, for any number of orders, locations and  *)
(* racing requests.  TypeOK is inductive once it knows what a request      *)
(* carries.  Every endpoint changes the reservation of one order and moves *)
(* each balance by as much, so a balance stays the sum of what is held.    *)
(* What a strict tenant promises follows from the test of reserve_stock,   *)
(* because releasing the order's own hold first raises no balance.  That   *)
(* an order holds its lines rests on requests not overlapping (CalmInv).   *)
(***************************************************************************)
EXTENDS MCCustomerOrders, SumTheorems, TLAPS

(* Quantities are numbers. *)
LEMMA QuantityNat == \A q \in Quantities \cup {0} : q \in Nat
<1> TAKE q \in Quantities \cup {0}
<1>1. CASE q \in Quantities
  BY <1>1, QuantityAssumption
<1>2. CASE q = 0
  BY <1>2
<1> QED
  BY <1>1, <1>2

(* Releasing what an order holds keeps the balances typed and raises none. *)
LEMMA FreedLowers ==
  ASSUME TypeOK, NEW o \in Orders
  PROVE  /\ Freed(o) \in [Locations -> Int]
         /\ \A l \in Locations : Freed(o)[l] <= reserved[l]
<1>1. reserved \in [Locations -> Int]
  BY DEF TypeOK
<1>2. hold[o] \in Hold \cup {NoHold}
  BY DEF TypeOK
<1>3. CASE hold[o].qty = 0
  <2>1. Freed(o) = reserved
    BY <1>3 DEF Freed
  <2> QED
    BY <1>1, <2>1
<1>4. CASE hold[o].qty # 0
  <2>1. hold[o].loc \in Locations /\ hold[o].qty \in Nat
    <3>1. hold[o] # NoHold
      BY <1>4 DEF NoHold
    <3>2. hold[o].loc \in Locations /\ hold[o].qty \in Quantities
      BY <1>2, <3>1 DEF Hold
    <3> QED
      BY <3>2, QuantityAssumption
  <2> DEFINE loc == hold[o].loc
             qty == hold[o].qty
  <2>2. Freed(o) = [reserved EXCEPT ![loc] = reserved[loc] - qty]
    BY <1>4 DEF Freed
  <2> HIDE DEF loc, qty
  <2>3. loc \in Locations /\ qty \in Nat
    BY <2>1 DEF loc, qty
  <2> QED
    BY <1>1, <2>2, <2>3
<1> QED
  BY <1>3, <1>4

(* Reserving keeps the balances and the reservations typed. *)
LEMMA ReserveTyped ==
  ASSUME TypeOK, NEW o \in Orders, NEW loc \in Locations,
         NEW qty \in Quantities \cup {0}, Reserve(o, loc, qty)
  PROVE  /\ reserved' \in [Locations -> Int]
         /\ hold' \in [Orders -> Hold \cup {NoHold}]
<1>1. qty \in Int
  BY QuantityAssumption
<1>2. reserved' \in [Locations -> Int]
  BY <1>1, FreedLowers DEF Reserve
<1>3. (IF qty > 0 THEN [loc |-> loc, qty |-> qty] ELSE NoHold) \in Hold \cup {NoHold}
  BY QuantityAssumption DEF Hold, NoHold
<1>4. hold' \in [Orders -> Hold \cup {NoHold}]
  BY <1>3 DEF Reserve, TypeOK
<1> QED
  BY <1>2, <1>4

(* Reserving raises the reserved balance of one location at most, and for a
   strict tenant to no more than is on hand there. *)
LEMMA ReserveWithinStock ==
  ASSUME TypeOK, NEW o \in Orders, NEW loc \in Locations,
         NEW qty \in Quantities \cup {0}, Reserve(o, loc, qty), BlockNegative,
         NEW l \in Locations, reserved'[l] > reserved[l]
  PROVE  reserved'[l] <= onhand[l]
<1>1. qty \in Nat /\ onhand[l] \in Int /\ reserved[l] \in Int
  BY QuantityAssumption DEF TypeOK
<1>2. Freed(o) \in [Locations -> Int] /\ Freed(o)[l] <= reserved[l]
  BY FreedLowers
<1>3. reserved' = [Freed(o) EXCEPT ![loc] = @ + qty]
  BY DEF Reserve
<1>4. l = loc /\ qty > 0
  BY <1>1, <1>2, <1>3
<1>5. qty <= onhand[l] - Freed(o)[l]
  BY <1>4 DEF Reserve, Promisable
<1> QED
  BY <1>1, <1>2, <1>3, <1>4, <1>5

(* Releasing keeps the balances and the reservations typed. *)
LEMMA ReleaseTyped ==
  ASSUME TypeOK, NEW o \in Orders, Release(o)
  PROVE  /\ reserved' \in [Locations -> Int]
         /\ hold' \in [Orders -> Hold \cup {NoHold}]
         /\ \A l \in Locations : reserved'[l] <= reserved[l]
  BY FreedLowers DEF Release, TypeOK

(* The edited quantity is one an order may have. *)
LEMMA EditedTyped ==
  ASSUME TypeOK, NEW c \in Clients, req[c] # Idle, req[c].op = "edit"
  PROVE  /\ Edited(req[c]) \in Quantities \cup {0}
         /\ req[c].form.loc \in Locations
         /\ req[c].order \in Orders /\ req[c].seen \in Document
<1>1. req[c] \in Request /\ req[c].form \in Hold
  BY DEF TypeOK
<1>2. req[c].order \in Orders /\ req[c].seen \in Document
  BY <1>1 DEF Request
<1>3. order[req[c].order].qty \in Quantities \cup {0}
  BY <1>2 DEF TypeOK, Document
<1> QED
  BY <1>1, <1>2, <1>3 DEF Edited, Hold

-----------------------------------------------------------------------------
(* The orders start typed. *)
LEMMA InitTyped == Init => TypeOK
<1> SUFFICES ASSUME Init PROVE TypeOK
  OBVIOUS
<1>1. order \in [Orders -> Document]
  BY PlaceAssumption DEF Init, Document, Statuses
<1>2. hold \in [Orders -> Hold \cup {NoHold}]
  BY DEF Init
<1>3. reserved \in [Locations -> Int] /\ onhand \in [Locations -> Int]
  BY QuantityAssumption DEF Init
<1>4. drafts \in [Orders -> Seq(Lines)]
  BY DEF Init
<1>5. history \in [Orders -> [invoices : Nat, consumed : Nat, shipped : Nat]]
  BY DEF Init
<1>6. /\ req \in [Clients -> Request \cup {Idle}]
      /\ \A c \in Clients : req[c] # Idle /\ req[c].op = "edit" => req[c].form \in Hold
  BY DEF Init
<1> QED
  BY <1>1, <1>2, <1>3, <1>4, <1>5, <1>6 DEF TypeOK

(* A request that is done leaves the others as they were. *)
LEMMA DoneTyped ==
  ASSUME TypeOK, NEW c \in Clients, Done(c)
  PROVE  /\ req' \in [Clients -> Request \cup {Idle}]
         /\ \A d \in Clients : req'[d] # Idle /\ req'[d].op = "edit" => req'[d].form \in Hold
  BY DEF TypeOK, Done

(* What a request under way and its order are made of. *)
LEMMA RequestTyped ==
  ASSUME TypeOK, NEW c \in Clients, req[c] # Idle
  PROVE  /\ req[c] \in Request
         /\ req[c].order \in Orders
         /\ req[c].seen \in Document
         /\ req[c].seen.loc \in Locations
         /\ req[c].seen.qty \in Quantities \cup {0}
         /\ order[req[c].order] \in Document
         /\ order[req[c].order].qty \in Quantities \cup {0}
         /\ order[req[c].order].loc \in Locations
         /\ DOMAIN order[req[c].order] = {"status", "loc", "qty"}
  BY DEF TypeOK, Request, Document

(* Writing the status of an order keeps the orders typed. *)
LEMMA StatusTyped ==
  ASSUME TypeOK, NEW o \in Orders, NEW s \in Statuses,
         order' = [order EXCEPT ![o].status = s]
  PROVE  order' \in [Orders -> Document]
<1>1. order[o] \in Document
  BY DEF TypeOK
<1>2. [order[o] EXCEPT !.status = s] \in Document
  BY <1>1 DEF Document
<1> QED
  BY <1>2 DEF TypeOK
-----------------------------------------------------------------------------
(* Every step keeps the type invariant, endpoint by endpoint. *)
LEMMA StepTyped == TypeOK /\ [Next]_vars => TypeOK'
<1> SUFFICES ASSUME TypeOK, [Next]_vars PROVE TypeOK'
  OBVIOUS
<1> USE DEF TypeOK
<1>1. ASSUME NEW o \in Orders, NEW loc \in Locations, NEW qty \in Quantities,
             Create(o, loc, qty)
      PROVE  TypeOK'
  <2>1. [status |-> "DRAFT", loc |-> loc, qty |-> qty] \in Document
    BY DEF Document, Statuses
  <2> QED
    BY <1>1, <2>1 DEF Create
<1>2. ASSUME NEW o \in Orders, NEW qty \in Quantities, ConvertQuote(o, qty)
      PROVE  TypeOK'
  <2>1. [status |-> "CONFIRMED", loc |-> DefaultLocation, qty |-> qty] \in Document
    BY PlaceAssumption DEF Document, Statuses
  <2> QED
    BY <1>2, <2>1 DEF ConvertQuote
<1>3. ASSUME NEW o \in Orders, Issue(o) PROVE TypeOK'
  <2>1. drafts[o] \in Seq(Lines) /\ drafts[o] # <<>>
    BY <1>3 DEF Issue
  <2>2. Head(drafts[o]) \in Lines /\ Tail(drafts[o]) \in Seq(Lines)
    BY <2>1
  <2> DEFINE qty == Head(drafts[o]).qty
             loc == Head(drafts[o]).loc
  <2>3. qty \in Nat /\ loc \in Locations
    <3>1. qty \in Quantities \cup {0} /\ loc \in Locations
      BY <2>2 DEF Lines
    <3> HIDE DEF qty, loc
    <3> QED
      BY <3>1, QuantityNat
  <2>4. /\ onhand' = [onhand EXCEPT ![loc] = @ - qty]
        /\ drafts' = [drafts EXCEPT ![o] = Tail(@)]
        /\ history' = [history EXCEPT ![o].shipped = @ + qty]
        /\ UNCHANGED <<order, hold, reserved, req>>
    BY <1>3 DEF Issue
  <2> HIDE DEF qty, loc
  <2>5. onhand' \in [Locations -> Int]
    BY <2>3, <2>4
  <2>6. drafts' \in [Orders -> Seq(Lines)]
    BY <2>2, <2>4
  <2>7. history' \in [Orders -> [invoices : Nat, consumed : Nat, shipped : Nat]]
    <3> DEFINE told == [history[o] EXCEPT !.shipped = @ + qty]
    <3>1. history[o] \in [invoices : Nat, consumed : Nat, shipped : Nat]
      OBVIOUS
    <3>2. told.shipped = history[o].shipped + qty
      BY <3>1
    <3>3. told.shipped \in Nat
      BY <2>3, <3>1, <3>2
    <3>4. told \in [invoices : Nat, consumed : Nat, shipped : Nat]
      BY <3>1, <3>3
    <3>5. history' = [history EXCEPT ![o] = told]
      BY <2>4
    <3> HIDE DEF told
    <3> QED
      BY <3>4, <3>5
  <2> QED
    BY <2>4, <2>5, <2>6, <2>7
<1>4. ASSUME NEW c \in Clients, NEW op \in Ops, NEW o \in Orders, NEW form \in Hold \cup {NoHold},
             op = "edit" => form \in Hold, Load(c, op, o, form)
      PROVE  TypeOK'
  <2> DEFINE r == [op |-> op, order |-> o, seen |-> order[o], form |-> form, scan |-> "none"]
  <2>1. r \in Request /\ (r.op = "edit" => r.form \in Hold)
    BY <1>4 DEF Request
  <2>2. req' = [req EXCEPT ![c] = r] /\ UNCHANGED <<order, hold, reserved, onhand, drafts, history>>
    BY <1>4 DEF Load
  <2> HIDE DEF r
  <2>3. req' \in [Clients -> Request \cup {Idle}]
    BY <2>1, <2>2
  <2>4. \A d \in Clients : req'[d] # Idle /\ req'[d].op = "edit" => req'[d].form \in Hold
    BY <2>1, <2>2
  <2> QED
    BY <2>2, <2>3, <2>4
<1>5. ASSUME NEW c \in Clients, Confirm(c) PROVE TypeOK'
  <2>1. req[c] # Idle /\ Done(c) /\ UNCHANGED <<onhand, drafts, history>>
    BY <1>5 DEF Confirm
  <2>2. order' \in [Orders -> Document]
    BY <1>5, <2>1, RequestTyped, StatusTyped DEF Confirm, Statuses
  <2>3. reserved' \in [Locations -> Int] /\ hold' \in [Orders -> Hold \cup {NoHold}]
    BY <1>5, <2>1, RequestTyped, ReserveTyped DEF Confirm
  <2> QED
    BY <2>1, <2>2, <2>3, DoneTyped
<1>6. ASSUME NEW c \in Clients, Cancel(c) PROVE TypeOK'
  <2>1. req[c] # Idle /\ Done(c) /\ UNCHANGED <<onhand, drafts, history>>
    BY <1>6 DEF Cancel
  <2>2. order' \in [Orders -> Document]
    BY <1>6, <2>1, RequestTyped, StatusTyped DEF Cancel, Statuses
  <2>3. reserved' \in [Locations -> Int] /\ hold' \in [Orders -> Hold \cup {NoHold}]
    BY <1>6, <2>1, RequestTyped, ReleaseTyped DEF Cancel
  <2> QED
    BY <2>1, <2>2, <2>3, DoneTyped
<1>7. ASSUME NEW c \in Clients, ToInvoice(c) PROVE TypeOK'
  <2> DEFINE o == req[c].order
             line == [loc |-> req[c].seen.loc, qty |-> req[c].seen.qty]
             held == hold[o].qty
  <2>1. req[c] # Idle /\ Done(c) /\ UNCHANGED onhand
    BY <1>7 DEF ToInvoice
  <2>2. o \in Orders /\ line \in Lines
    BY <2>1, RequestTyped DEF Lines
  <2>3. held \in Nat
    <3>1. hold[o] \in Hold \cup {NoHold}
      BY <2>2
    <3>2. held \in Quantities \cup {0}
      BY <3>1 DEF Hold, NoHold
    <3> HIDE DEF held
    <3> QED
      BY <3>2, QuantityNat
  <2>4. order' \in [Orders -> Document]
    BY <1>7, <2>2, StatusTyped DEF ToInvoice, Statuses
  <2>5. reserved' \in [Locations -> Int] /\ hold' \in [Orders -> Hold \cup {NoHold}]
    BY <1>7, <2>2, ReleaseTyped DEF ToInvoice
  <2>6. /\ drafts' = [drafts EXCEPT ![o] = Append(@, line)]
        /\ history' = [history EXCEPT ![o].invoices = @ + 1, ![o].consumed = @ + held]
    BY <1>7 DEF ToInvoice
  <2> HIDE DEF o, line, held
  <2>7. drafts' \in [Orders -> Seq(Lines)]
    <3>1. Append(drafts[o], line) \in Seq(Lines)
      BY <2>2
    <3> QED
      BY <2>6, <3>1
  <2>8. history' \in [Orders -> [invoices : Nat, consumed : Nat, shipped : Nat]]
    <3> DEFINE told == [history[o] EXCEPT !.invoices = @ + 1, !.consumed = @ + held]
    <3>1. history[o] \in [invoices : Nat, consumed : Nat, shipped : Nat]
      BY <2>2
    <3>2. told \in [invoices : Nat, consumed : Nat, shipped : Nat]
      <4>1. told.invoices = history[o].invoices + 1 /\ told.consumed = history[o].consumed + held
        BY <3>1
      <4>2. told.invoices \in Nat /\ told.consumed \in Nat
        BY <2>3, <3>1, <4>1
      <4> QED
        BY <3>1, <4>2
    <3>3. history' = [history EXCEPT ![o] = told]
      BY <2>6
    <3> HIDE DEF told
    <3> QED
      BY <2>2, <3>2, <3>3
  <2> QED
    BY <2>1, <2>4, <2>5, <2>7, <2>8, DoneTyped
<1>8. ASSUME NEW c \in Clients, Edit(c) PROVE TypeOK'
  <2> DEFINE o == req[c].order
             qty == Edited(req[c])
             loc == req[c].form.loc
             saved == [status |-> req[c].seen.status, loc |-> loc, qty |-> qty]
  <2>1. req[c] # Idle /\ req[c].op = "edit" /\ Done(c) /\ UNCHANGED <<onhand, drafts, history>>
    BY <1>8 DEF Edit
  <2>2. o \in Orders /\ loc \in Locations /\ qty \in Quantities \cup {0} /\ saved \in Document
    BY <2>1, EditedTyped DEF Document
  <2>3. order' = [order EXCEPT ![o] = saved]
    BY <1>8 DEF Edit
  <2>4. Reserve(o, loc, qty) \/ UNCHANGED <<hold, reserved>>
    BY <1>8 DEF Edit
  <2> HIDE DEF o, qty, loc, saved
  <2>5. order' \in [Orders -> Document]
    BY <2>2, <2>3
  <2>6. reserved' \in [Locations -> Int] /\ hold' \in [Orders -> Hold \cup {NoHold}]
    BY <2>2, <2>4, ReserveTyped
  <2> QED
    BY <2>1, <2>5, <2>6, DoneTyped
<1>9. ASSUME NEW c \in Clients, Scan(c) PROVE TypeOK'
  <2> DEFINE found == IF hold[req[c].order].qty > 0 THEN "found" ELSE "clear"
  <2>1. req[c] \in Request /\ req[c].op = "delete"
    BY <1>9 DEF Scan
  <2>2. req' = [req EXCEPT ![c].scan = found] /\ UNCHANGED <<order, hold, reserved, onhand, drafts, history>>
    BY <1>9 DEF Scan
  <2>3. found \in {"none", "found", "clear"}
    OBVIOUS
  <2> HIDE DEF found
  <2>4. [req[c] EXCEPT !.scan = found] \in Request /\ [req[c] EXCEPT !.scan = found].op = "delete"
    BY <2>1, <2>3 DEF Request
  <2>5. req' = [req EXCEPT ![c] = [req[c] EXCEPT !.scan = found]]
    BY <2>2
  <2> DEFINE r == [req[c] EXCEPT !.scan = found]
  <2>6. r \in Request /\ r.op = "delete" /\ req' = [req EXCEPT ![c] = r]
    BY <2>4, <2>5
  <2> HIDE DEF r
  <2>7. req' \in [Clients -> Request \cup {Idle}]
    BY <2>6
  <2>8. \A d \in Clients : req'[d] # Idle /\ req'[d].op = "edit" => req'[d].form \in Hold
    BY <2>6
  <2> QED
    BY <2>2, <2>7, <2>8
<1>10. ASSUME NEW c \in Clients, Delete(c) PROVE TypeOK'
  <2>1. req[c] # Idle /\ Done(c) /\ UNCHANGED <<onhand, drafts, history>>
    BY <1>10 DEF Delete
  <2>2. order' \in [Orders -> Document]
    BY <1>10, <2>1, RequestTyped, StatusTyped DEF Delete, Statuses
  <2>3. reserved' \in [Locations -> Int] /\ hold' \in [Orders -> Hold \cup {NoHold}]
    BY <1>10, <2>1, RequestTyped, ReleaseTyped DEF Delete
  <2> QED
    BY <2>1, <2>2, <2>3, DoneTyped
<1>11. ASSUME NEW c \in Clients, Fail(c) PROVE TypeOK'
  BY <1>11, DoneTyped DEF Fail
<1>12. CASE UNCHANGED vars
  BY <1>12 DEF vars
<1>13. NoHold \in Hold \cup {NoHold} /\ \A loc \in Locations, qty \in Quantities :
                                       [loc |-> loc, qty |-> qty] \in Hold
  BY DEF Hold
<1> HIDE DEF TypeOK
<1>14. ASSUME NEW c \in Clients, NEW op \in Ops \ {"edit"}, NEW o \in Orders, Load(c, op, o, NoHold)
       PROVE  TypeOK'
  BY <1>4, <1>14, <1>13
<1>15. ASSUME NEW c \in Clients, NEW o \in Orders, NEW loc \in Locations, NEW qty \in Quantities,
              Load(c, "edit", o, [loc |-> loc, qty |-> qty])
       PROVE  TypeOK'
  <2>1. "edit" \in Ops
    BY DEF Ops
  <2> QED
    BY <1>4, <1>15, <1>13, <2>1
<1> QED
  BY <1>1, <1>2, <1>3, <1>5, <1>6, <1>7, <1>8, <1>9, <1>10, <1>11, <1>12, <1>14, <1>15 DEF Next

(* Whatever requests race, an order has at most one active reservation, for a
   quantity it was given, and every row keeps its type (TypeOK). *)
THEOREM OrdersStayTyped == Spec => []TypeOK
<1>1. Init => TypeOK
  BY InitTyped
<1>2. TypeOK /\ [Next]_vars => TypeOK'
  BY StepTyped
<1> QED
  BY <1>1, <1>2, PTL DEF Spec

(* What an order holds at a location is a number. *)
LEMMA HoldTyped ==
  ASSUME NEW h \in Hold \cup {NoHold}, NEW l
  PROVE  (IF h.loc = l THEN h.qty ELSE 0) \in Int
<1>1. h.qty \in Quantities \cup {0}
  BY DEF Hold, NoHold
<1> QED
  BY <1>1, QuantityNat

(* The same for every order, before a step and after it. *)
LEMMA HeldTyped ==
  ASSUME NEW l
  PROVE  /\ TypeOK => HeldAt(l) \in [Orders -> Int]
         /\ TypeOK' => HeldAt(l)' \in [Orders -> Int]
  BY HoldTyped DEF HeldAt, TypeOK

(* Releasing takes from each balance what the order held there. *)
LEMMA FreedLocation ==
  ASSUME TypeOK, NEW o \in Orders, NEW l \in Locations
  PROVE  Freed(o)[l] = reserved[l] - HeldAt(l)[o]
<1> DEFINE q == hold[o].qty
<1>1. q \in Int /\ reserved[l] \in Int /\ reserved \in [Locations -> Int]
  <2>1. hold[o] \in Hold \cup {NoHold}
    BY DEF TypeOK
  <2>2. q \in Quantities \cup {0}
    BY <2>1 DEF Hold, NoHold
  <2> QED
    BY <2>2, QuantityNat DEF TypeOK
<1>2. HeldAt(l)[o] = IF hold[o].loc = l THEN q ELSE 0
  BY DEF HeldAt
<1>3. Freed(o) = IF q = 0 THEN reserved ELSE [reserved EXCEPT ![hold[o].loc] = @ - q]
  BY DEF Freed
<1> HIDE DEF q
<1>4. CASE q = 0
  BY <1>1, <1>2, <1>3, <1>4
<1>5. CASE q # 0 /\ hold[o].loc = l
  BY <1>1, <1>2, <1>3, <1>5
<1>6. CASE q # 0 /\ hold[o].loc # l
  BY <1>1, <1>2, <1>3, <1>6
<1> QED
  BY <1>4, <1>5, <1>6

(* A step that changes what one order holds, and each balance by as much, keeps
   the balances what is held. *)
LEMMA HoldMoves ==
  ASSUME TypeOK, TypeOK', ReservedIsHeld, NEW o \in Orders,
         \A p \in Orders \ {o} : hold'[p] = hold[p],
         \A l \in Locations : reserved'[l] = reserved[l] + HeldAt(l)'[o] - HeldAt(l)[o]
  PROVE  ReservedIsHeld'
<1> SUFFICES ASSUME NEW l \in Locations PROVE reserved'[l] = SumFunction(HeldAt(l)')
  BY DEF ReservedIsHeld
<1>1. HeldAt(l) \in [Orders -> Int]
  BY HeldTyped
<1>2. HeldAt(l)' \in [Orders -> Int]
  BY HeldTyped
<1>3. \A p \in Orders \ {o} : HeldAt(l)'[p] = HeldAt(l)[p]
  BY DEF HeldAt
<1>4. SumFunction(HeldAt(l)') = SumFunction(HeldAt(l)) + HeldAt(l)'[o] - HeldAt(l)[o]
  BY <1>1, <1>2, <1>3, FiniteAssumption, SumUpdate
<1>5. reserved[l] = SumFunction(HeldAt(l))
  BY DEF ReservedIsHeld
<1> QED
  BY <1>4, <1>5

(* Releasing keeps the balances what is held ... *)
LEMMA ReleaseHeld ==
  ASSUME TypeOK, TypeOK', ReservedIsHeld, NEW o \in Orders, Release(o)
  PROVE  ReservedIsHeld'
<1>1. hold' = [hold EXCEPT ![o] = NoHold] /\ reserved' = Freed(o)
  BY DEF Release
<1>2. hold'[o] = NoHold /\ \A p \in Orders \ {o} : hold'[p] = hold[p]
  BY <1>1 DEF TypeOK
<1>3. \A l \in Locations : HeldAt(l)'[o] = 0
  BY <1>2 DEF HeldAt, NoHold
<1>4. ASSUME NEW l \in Locations
      PROVE  reserved'[l] = reserved[l] + HeldAt(l)'[o] - HeldAt(l)[o]
  <2>1. reserved[l] \in Int /\ HeldAt(l)[o] \in Int
    BY HeldTyped DEF TypeOK
  <2>2. reserved'[l] = reserved[l] - HeldAt(l)[o]
    BY <1>1, FreedLocation
  <2> QED
    BY <1>3, <2>1, <2>2
<1> QED
  BY <1>2, <1>4, HoldMoves

(* ... and so does reserving afresh. *)
LEMMA ReserveHeld ==
  ASSUME TypeOK, TypeOK', ReservedIsHeld, NEW o \in Orders, NEW loc \in Locations,
         NEW qty \in Quantities \cup {0}, Reserve(o, loc, qty)
  PROVE  ReservedIsHeld'
<1>1. /\ hold' = [hold EXCEPT ![o] = IF qty > 0 THEN [loc |-> loc, qty |-> qty] ELSE NoHold]
      /\ reserved' = [Freed(o) EXCEPT ![loc] = @ + qty]
  BY DEF Reserve
<1>2. /\ hold'[o] = IF qty > 0 THEN [loc |-> loc, qty |-> qty] ELSE NoHold
      /\ \A p \in Orders \ {o} : hold'[p] = hold[p]
  BY <1>1 DEF TypeOK
<1>3. qty \in Nat
  BY QuantityNat
<1>4. \A l \in Locations : HeldAt(l)'[o] = IF loc = l THEN qty ELSE 0
  <2>1. CASE qty > 0
    BY <1>2, <2>1 DEF HeldAt
  <2>2. CASE ~ (qty > 0)
    <3>1. qty = 0 /\ hold'[o].qty = 0
      BY <1>2, <1>3, <2>2 DEF NoHold
    <3> QED
      BY <3>1 DEF HeldAt
  <2> QED
    BY <2>1, <2>2
<1>5. ASSUME NEW l \in Locations
      PROVE  reserved'[l] = reserved[l] + HeldAt(l)'[o] - HeldAt(l)[o]
  <2>1. reserved[l] \in Int /\ HeldAt(l)[o] \in Int /\ Freed(o) \in [Locations -> Int]
    BY HeldTyped, FreedLowers DEF TypeOK
  <2>2. Freed(o)[l] = reserved[l] - HeldAt(l)[o]
    BY FreedLocation
  <2>3. reserved'[l] = Freed(o)[l] + IF loc = l THEN qty ELSE 0
    BY <1>1, <1>3, <2>1
  <2> QED
    BY <1>3, <1>4, <2>1, <2>2, <2>3
<1> QED
  BY <1>2, <1>5, HoldMoves

(* Every step keeps the reserved balances the sums of the reservations. *)
LEMMA StepHeld == TypeOK /\ TypeOK' /\ ReservedIsHeld /\ [Next]_vars => ReservedIsHeld'
<1> SUFFICES ASSUME TypeOK, TypeOK', ReservedIsHeld, [Next]_vars PROVE ReservedIsHeld'
  OBVIOUS
<1>1. CASE UNCHANGED <<hold, reserved>>
  BY <1>1 DEF ReservedIsHeld, HeldAt
<1>2. ASSUME NEW c \in Clients, Confirm(c) PROVE ReservedIsHeld'
  BY <1>2, RequestTyped, ReserveHeld DEF Confirm
<1>3. ASSUME NEW c \in Clients, Cancel(c) PROVE ReservedIsHeld'
  BY <1>3, RequestTyped, ReleaseHeld DEF Cancel
<1>4. ASSUME NEW c \in Clients, ToInvoice(c) PROVE ReservedIsHeld'
  BY <1>4, RequestTyped, ReleaseHeld DEF ToInvoice
<1>5. ASSUME NEW c \in Clients, Edit(c) PROVE ReservedIsHeld'
  BY <1>1, <1>5, EditedTyped, ReserveHeld DEF Edit
<1>6. ASSUME NEW c \in Clients, Delete(c) PROVE ReservedIsHeld'
  BY <1>1, <1>6, RequestTyped, ReleaseHeld DEF Delete
<1>7. ASSUME Next, ~UNCHANGED <<hold, reserved>>
      PROVE  \E c \in Clients : Confirm(c) \/ Cancel(c) \/ ToInvoice(c) \/ Edit(c) \/ Delete(c)
  BY <1>7 DEF Next, Create, ConvertQuote, Issue, Load, Scan, Fail
<1> QED
  BY <1>1, <1>2, <1>3, <1>4, <1>5, <1>6, <1>7 DEF vars

(* Whatever requests race, a location's reserved balance is the sum of the active
   reservations there: reserve_stock, release_reservations and
   consume_reservations leak no hold and free none twice (ReservedIsHeld). *)
THEOREM BalancesAreHeld == Spec => []ReservedIsHeld
<1>1. Init => ReservedIsHeld
  <2> SUFFICES ASSUME Init, NEW l \in Locations PROVE reserved[l] = SumFunction(HeldAt(l))
    BY DEF ReservedIsHeld
  <2>1. TypeOK
    BY InitTyped
  <2>2. HeldAt(l) \in [Orders -> Int]
    BY <2>1, HeldTyped
  <2>3. \A o \in Orders : HeldAt(l)[o] = 0
    BY DEF Init, HeldAt, NoHold
  <2>4. SumFunction(HeldAt(l)) = 0
    BY <2>2, <2>3, FiniteAssumption, SumZero
  <2> QED
    BY <2>4 DEF Init
<1> QED
  BY <1>1, StepHeld, OrdersStayTyped, PTL DEF Spec

(* Only reserving raises a reserved balance, and for a strict tenant to no
   more than is on hand. *)
LEMMA StepWithinStock ==
  ASSUME TypeOK, [Next]_vars, BlockNegative, NEW l \in Locations, reserved'[l] > reserved[l]
  PROVE  reserved'[l] <= onhand[l]
<1> SUFFICES \/ reserved'[l] <= onhand[l]
             \/ reserved'[l] <= reserved[l]
  <2>1. reserved[l] \in Int /\ reserved'[l] \in Int
    BY StepTyped DEF TypeOK
  <2> QED
    BY <2>1
<1>1. reserved[l] \in Int
  BY DEF TypeOK
<1>2. CASE UNCHANGED reserved
  BY <1>1, <1>2
<1>3. ASSUME NEW o \in Orders, Release(o) PROVE reserved'[l] <= reserved[l]
  BY <1>3, ReleaseTyped
<1>4. ASSUME NEW c \in Clients, Confirm(c) PROVE reserved'[l] <= onhand[l]
  BY <1>4, RequestTyped, ReserveWithinStock DEF Confirm
<1>5. ASSUME NEW c \in Clients, Cancel(c) PROVE reserved'[l] <= reserved[l]
  BY <1>3, <1>5, RequestTyped DEF Cancel
<1>6. ASSUME NEW c \in Clients, ToInvoice(c) PROVE reserved'[l] <= reserved[l]
  BY <1>3, <1>6, RequestTyped DEF ToInvoice
<1>7. ASSUME NEW c \in Clients, Edit(c) PROVE reserved'[l] <= onhand[l] \/ UNCHANGED reserved
  BY <1>7, EditedTyped, ReserveWithinStock DEF Edit
<1>8. ASSUME NEW c \in Clients, Delete(c) PROVE reserved'[l] <= reserved[l] \/ UNCHANGED reserved
  BY <1>3, <1>8, RequestTyped DEF Delete
<1>9. ASSUME Next, ~UNCHANGED reserved
      PROVE  \E c \in Clients : Confirm(c) \/ Cancel(c) \/ ToInvoice(c) \/ Edit(c) \/ Delete(c)
  BY <1>9 DEF Next, Create, ConvertQuote, Issue, Load, Scan, Fail
<1> QED
  BY <1>2, <1>4, <1>5, <1>6, <1>7, <1>8, <1>9 DEF vars

(* A strict tenant never promises stock it has not got, however many orders and
   requests compete for it (PromisesWithinStock). *)
THEOREM PromisesKept == Spec => PromisesWithinStock
<1> DEFINE Within == BlockNegative => \A l \in Locations :
                       reserved'[l] > reserved[l] => reserved'[l] <= onhand[l]
<1>1. TypeOK /\ [Next]_vars => [Within]_vars
  BY StepWithinStock
<1> QED
  BY <1>1, OrdersStayTyped, PTL DEF Spec, PromisesWithinStock

-----------------------------------------------------------------------------
(* What is true of the request of c while no request has overlapped another: it
   loaded the order as it still is, and a delete found what is still held. *)
Fresh(c) ==
  req[c] # Idle =>
    /\ Exists(req[c].order)
    /\ req[c].seen = order[req[c].order]
    /\ req[c].scan = "clear" => hold[req[c].order].qty = 0

(* Until requests overlap, the one under way is alone and fresh, and an order is
   for a quantity. *)
Calm ==
  /\ \A c \in Clients, d \in Clients : req[c] # Idle /\ req[d] # Idle => c = d
  /\ \A c \in Clients : Fresh(c)
  /\ \A o \in Orders : order[o].status # "NONE" => order[o].qty \in Quantities

CalmInv == overlaps \in Nat /\ (overlaps = 0 => Calm)

(* The checked specification is the orders' specification with a count. *)
LEMMA MCRefines == MCSpec => Spec
<1>1. MCInit => Init
  BY DEF MCInit
<1>2. [MCNext]_<<vars, overlaps>> => [Next]_vars
  BY DEF MCNext
<1> QED
  BY <1>1, <1>2, PTL DEF MCSpec, Spec

(* A request that is done leaves the others, and they know what they knew if the
   step touched its own order only. *)
LEMMA DoneCalm ==
  ASSUME TypeOK, Calm, NEW c \in Clients, req[c] # Idle, Done(c),
         \A o \in Orders : order'[o].status # "NONE" => order'[o].qty \in Quantities
  PROVE  Calm'
<1>1. \A d \in Clients : req'[d] = Idle
  <2> TAKE d \in Clients
  <2>1. req[d] # Idle => d = c
    BY DEF Calm
  <2> QED
    BY <2>1 DEF Done, TypeOK
<1> QED
  BY <1>1 DEF Calm, Fresh

(* A step that changes no request, no hold and no order that exists changes
   nothing a request knows. *)
LEMMA AsideCalm ==
  ASSUME TypeOK, Calm, UNCHANGED <<hold, req>>,
         \A o \in Orders : Exists(o) => order'[o] = order[o],
         \A o \in Orders : order'[o].status # "NONE" => order'[o].qty \in Quantities
  PROVE  Calm'
<1> SUFFICES ASSUME NEW c \in Clients, req[c] # Idle
             PROVE  Fresh(c)'
  BY DEF Calm, Fresh
<1>1. req[c].order \in Orders
  BY RequestTyped
<1>2. Exists(req[c].order) /\ Fresh(c)
  BY DEF Calm, Fresh
<1>3. order'[req[c].order] = order[req[c].order]
  BY <1>1, <1>2
<1> QED
  BY <1>2, <1>3 DEF Fresh, Exists

(* A status written to an order that exists keeps its quantity. *)
LEMMA StatusCalm ==
  ASSUME TypeOK, Calm, NEW c \in Clients, req[c] # Idle, Done(c), Exists(req[c].order),
         NEW s \in Statuses, order' = [order EXCEPT ![req[c].order].status = s]
  PROVE  Calm'
<1> DEFINE o == req[c].order
<1>1. o \in Orders /\ order[o] \in Document /\ order[o].status # "NONE"
  BY RequestTyped DEF Exists
<1>2. order' = [order EXCEPT ![o] = [order[o] EXCEPT !.status = s]]
  OBVIOUS
<1>3. [order[o] EXCEPT !.status = s].qty = order[o].qty
  BY <1>1 DEF Document
<1> HIDE DEF o
<1>4. order[o].qty \in Quantities
  BY <1>1 DEF Calm
<1>5. \A p \in Orders : order'[p].status # "NONE" => order'[p].qty \in Quantities
  <2> TAKE p \in Orders
  <2>1. CASE p = o
    BY <1>1, <1>2, <1>3, <1>4, <2>1 DEF TypeOK
  <2>2. CASE p # o
    BY <1>2, <2>2 DEF TypeOK, Calm
  <2> QED
    BY <2>1, <2>2
<1> QED
  BY <1>5, DoneCalm

(* What an edit saves is a quantity, if the order is as it was loaded. *)
LEMMA EditedSized ==
  ASSUME TypeOK, Calm, NEW c \in Clients, req[c] # Idle, req[c].op = "edit"
  PROVE  Edited(req[c]) \in Quantities
<1>1. req[c].form \in Hold
  BY DEF TypeOK
<1>2. req[c].order \in Orders /\ Exists(req[c].order)
  BY RequestTyped DEF Calm, Fresh
<1>3. order[req[c].order].qty \in Quantities
  BY <1>2 DEF Calm, Exists
<1> QED
  BY <1>1, <1>2, <1>3 DEF Edited, Hold

(* An order holds a number. *)
LEMMA HoldQuantity ==
  ASSUME TypeOK, NEW o \in Orders
  PROVE  hold[o].qty \in Nat /\ (hold[o].qty = 0 => hold[o] = NoHold)
<1>1. hold[o] \in Hold \cup {NoHold}
  BY DEF TypeOK
<1>2. CASE hold[o] = NoHold
  BY <1>2 DEF NoHold
<1>3. CASE hold[o] \in Hold
  <2>1. hold[o].qty \in Quantities
    BY <1>3 DEF Hold
  <2> DEFINE q == hold[o].qty
  <2> HIDE DEF q
  <2>2. q \in Nat \ {0}
    BY <2>1, QuantityAssumption DEF q
  <2> QED
    BY <2>2 DEF q
<1> QED
  BY <1>1, <1>2, <1>3

(* Every step that overlaps no request keeps the one under way fresh. *)
LEMMA StepCalm ==
  ASSUME TypeOK, Calm, Next, ~Overlapping
  PROVE  Calm'
<1> DEFINE Sized == \A o \in Orders : order'[o].status # "NONE" => order'[o].qty \in Quantities
<1>0. \A o \in Orders : order[o].status # "NONE" => order[o].qty \in Quantities
  BY DEF Calm
<1>1. ASSUME NEW o \in Orders, NEW loc \in Locations, NEW qty \in Quantities,
             Create(o, loc, qty)
      PROVE  Calm'
  BY <1>0, <1>1, AsideCalm DEF Create, Exists, TypeOK
<1>2. ASSUME NEW o \in Orders, NEW qty \in Quantities, ConvertQuote(o, qty)
      PROVE  Calm'
  BY <1>0, <1>2, AsideCalm DEF ConvertQuote, Exists, TypeOK
<1>3. ASSUME NEW o \in Orders, Issue(o) PROVE Calm'
  BY <1>0, <1>3, AsideCalm DEF Issue
<1>4. ASSUME NEW c \in Clients, NEW op \in Ops, NEW o \in Orders, NEW form \in Hold \cup {NoHold},
             Load(c, op, o, form)
      PROVE  Calm'
  <2> DEFINE r == [op |-> op, order |-> o, seen |-> order[o], form |-> form, scan |-> "none"]
  <2>1. req' = [req EXCEPT ![c] = r] /\ req[c] = Idle /\ Exists(o)
        /\ UNCHANGED <<order, hold>>
    BY <1>4 DEF Load
  <2>2. r.order = o /\ r.seen = order[o] /\ r.scan = "none"
    OBVIOUS
  <2> HIDE DEF r
  <2>3. \A d \in Clients : d # c => req'[d] = req[d]
    BY <2>1 DEF TypeOK
  <2>4. req'[c] = r
    BY <2>1 DEF TypeOK
  <2>5. CASE r = Idle
    <3>1. req' = req
      BY <2>1, <2>5 DEF TypeOK
    <3> QED
      BY <1>0, <2>1, <3>1, AsideCalm
  <2>6. CASE r # Idle
    <3>1. \A d \in Clients : req[d] = Idle
      BY <2>1, <2>4, <2>6 DEF Overlapping, UnderWay
    <3>2. \A d \in Clients : req'[d] # Idle => d = c
      BY <2>3, <3>1
    <3>3. Fresh(c)'
      BY <2>1, <2>2, <2>4 DEF Fresh, Exists
    <3> QED
      BY <1>0, <2>1, <3>2, <3>3 DEF Calm, Fresh
  <2> QED
    BY <2>5, <2>6
<1>5. ASSUME NEW c \in Clients, Confirm(c) PROVE Calm'
  <2>1. req[c] # Idle /\ Done(c) /\ Exists(req[c].order)
        /\ order' = [order EXCEPT ![req[c].order].status = "CONFIRMED"]
    BY <1>5 DEF Confirm
  <2> QED
    BY <2>1, StatusCalm DEF Statuses
<1>6. ASSUME NEW c \in Clients, Cancel(c) PROVE Calm'
  <2>1. req[c] # Idle /\ Done(c) /\ Exists(req[c].order)
        /\ order' = [order EXCEPT ![req[c].order].status = "CANCELLED"]
    BY <1>6 DEF Cancel
  <2> QED
    BY <2>1, StatusCalm DEF Statuses
<1>7. ASSUME NEW c \in Clients, ToInvoice(c) PROVE Calm'
  <2>1. req[c] # Idle /\ Done(c) /\ Exists(req[c].order)
        /\ order' = [order EXCEPT ![req[c].order].status = "INVOICED"]
    BY <1>7 DEF ToInvoice
  <2> QED
    BY <2>1, StatusCalm DEF Statuses
<1>8. ASSUME NEW c \in Clients, Edit(c) PROVE Calm'
  <2> DEFINE o == req[c].order
             saved == [status |-> req[c].seen.status, loc |-> req[c].form.loc, qty |-> Edited(req[c])]
  <2>1. req[c] # Idle /\ req[c].op = "edit" /\ Done(c) /\ order' = [order EXCEPT ![o] = saved]
    BY <1>8 DEF Edit
  <2>2. saved.qty \in Quantities
    BY <2>1, EditedSized
  <2>3. o \in Orders
    BY <2>1, RequestTyped
  <2> HIDE DEF o, saved
  <2>4. \A p \in Orders : order'[p].status # "NONE" => order'[p].qty \in Quantities
    BY <1>0, <2>1, <2>2, <2>3 DEF TypeOK
  <2> QED
    BY <2>1, <2>4, DoneCalm
<1>9. ASSUME NEW c \in Clients, Scan(c) PROVE Calm'
  <2> DEFINE o == req[c].order
             found == IF hold[o].qty > 0 THEN "found" ELSE "clear"
             r == [req[c] EXCEPT !.scan = found]
  <2>1. req[c] # Idle /\ req' = [req EXCEPT ![c] = r] /\ UNCHANGED <<order, hold>>
    BY <1>9 DEF Scan
  <2>2. hold[o].qty \in Nat /\ req[c] \in Request
    BY <2>1, RequestTyped, HoldQuantity
  <2>3. r.scan = "clear" => hold[o].qty = 0
    <3>1. r.scan = found
      BY <2>2 DEF Request
    <3> QED
      BY <2>2, <3>1
  <2>4. r.order = o /\ r.seen = req[c].seen
    BY <2>2 DEF Request
  <2> HIDE DEF o, found, r
  <2>5. req'[c] = r /\ \A d \in Clients : d # c => req'[d] = req[d]
    BY <2>1 DEF TypeOK
  <2>6. \A d \in Clients : d # c => req'[d] = Idle
    BY <2>1, <2>5 DEF Calm
  <2>7. Exists(o) /\ req[c].seen = order[o]
    BY <2>1 DEF Calm, Fresh, o
  <2>8. Fresh(c)'
    BY <2>1, <2>3, <2>4, <2>5, <2>7 DEF Fresh, Exists
  <2> QED
    BY <1>0, <2>1, <2>6, <2>8 DEF Calm, Fresh
<1>10. ASSUME NEW c \in Clients, Delete(c) PROVE Calm'
  <2>1. req[c] # Idle /\ Done(c)
        /\ order' = [order EXCEPT ![req[c].order].status = "DELETED"]
    BY <1>10 DEF Delete
  <2>2. Exists(req[c].order)
    BY <2>1 DEF Calm, Fresh
  <2> QED
    BY <2>1, <2>2, StatusCalm DEF Statuses
<1>11. ASSUME NEW c \in Clients, Fail(c) PROVE Calm'
  BY <1>0, <1>11, DoneCalm DEF Fail
<1>12. ASSUME NEW c \in Clients, NEW op \in Ops \ {"edit"}, NEW o \in Orders, Load(c, op, o, NoHold)
       PROVE  Calm'
  BY <1>4, <1>12
<1>13. ASSUME NEW c \in Clients, NEW o \in Orders, NEW loc \in Locations, NEW qty \in Quantities,
              Load(c, "edit", o, [loc |-> loc, qty |-> qty])
       PROVE  Calm'
  <2>1. "edit" \in Ops /\ [loc |-> loc, qty |-> qty] \in Hold \cup {NoHold}
    BY DEF Ops, Hold
  <2> QED
    BY <1>4, <1>13, <2>1
<1> QED
  BY <1>1, <1>2, <1>3, <1>5, <1>6, <1>7, <1>8, <1>9, <1>10, <1>11, <1>12, <1>13 DEF Next

(* Until requests overlap, CalmInv holds, and a step that overlaps ends it. *)
LEMMA CalmHolds == MCSpec => []CalmInv
<1>1. MCInit => CalmInv
  BY DEF MCInit, Init, CalmInv, Calm, Fresh
<1>2. TypeOK /\ CalmInv /\ [MCNext]_<<vars, overlaps>> => CalmInv'
  <2> SUFFICES ASSUME TypeOK, CalmInv, [MCNext]_<<vars, overlaps>> PROVE CalmInv'
    OBVIOUS
  <2>1. CASE UNCHANGED <<vars, overlaps>>
    BY <2>1 DEF vars, CalmInv, Calm, Fresh, Exists
  <2>2. CASE MCNext
    <3>1. overlaps' = overlaps + IF Overlapping THEN 1 ELSE 0
      BY <2>2 DEF MCNext
    <3>2. overlaps' \in Nat /\ (overlaps' = 0 => overlaps = 0 /\ ~Overlapping)
      BY <3>1 DEF CalmInv
    <3> QED
      BY <2>2, <3>2, StepCalm DEF MCNext, CalmInv
  <2> QED
    BY <2>1, <2>2
<1> QED
  BY <1>1, <1>2, MCRefines, OrdersStayTyped, PTL DEF MCSpec

(* While requests do not overlap, a step leaves every order with its lines held
   if they were: each endpoint, for the order it is about. *)
LEMMA StepHoldsLines ==
  ASSUME TypeOK, Calm, Next, NEW o \in Orders, order[o].status # "NONE", HoldsItsLines(o)
  PROVE  HoldsItsLines(o)'
<1>1. CASE order'[o] = order[o] /\ hold'[o] = hold[o]
  BY <1>1 DEF HoldsItsLines
<1>2. ASSUME NEW loc \in Locations, NEW qty \in Quantities, Reserve(o, loc, qty),
             order'[o].status = "CONFIRMED", order'[o].loc = loc, order'[o].qty = qty
      PROVE  HoldsItsLines(o)'
  <2>1. qty > 0
    BY QuantityAssumption
  <2>2. hold'[o] = [loc |-> loc, qty |-> qty]
    BY <1>2, <2>1 DEF Reserve, TypeOK
  <2> QED
    BY <1>2, <2>2 DEF HoldsItsLines
<1>3. ASSUME Release(o), order'[o].status # "CONFIRMED" PROVE HoldsItsLines(o)'
  BY <1>3 DEF Release, HoldsItsLines, TypeOK
<1>4. order[o] \in Document
  BY DEF TypeOK
<1>5. ASSUME NEW s \in Statuses, order' = [order EXCEPT ![o].status = s]
      PROVE  order'[o].status = s /\ order'[o].loc = order[o].loc /\ order'[o].qty = order[o].qty
  <2>1. order'[o] = [order[o] EXCEPT !.status = s]
    BY <1>5 DEF TypeOK
  <2> QED
    BY <1>4, <2>1 DEF Document
<1>6. ASSUME NEW c \in Clients, req[c] # Idle, req[c].order # o,
             Confirm(c) \/ Cancel(c) \/ ToInvoice(c) \/ Edit(c) \/ Delete(c)
      PROVE  HoldsItsLines(o)'
  <2>1. order'[o] = order[o]
    BY <1>6 DEF Confirm, Cancel, ToInvoice, Edit, Delete, TypeOK
  <2>2. hold'[o] = hold[o]
    BY <1>6 DEF Confirm, Cancel, ToInvoice, Edit, Delete, Reserve, Release, TypeOK
  <2> QED
    BY <1>1, <2>1, <2>2
<1>7. ASSUME NEW c \in Clients, req[c] # Idle, req[c].order = o
      PROVE  req[c].seen = order[o] /\ Exists(o) /\ order[o].qty \in Quantities
             /\ (req[c].scan = "clear" => hold[o].qty = 0)
  BY <1>7 DEF Calm, Fresh
<1>8. ASSUME NEW c \in Clients, Confirm(c), req[c].order = o PROVE HoldsItsLines(o)'
  <2>1. req[c] # Idle /\ order' = [order EXCEPT ![o].status = "CONFIRMED"]
        /\ Reserve(o, req[c].seen.loc, order[o].qty)
    BY <1>8 DEF Confirm
  <2>2. req[c].seen = order[o] /\ order[o].qty \in Quantities
    BY <1>7, <1>8, <2>1
  <2>3. order[o].loc \in Locations
    BY <1>4 DEF Document
  <2>4. order'[o].status = "CONFIRMED" /\ order'[o].loc = order[o].loc /\ order'[o].qty = order[o].qty
    BY <1>5, <2>1 DEF Statuses
  <2> QED
    BY <1>2, <2>1, <2>2, <2>3, <2>4
<1>9. ASSUME NEW c \in Clients, Cancel(c), req[c].order = o PROVE HoldsItsLines(o)'
  <2>1. order' = [order EXCEPT ![o].status = "CANCELLED"] /\ Release(o)
    BY <1>9 DEF Cancel
  <2>2. order'[o].status = "CANCELLED"
    BY <1>5, <2>1 DEF Statuses
  <2> QED
    BY <1>3, <2>1, <2>2
<1>10. ASSUME NEW c \in Clients, ToInvoice(c), req[c].order = o PROVE HoldsItsLines(o)'
  <2>1. order' = [order EXCEPT ![o].status = "INVOICED"] /\ Release(o)
    BY <1>10 DEF ToInvoice
  <2>2. order'[o].status = "INVOICED"
    BY <1>5, <2>1 DEF Statuses
  <2> QED
    BY <1>3, <2>1, <2>2
<1>11. ASSUME NEW c \in Clients, Edit(c), req[c].order = o PROVE HoldsItsLines(o)'
  <2> DEFINE qty == Edited(req[c])
             loc == req[c].form.loc
             status == req[c].seen.status
             saved == [status |-> status, loc |-> loc, qty |-> qty]
  <2>1. req[c] # Idle /\ req[c].op = "edit" /\ order' = [order EXCEPT ![o] = saved]
        /\ IF status = "CONFIRMED" THEN Reserve(o, loc, qty) ELSE UNCHANGED <<hold, reserved>>
    BY <1>11 DEF Edit
  <2>2. qty \in Quantities /\ loc \in Locations
    BY <2>1, EditedSized, EditedTyped
  <2>3. saved.status = status /\ saved.loc = loc /\ saved.qty = qty
    OBVIOUS
  <2>4. status = order[o].status
    BY <1>7, <1>11, <2>1
  <2> HIDE DEF qty, loc, saved, status
  <2>5. order'[o] = saved
    BY <2>1 DEF TypeOK
  <2>6. CASE status = "CONFIRMED"
    BY <1>2, <2>1, <2>2, <2>3, <2>5, <2>6
  <2>7. CASE status # "CONFIRMED"
    BY <2>1, <2>3, <2>4, <2>5, <2>7 DEF HoldsItsLines
  <2> QED
    BY <2>6, <2>7
<1>12. ASSUME NEW c \in Clients, Delete(c), req[c].order = o PROVE HoldsItsLines(o)'
  <2>1. /\ req[c] # Idle /\ req[c].scan # "none" /\ order' = [order EXCEPT ![o].status = "DELETED"]
        /\ IF req[c].scan = "found" THEN Release(o) ELSE UNCHANGED <<hold, reserved>>
    BY <1>12 DEF Delete
  <2>2. order'[o].status = "DELETED"
    BY <1>5, <2>1 DEF Statuses
  <2>3. CASE req[c].scan = "found"
    BY <1>3, <2>1, <2>2, <2>3
  <2>4. CASE req[c].scan # "found"
    <3>1. req[c].scan = "clear"
      BY <2>1, <2>4, RequestTyped DEF Request
    <3>2. hold[o] = NoHold
      BY <1>7, <1>12, <2>1, <3>1, HoldQuantity
    <3> QED
      BY <2>1, <2>2, <2>4, <3>2 DEF HoldsItsLines
  <2> QED
    BY <2>3, <2>4
<1>13. ASSUME NEW loc \in Locations, NEW qty \in Quantities, NEW p \in Orders,
              Create(p, loc, qty) \/ ConvertQuote(p, qty)
       PROVE  HoldsItsLines(o)'
  <2>1. p # o
    BY <1>13 DEF Create, ConvertQuote
  <2> QED
    BY <1>1, <1>13, <2>1 DEF Create, ConvertQuote, TypeOK
<1>14. CASE \/ \E p \in Orders : Issue(p)
            \/ \E c \in Clients, op \in Ops \ {"edit"}, p \in Orders : Load(c, op, p, NoHold)
            \/ \E c \in Clients, p \in Orders, loc \in Locations, qty \in Quantities :
                  Load(c, "edit", p, [loc |-> loc, qty |-> qty])
            \/ \E c \in Clients : Scan(c) \/ Fail(c)
  BY <1>1, <1>14 DEF Issue, Load, Scan, Fail
<1>15. ASSUME NEW c \in Clients, Confirm(c) \/ Cancel(c) \/ ToInvoice(c) \/ Edit(c) \/ Delete(c)
       PROVE  HoldsItsLines(o)'
  <2>1. req[c] # Idle
    BY <1>15 DEF Confirm, Cancel, ToInvoice, Edit, Delete
  <2> QED
    BY <1>6, <1>8, <1>9, <1>10, <1>11, <1>12, <1>15, <2>1
<1>16. ASSUME NEW p \in Orders, NEW qty \in Quantities, ConvertQuote(p, qty)
       PROVE  HoldsItsLines(o)'
  BY <1>13, <1>16, PlaceAssumption
<1> QED
  BY <1>13, <1>14, <1>15, <1>16 DEF Next

(* One request at a time, an order holds its lines while it is confirmed, whatever
   was confirmed, edited, invoiced, cancelled or deleted before (HoldsFollowOrder). *)
THEOREM HoldsStayWithLines == MCSpec => HoldsFollowOrder
<1> DEFINE Keeps == overlaps' = 0 =>
             \A o \in Orders : order[o].status # "NONE" /\ HoldsItsLines(o) => HoldsItsLines(o)'
<1>1. TypeOK /\ CalmInv /\ [MCNext]_<<vars, overlaps>> => [Keeps]_vars
  <2> SUFFICES ASSUME TypeOK, CalmInv, MCNext, overlaps' = 0 PROVE Keeps
    BY DEF vars
  <2>1. overlaps' = overlaps + IF Overlapping THEN 1 ELSE 0
    BY DEF MCNext
  <2>2. Calm
    BY <2>1 DEF CalmInv
  <2> QED
    BY <2>2, StepHoldsLines DEF MCNext
<1> QED
  BY <1>1, CalmHolds, MCRefines, OrdersStayTyped, PTL DEF MCSpec, HoldsFollowOrder
=============================================================================
