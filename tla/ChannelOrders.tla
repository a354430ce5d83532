---------------------------- MODULE ChannelOrders ----------------------------
(***************************************************************************)
(* Sales orders of the shops and marketplaces: what they hold and what     *)
(* posting them ships (sales_order_create, sales_order_post and            *)
(* _post_sales_order of views.py over services/bom.py and services/uom.py).*)
(*                                                                         *)
(* Everything is at one location.  Quantities are integers in the smallest *)
(* unit a quantity column keeps; what a line asks for is exploded into the *)
(* parts of its kit, for the reservation in the line's unit of measure and *)
(* for the shipment in the product's own.  An endpoint is one transaction; *)
(* it reads the order without a lock, and then holds the rows of the       *)
(* balances it changes until it ends.                                      *)
(***************************************************************************)
EXTENDS Requests, SequencesExt, Rounding

CONSTANTS
  ChannelOrderIds, Parts,
  Lines,        \* orders -> their lines: item, quantity, unit of measure
  Bom,          \* kits -> the parts of their first active bill, and how many of each
  BaseUom,      \* items -> Product.base_uom
  Conversions,  \* UOMConversion: item (or AnyItem), from, to, and the multiplier num / den
  AnyItem,
  UnitCost,     \* parts -> what a unit of it costs
  Shelf,        \* parts -> stock to begin with
  Strict,       \* Tenant.block_negative_stock
  MaxArrivals   \* bound: how often stock arrives

ASSUME ChannelAssumption ==
  /\ IsFiniteSet(ChannelOrderIds)
  /\ Strict \in BOOLEAN /\ MaxArrivals \in Nat /\ Shelf \in [Parts -> Nat]

VARIABLES
  sale,   \* orders -> status, ACTIVE reservations and the COGS journal
  sent,   \* orders -> parts -> what its movements took
  shelf,  \* parts -> InventoryBalance: on hand and reserved
  torn,   \* history: orders a post of which was refused half way
  arrivals \* stock that has arrived, how often

channel == <<sale, sent, shelf, torn, arrivals>>

NoParts == [p \in Parts |-> 0]

InitChannel ==
  /\ sale = [o \in ChannelOrderIds |-> [status |-> "NONE", held |-> NoParts, cogs |-> 0]]
  /\ sent = [o \in ChannelOrderIds |-> NoParts]
  /\ shelf = [p \in Parts |-> [onhand |-> Shelf[p], reserved |-> 0]]
  /\ torn = {}
  /\ arrivals = 0

-----------------------------------------------------------------------------
(* _conversion_multiplier, of one item or of any: a rule, or the reverse rule inverted. *)
RatesFor(item, from, to) ==
  LET Rules(a, b) == {r \in Conversions : r.item = item /\ r.from = a /\ r.to = b}
  IN  IF Rules(from, to) # {} THEN {<<r.num, r.den>> : r \in Rules(from, to)}
      ELSE {<<r.den, r.num>> : r \in Rules(to, from)}

(* units_per_base: the item's own rule before the tenant's; no rule, no rate. *)
Rates(item, uom) ==
  IF uom = BaseUom[item] THEN {<<1, 1>>}
  ELSE IF RatesFor(item, uom, BaseUom[item]) # {} THEN RatesFor(item, uom, BaseUom[item])
  ELSE RatesFor(AnyItem, uom, BaseUom[item])

(* to_base_qty: the quantities it may return, none when it raises. *)
ToBaseQty(item, qty, uom) == {HalfUp(qty * r[1], r[2]) : r \in Rates(item, uom)}

(* explode_product. *)
Explode(item, qty) ==
  IF item \in DOMAIN Bom
    THEN [i \in DOMAIN Bom[item] |-> [part |-> Bom[item][i].part, qty |-> qty * Bom[item][i].qty]]
    ELSE <<[part |-> item, qty |-> qty]>>

Refusal == [part |-> "none"]

(* What the order reserves, and what it ships or stumbles over. *)
ToHold(o) ==
  FlattenSeq([i \in DOMAIN Lines[o] |-> Explode(Lines[o][i].item, Lines[o][i].qty)])
ToShip(o) ==
  FlattenSeq([i \in DOMAIN Lines[o] |->
    LET l == Lines[o][i]
        q == ToBaseQty(l.item, l.qty, l.uom)
    IN  IF q = {} THEN <<Refusal>> ELSE Explode(l.item, CHOOSE x \in q : TRUE)])

(* Lines and bills ask for natural quantities of parts. *)
ASSUME WantsAssumption ==
  \A o \in ChannelOrderIds :
    /\ ToHold(o) \in Seq([part : Parts, qty : Nat])
    /\ ToShip(o) \in Seq([part : Parts, qty : Nat] \cup {Refusal})

(* How much of a part the first n wants ask for, and all of them. *)
Asked(wants, n, p) == SumFunction([i \in 1 .. n |-> IF wants[i].part = p THEN wants[i].qty ELSE 0])
Total(wants, p) == Asked(wants, Len(wants), p)

-----------------------------------------------------------------------------
(* A strict tenant promises and issues what there is left after the wants before. *)
Goes(wants, n, there) ==
  wants[n] # Refusal /\ (Strict => Asked(wants, n, wants[n].part) <= there[wants[n].part])

(* reserve_stock, want by want: all or nothing. *)
CanHold(wants) ==
  LET available == [p \in Parts |-> shelf[p].onhand - shelf[p].reserved]
  IN  \A n \in DOMAIN wants : Goes(wants, n, available)

(* apply_movement, want by want, until one is refused: how many were done. *)
Moved(wants) ==
  LET there == [p \in Parts |-> shelf[p].onhand]
  IN  Max({0} \cup {n \in DOMAIN wants : \A k \in 1 .. n : Goes(wants, k, there)})

(* What is left of each part, and what went out. *)
Shipping(wants) ==
  [ok   |-> Moved(wants) = Len(wants),
   left |-> [p \in Parts |-> shelf[p].onhand - Asked(wants, Moved(wants), p)],
   out  |-> [p \in Parts |-> Asked(wants, Moved(wants), p)]]

Worth(out) == SumFunction([p \in Parts |-> UnitCost[p] * out[p]])

(* post_cogs: an order that has a journal keeps it. *)
Cogs(o, out) == IF sale[o].cogs # 0 THEN sale[o].cogs ELSE Worth(out)

(* Slip: the shipped order goes on holding the stock. *)
ConsumedNothing(o, p) == 0

(* consume_reservations: what the order held of a part is held no more. *)
Consumed(o, p) == sale[o].held[p]

(* What _post_sales_order leaves when a movement is refused, or all of them are done. *)
PostSalesOrder(o) ==
  LET s == Shipping(ToShip(o))
  IN  /\ sale' = [sale EXCEPT ![o] =
           [status |-> IF s.ok THEN "POSTED" ELSE @.status,
            held   |-> [p \in Parts |-> @.held[p] - Consumed(o, p)],
            cogs   |-> IF s.ok THEN Cogs(o, s.out) ELSE @.cogs]]
      /\ shelf' = [p \in Parts |->
           [onhand |-> s.left[p], reserved |-> shelf[p].reserved - Consumed(o, p)]]
      /\ sent' = [sent EXCEPT ![o] = [p \in Parts |-> @[p] + s.out[p]]]
      /\ torn' = IF s.ok THEN torn ELSE torn \cup {o}

-----------------------------------------------------------------------------
(* sales_order_create: the draft holds its parts; a refusal rolls it back. *)
CreateSalesOrder(o) ==
  /\ sale[o].status = "NONE"
  /\ CanHold(ToHold(o))
  /\ sale' = [sale EXCEPT ![o] = [status |-> "DRAFT", cogs |-> 0,
                                  held   |-> [p \in Parts |-> Total(ToHold(o), p)]]]
  /\ shelf' = [p \in Parts |-> [shelf[p] EXCEPT !.reserved = @ + Total(ToHold(o), p)]]
  /\ Start
  /\ UNCHANGED <<sent, torn, arrivals, req>>

(* The same with the action "post": what the order would hold is consumed at once, and
   a refused movement rolls everything back. *)
CreatePosted(o) ==
  LET s == Shipping(ToShip(o))
  IN  /\ sale[o].status = "NONE" /\ s.ok /\ CanHold(ToHold(o))
      /\ sale' = [sale EXCEPT ![o] = [status |-> "POSTED", held |-> NoParts, cogs |-> Worth(s.out)]]
      /\ shelf' = [p \in Parts |-> [shelf[p] EXCEPT !.onhand = s.left[p]]]
      /\ sent' = [sent EXCEPT ![o] = s.out]
      /\ Start
      /\ UNCHANGED <<torn, arrivals, req>>

(* sales_order_post reads the order ... *)
LoadPostSale(c, o) ==
  /\ req[c] = Idle /\ sale[o].status = "DRAFT"
  /\ req' = [req EXCEPT ![c] = [sale |-> o]]
  /\ Start
  /\ UNCHANGED channel

(* ... and posts it.  A refusal is caught and shown, so the transaction commits what was
   done before it. *)
CommitPostSale(c) ==
  /\ req[c] # Idle
  /\ PostSalesOrder(req[c].sale)
  /\ req' = [req EXCEPT ![c] = Idle]
  /\ UNCHANGED <<arrivals, overlaps>>

(* Two of a part arrive. *)
Restock(p) ==
  /\ arrivals < MaxArrivals
  /\ arrivals' = arrivals + 1
  /\ shelf' = [shelf EXCEPT ![p].onhand = @ + 2]
  /\ UNCHANGED <<sale, sent, torn, req, overlaps>>

-----------------------------------------------------------------------------
(* An order of a channel ships once: as long as its post is not repeated while one is
   under way and was not refused half way, it has shipped the parts of its lines in
   their own units when it is POSTED, with the journal for their cost, and nothing
   before; and stock is reserved for the orders that wait and for no other. *)
ChannelShipsOnce ==
  calm =>
    /\ \A o \in ChannelOrderIds \ torn :
         IF sale[o].status # "POSTED" THEN sent[o] = NoParts /\ sale[o].cogs = 0
         ELSE /\ sent[o] = [p \in Parts |-> Total(ToShip(o), p)]
              /\ sale[o].cogs = Worth(sent[o])
    /\ \A p \in Parts : shelf[p].reserved =
         SumFunction([o \in ChannelOrderIds |->
           IF sale[o].status = "DRAFT" /\ o \notin torn THEN Total(ToHold(o), p) ELSE 0])
=============================================================================
