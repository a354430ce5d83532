------------------------------ MODULE MCNetting ------------------------------
(* A made parent of two components, one of them a phantom kit of the other that *)
(* also lists itself by mistake; the part is bought, or comes from the depot,   *)
(* whose stock comes from the part's site: the two may source each other.       *)
EXTENDS Netting

CONSTANTS parent, kit, part, depot

Line(component, qty, fixed, scrap) ==
  [component |-> component, qty |-> qty, fixed |-> fixed, scrap |-> scrap]

Lines(i) == CASE i = parent -> <<Line(part, 1, 0, 0), Line(depot, 0, 0, 0), Line(kit, 1, 0, 0)>>
              [] i = kit -> <<Line(part, 1, 1, 50), Line(kit, 1, 0, 0)>>
              [] OTHER -> <<>>

(* An inactive default and two active ones, of which the earlier one counts. *)
BomsOf == [i \in Items |->
             IF Lines(i) = <<>> THEN <<>>
             ELSE <<[isDefault |-> TRUE, active |-> FALSE, output |-> 1, lines |-> <<>>],
                    [isDefault |-> FALSE, active |-> TRUE, output |-> IF i = kit THEN 2 ELSE 1,
                     lines |-> Lines(i)],
                    [isDefault |-> FALSE, active |-> TRUE, output |-> 1, lines |-> <<>>]>>]
Levels == [i \in Items |-> CASE i = parent -> 0 [] i = kit -> 1 [] OTHER -> 2]
Sources == [i \in Items |-> CASE i = depot -> part [] i = part -> depot [] OTHER -> NoSource]

LotForLot == [method |-> "LOT_FOR_LOT", fixed |-> 0, moq |-> 0, multiple |-> 0, max |-> 0]
Rounded == [method |-> "FIXED_QTY", fixed |-> 2, moq |-> 3, multiple |-> 2, max |-> 0]
AtMostOne == [LotForLot EXCEPT !.max = 1]

On(a, b, c) == [d \in 0..LastDay |-> IF d = 0 THEN a ELSE IF d = 1 THEN b ELSE c]
Nothing == On(0, 0, 0)

NoTransfer == [qty |-> 0, dispatched |-> 0, received |-> 0]

(* What is in stock, reserved, expected and asked for. *)
Books(onHand, reserved, receipts, sales, forecast) ==
  [onHand |-> onHand, reserved |-> reserved, outbound |-> 0, receipts |-> receipts,
   sales |-> sales, forecast |-> forecast, named |-> FALSE, transfer |-> NoTransfer]
ParentBooks ==
  {Books(1, 1, Nothing, On(1, 0, 1), On(1, 1, 0)), Books(1, 0, On(0, 0, 2), On(0, 3, 0), Nothing),
   Books(1, 1, On(0, 0, 2), On(1, 0, 1), Nothing), Books(1, 0, Nothing, On(0, 3, 0), On(1, 1, 0))}
PartBooks ==
  {Books(onHand, 0, Nothing, sales, Nothing) : onHand \in {0, 4}, sales \in {Nothing, On(0, 2, 0)}}
    \cup {[Books(4, 0, Nothing, Nothing, Nothing) EXCEPT !.outbound = 3, !.named = TRUE]}
DepotBooks ==
  {Books(0, 0, Nothing, Nothing, Nothing),
   [Books(0, 0, Nothing, On(1, 0, 1), Nothing)
      EXCEPT !.transfer = [qty |-> 2, dispatched |-> 2, received |-> 1]]}

Profiles(sources, rules, safety) == [source : sources, rules : rules, safety : safety]

ItemInputs ==
  {[i \in Items |->
      CASE i = parent -> p @@ pb
        [] i = part -> q @@ qb
        [] i = depot -> [source |-> "TRANSFER", rules |-> LotForLot, safety |-> 0] @@ d
        [] i = kit -> [source |-> "PHANTOM", rules |-> LotForLot, safety |-> 0]
                        @@ Books(0, 0, Nothing, Nothing, Nothing)] :
     p \in Profiles({"MAKE", "BUY"}, {LotForLot, Rounded, AtMostOne}, {0, 1}), pb \in ParentBooks,
     q \in Profiles({"BUY", "TRANSFER", "NONE"}, {LotForLot, AtMostOne}, {0, 1}), qb \in PartBooks,
     d \in DepotBooks}
=============================================================================
