---------------------------- MODULE MCScheduling ----------------------------
(* A small instance of Scheduling: two orders share a finite centre; one of them   *)
(* has a subcontract operation and then needs an infinite centre as well.          *)
EXTENDS Scheduling

CONSTANTS o1, o2, saw, bench

MCCentre == [w \in Centres |-> [finite |-> w = saw, calendared |-> w = saw, capacity |-> 4]]
MCQuantity == [o \in Orders |-> 2]
MCDue == [o \in Orders |-> IF o = o1 THEN 5 ELSE 6]
(* A holiday on day 3 and a short day on day 2. *)
MCShift == [w \in Centres |-> [d \in Dates |-> CASE d \in {3, 6} -> 0 [] d = 2 -> 3 [] OTHER -> 4]]

Header(o, here, status, code, default, operations) ==
  [of |-> o, here |-> here, status |-> status, code |-> code, default |-> default,
   from |-> 0, to |-> Horizon, operations |-> operations]
MCRoutings ==
  {Header(o1, TRUE, "ACTIVE", 3, FALSE,
          <<[centre |-> saw, setup |-> 1, run |-> 1], [centre |-> saw, setup |-> 0, run |-> 1]>>),
   Header(o1, FALSE, "ACTIVE", 1, TRUE, <<[centre |-> bench, setup |-> 0, run |-> 1]>>),
   Header(o2, FALSE, "ACTIVE", 4, TRUE,
          <<[centre |-> saw, setup |-> 2, run |-> 1], [centre |-> NoCentre, setup |-> 1, run |-> 0],
            [centre |-> bench, setup |-> 0, run |-> 1]>>),
   Header(o2, TRUE, "OBSOLETE", 2, TRUE, <<[centre |-> bench, setup |-> 0, run |-> 1]>>)}

Symmetry == Permutations(Planners)
=============================================================================
