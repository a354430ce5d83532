---------------------------- MODULE MCStockLedger ----------------------------
(* A small instance of StockLedger.  Locations, lots and bins are only ever    *)
(* compared for equality, so they may be permuted.  A product form that is     *)
(* saved leaves stock valued at the costs it had, so the run remembers whether *)
(* one was.                                                                    *)
EXTENDS StockLedger

CONSTANT MaxEdits   \* bound: product forms opened

VARIABLE edits   \* history: product forms opened

Symmetry == Permutations(Locations) \cup Permutations(Lots) \cup Permutations(Bins)

MCInit == Init /\ edits = 0

MCNext ==
  /\ Next
  /\ edits' = edits + IF edit = NoEdit /\ edit' # NoEdit THEN 1 ELSE 0
  /\ edits' <= MaxEdits

MCSpec == MCInit /\ [][MCNext]_<<vars, edits>>

unedited == edits = 0

(* Until a product form is opened, every unit a FIFO product has at a location is
   covered by a cost layer there, and none is costed twice. *)
LayersCoverStock == unedited => LayersMatchStock

(* Until a product form is opened, and unless an issue outran the layers of its lot,
   the sum of movement values is what the stock on hand costs, to the rounding of each
   movement, for each costing method on a tenant that blocks negative stock. *)
LedgerTracksStock == BlockNegative /\ unedited /\ short = 0 => LedgerMatchesBooks
=============================================================================
