SPECIFICATION CorrectionsSpec
CONSTANTS
  Products = {p1}
  Goods = {{p1}}
  Adjustments = {a1}
  Returns = {r1, r2}
  Clients = {c1, c2}
  Uncounted = Uncounted
  Idle = Idle
  Threshold = 2
  MaxStock = 1
  MaxDocuments = 2
  MaxOverlaps = 1
SYMMETRY Symmetry
INVARIANTS BookMatchesStock
PROPERTIES CountedIsOnHand
CHECK_DEADLOCK FALSE
