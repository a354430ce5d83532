SPECIFICATION Spec
CONSTANTS
  None = None
  Idle = Idle
  LastVersion = 2
  Shipments = {s1, s2}
  Receipts = {g1, g2}
  Bills = {b1, b2}
  Clients = {c1, c2}
  Orderable = {2}
  Quantities = {1}
  Prices = {2}
  Landed = {1}
  Threshold = 1
  MaxOverlaps = 1
SYMMETRY Symmetry
INVARIANTS ReceivedMatchesReceipts NothingUnapproved SuspenseClears 
CHECK_DEADLOCK FALSE
