SPECIFICATION Spec
CONSTANTS
  Detached = Detached
  Idle = Idle
  Invoices = {1, 2}
  Stocked = {1}
  Payments = {p1, p2}
  Notes = {n1}
  Clients = {c1, c2}
  Totals = {3}
  Amounts = {2}
  CreditLimit = 5
  MaxOverlaps = 1
SYMMETRY Symmetry
INVARIANTS GoodsFollowTheLedger PaidIsSettled
PROPERTIES BookedWithinCredit ItemSpec
CHECK_DEADLOCK FALSE
