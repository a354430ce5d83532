SPECIFICATION SchedulingSpec
CONSTANTS
  o1 = o1
  o2 = o2
  saw = saw
  bench = bench
  Orders = {o1, o2}
  Planners = {c1, c2}
  Centres = {saw, bench}
  NoCentre = NoCentre
  Centre <- MCCentre
  Routings <- MCRoutings
  Quantity <- MCQuantity
  Due <- MCDue
  Shift <- MCShift
  Shifts = {0, 2, 4}
  Horizon = 6
  Movable = {4}
  Parts = 60
  NoRequest = NoRequest
  MaxRequests = 2
  MaxEdits = 1
SYMMETRY Symmetry
INVARIANTS OperationsFit 
CHECK_DEADLOCK FALSE
