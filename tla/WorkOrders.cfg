SPECIFICATION WorkOrderSpec
CONSTANTS
  Quantity = 2
  Required = 2
  ComponentCost = 1
  StandardCost = 1
  Stock = 2
  Rate <- MCRate
  Bookings <- MCBookings
  Clients = {c1, c2}
  Idle = Idle
  MaxMovements = 2
  MaxHours = 2
  MaxOverlaps = 1
SYMMETRY Symmetry
INVARIANTS WipMatchesOrder OrderFollowsMovements 
CHECK_DEADLOCK FALSE
