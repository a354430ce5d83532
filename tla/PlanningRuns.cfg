SPECIFICATION PlanningSpec
CONSTANTS
  Needs = {n1, n2}
  Sourcings <- Bought
  GroupOf <- OneSupplier
  Unsupplied = {}
  Unrouted = {}
  NoNeed = NoNeed
  Clients = {c1, c2}
  Idle = Idle
  MaxOrders = 3
  MaxDocs = 2
  MaxSuggestions = 1
  MaxOverlaps = 1
  MaxCrashes = 1
SYMMETRY Symmetry
INVARIANTS OneDocument EachNeedOnce
PROPERTIES DocumentsHaveOrders
CHECK_DEADLOCK FALSE
