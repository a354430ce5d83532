SPECIFICATION NettingSpec
CONSTANTS
  parent = parent
  kit = kit
  part = part
  depot = depot
  Items = {parent, kit, part, depot}
  LastDay = 2
  Width = 2
  Level <- Levels
  Boms <- BomsOf
  From <- Sources
  Inputs <- ItemInputs
  MaxOrders = 3
  MaxFailures = 1
  NoSource = NoSource
  NoWalk = NoWalk
INVARIANTS  OrdersFitShortages 
CHECK_DEADLOCK FALSE
