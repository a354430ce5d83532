SPECIFICATION MCSpec
CONSTANTS
  main = main
  shop = shop
  Locations = {main, shop}
  DefaultLocation = main
  NoLocation = NoLocation
  Idle = Idle
  OnHand <- Stock
  Orders = {o1, o2}
  Clients = {c1, c2}
  Quantities = {1, 2}
  BlockNegative = TRUE
  Quotes = TRUE
  InvoiceLimit = 1
  MaxOverlaps = 1
SYMMETRY Symmetry
INVARIANTS ReservedIsHeld
PROPERTIES PromisesWithinStock HoldsFollowOrder
CHECK_DEADLOCK FALSE
