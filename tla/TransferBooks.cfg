SPECIFICATION Spec
CONSTANTS
  NoLot = NoLot
  NoBin = NoBin
  NoCost = NoCost
  NoLocation = NoLocation
  All = All
  p1 = p1
  p2 = p2
  Scale = 100
  BlockNegative = TRUE
  TrackSerial = FALSE
  Lots = {}
  Bins = {}
  Locations = {l1, l2}
  Products = {p1, p2}
  Transfers = {t1}
  MethodOf <- AverageAndFifo
  StandardOf <- Standard233
  Quantities = {1, 3}
  UnitCosts = {150, 1049}
  Asked = {0, 2}
  AdjustLimit = 1
  GoodsInLimit = 2
SYMMETRY Symmetry
CHECK_DEADLOCK FALSE
INVARIANTS Reconciled StockConserved TransitWithinRounding
