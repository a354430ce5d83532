SPECIFICATION MCSpec
CONSTANTS
  NoLot = NoLot
  NoBin = NoBin
  NoCost = NoCost
  NoEdit = NoEdit
  Scale = 100
  BlockNegative = TRUE
  TrackSerial = FALSE
  Methods0 = {"AVERAGE", "FIFO", "STANDARD"}
  Locations = {l1, l2}
  Lots = {k1}
  LotsOf = {k1, NoLot}
  Bins = {}
  BinsOf = {NoBin}
  Quantities = {1, 3}
  UnitCosts = {150, 1033}
  StandardCosts = {233}
  Editable = TRUE
  MaxEdits = 1
  MaxMoves = 4
SYMMETRY Symmetry
INVARIANTS NeverOverdrawn LayersCoverStock OldestLayerFirst LedgerTracksStock
CHECK_DEADLOCK FALSE
