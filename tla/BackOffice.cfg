SPECIFICATION Spec
CONSTANTS
  e1 = e1
  Clients = {c1, c2}
  Idle = Idle
  MaxOverlaps = 1
  Requisitions = {r1}
  AccessRequests = {ask}
  Expenses = {e1}
  OverThreshold = {}
  Periods = {p1}
  Period <- MCPeriod
  Vat <- MCVat
  Users = {u1, u2}
  Founder = u1
  Roles = {admin, clerk, buyer}
  Admin = admin
  clerk = clerk
  buyer = buyer
  Permissions = {view, manage}
  Baseline <- MCBaseline
  KeepOverrides = TRUE
  ChannelOrderIds = {o1, o2}
  o1 = o1
  o2 = o2
  Parts = {bolt, nut}
  bolt = bolt
  nut = nut
  kit = kit
  each = each
  box = box
  AnyItem = AnyItem
  Lines <- MCLines
  Bom <- MCBom
  BaseUom <- MCBaseUom
  Conversions <- MCConversions
  UnitCost <- MCUnitCost
  Shelf <- MCShelf
  Strict = TRUE
  MaxArrivals = 3
  Places = {depot, shop}
  depot = depot
  shop = shop
  Nowhere = Nowhere
  FirstLocation = depot
  SiteAt <- MCSiteAt
  Overrides <- MCOverrides
  ProductPolicy <- MCProductPolicy
  Supply <- MCSupply
  ReorderLevel = 2
  Slots = {1, 2}
  MaxHeld = 1
  Companies = {A, B, C}
  Sites = {s1, NoSite}
  NoSite = NoSite
  LastEntryDay = 2
  MaxEntries = 2
  Tenants = {A, B}
  A = A
  B = B
  WorkSites = {a1, a2, b1}
  a1 = a1
  a2 = a2
  b1 = b1
  Locations = {la}
  la = la
  OrgOf <- MCOrgOf
  Home <- MCHome
  Preferred <- MCPreferred
  NoTenant = NoTenant
  NoWorkSite = NoWorkSite
  NoLocation = NoLocation
  ProfileTenant = A
  MaxChanges = 2
  Exports = {weekly}
  Cadences <- MCCadences
  TicksPerDay = 2
  DaysPerWeek = 2
  DaysPerMonth = 3
  ShortestMonth = 2
  LastTick = 3
  MaxStops = 1
  BankLines = {n1, n2, n3}
  Records = {p1, p2, x1}
  Payments = {p1, p2}
  p1 = p1
  p2 = p2
  x1 = x1
  SignedAmount <- MCSignedAmount
  Amounts = {1, 2}
  NoRecord = NoRecord
  CountSheets = {sheet1, sheet2}
  CountLots = {lotA, NoLot}
  NoLot = NoLot
  LotCosts = {3}
  NoCost = NoCost
  FallbackCost = 4
  Tolerance = 1
  LastCountDay = 2
  Versions = {v1, v2}
  NoVersion = NoVersion
  Quantities = {1}
SYMMETRY Symmetry
INVARIANTS OneApprovedResult AdminRemains ChannelShipsOnce NotOverordered ReportsAgree FormsLandWhereOpened ExportsKeepCadence LinesMatchOnce CatchUpReconciles ForecastsHold
PROPERTIES ReturnFollowsLedger
CHECK_DEADLOCK FALSE
