SPECIFICATION FairSpec
CONSTANTS
  o1 = o1  o2 = o2  o3 = o3  c1 = c1  h1 = h1  h2 = h2  job = job  shop = shop
  NoCoupon = NoCoupon  NoLimit = NoLimit  Shop = shop
  Proc <- Sessions
  Order = {o1, o2}
  Variant = {1}
  Coupon = {c1}
  UsageLimit <- LimitOne
  MaxQty = 1
  MaxInt = 9
  StockLevel = {}
  InitStock <- Three
  EventId = {1, 2, 3}
  Event <- PaidTwice
  Hook = {h1, h2}
  Jobs = {job}
  Plan <- WithCoupon
  MayExpire = {o1, o2}
  MayCrash = {}
INVARIANTS NoOversell
PROPERTIES ReservationsResolveOnce EveryEventRecorded EveryOrderResolved
CHECK_DEADLOCK FALSE
