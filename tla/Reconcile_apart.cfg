SPECIFICATION Spec
CONSTANTS
  o1 = o1  o2 = o2  o3 = o3  c1 = c1  h1 = h1  h2 = h2  job = job  shop = shop
  NoCoupon = NoCoupon  NoLimit = NoLimit  Shop = shop
  Proc <- Sessions
  Order = {o1, o2, o3}
  Variant = {1, 2}
  Coupon = {c1}
  UsageLimit <- LimitTwo
  MaxQty = 1
  MaxInt = 9
  StockLevel = {1}
  InitStock <- TwoOfEach
  EventId = {1, 2, 3}
  Event <- OnePerOrder
  Hook = {h1, h2}
  Jobs = {job}
  Plan <- BothVariants
  MayExpire = {o3}
  MayCrash = {h1, h2}
PROPERTIES ImplementsSettlement
