SPECIFICATION Spec
CONSTANTS
  o1 = o1  o2 = o2  o3 = o3  c1 = c1  h1 = h1  h2 = h2  job = job  shop = shop
  NoCoupon = NoCoupon  NoLimit = NoLimit  Shop = shop
  Proc <- Sessions
  Order = {o1, o2}
  Variant = {1}
  Coupon = {}
  UsageLimit <- NoCoupons
  MaxQty = 1
  MaxInt = 9
  StockLevel = {}
  InitStock <- Three
  EventId = {1, 2, 3}
  Event <- PaidOnce
  Hook = {h1}
  Jobs = {job}
  Plan <- SameVariant
  MayExpire = {o1, o2}
  MayCrash = {}
PROPERTIES PaymentNeverDropped
CHECK_DEADLOCK FALSE
