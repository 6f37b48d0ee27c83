SPECIFICATION Spec
CONSTANTS
  o1 = o1  o2 = o2  o3 = o3  c1 = c1  u1 = u1  u2 = u2  k1 = k1  k2 = k2  q1 = q1  q2 = q2  p1 = p1  p2 = p2  shop = shop
  NoCoupon = NoCoupon  NoLimit = NoLimit  Shop = shop
  Proc <- Sessions
  Order = {o1, o2}
  Variant = {1, 2}
  Coupon = {c1}
  UsageLimit <- LimitOne
  MaxQty = 2
  MaxInt = 9
  StockLevel = {1}
  InitStock <- TwoAndOne
  EventId = {}
  Event = {}
  User = {u1, u2}
  Key = {k1}
  QuoteId = {q1, q2}
  CartNo = {1}
  Basket <- Both
  Request <- TwoUsers
  Client = {p1, p2}
  MayLapse = {q1}
  MayCrash = {p1}
INVARIANTS ConfirmsNeverDeadlock KeyNamesOneOrder
PROPERTIES ImplementsSettlement
CHECK_DEADLOCK FALSE
