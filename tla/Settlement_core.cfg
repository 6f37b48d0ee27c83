SPECIFICATION Spec
CONSTANTS
  o1 = o1  o2 = o2  v1 = v1  v2 = v2  c1 = c1
  Order = {o1, o2}
  Variant = {v1, v2}
  Coupon = {c1}
  NoCoupon = NoCoupon
  NoLimit = NoLimit
  UsageLimit <- LimitOne
  MaxQty = 2
  MaxInt = 4
  StockLevel = {1}
  InitStock <- TwoAndOne
  EventId = {1, 2, 3, 4}
  Event <- TwoOrders
INVARIANTS TypeOK Agreement ReservedBacked CouponCounted AuditIsAPath
PROPERTIES ForwardOnly PaymentNeverDropped StockConserved
