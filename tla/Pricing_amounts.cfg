SPECIFICATION Spec
CONSTANTS
  v1 = v1  v2 = v2
  Variant = {v1, v2}
  Price <- Prices
  MaxQty = 2
  Region = {0, 9}
  Code = {"C"}
  Terms <- CouponTerms
  MaxUses = 2
  Quote = {"q1"}
INVARIANTS TypeOK DiscountIsDue GoodsAddUp TotalsReconcile ShippingToTheAddress
