SPECIFICATION Spec
CONSTANTS
  u1 = u1  a1 = a1  a2 = a2  p1 = p1  p2 = p2  p3 = p3  shop = shop
  Shop = shop
  Proc <- Sessions
  User = {u1}
  Anon = {a1}
  Variant = {1, 2}
  MaxItemQuantity = 2
  CartNo <- TwoThenOne
  Request <- Visit
  Handler = {p1, p2}
  MayCrash = {p1, p2}
SYMMETRY Handlers
INVARIANTS TypeOK OneActiveCart RetrySuffices
PROPERTIES MergeAllOrNothing
