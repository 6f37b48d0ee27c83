SPECIFICATION Spec
CONSTANTS
  p1 = p1  p2 = p2  s1 = s1  s2 = s2  k1 = k1  k2 = k2  t1 = t1  i1 = i1  a1 = a1  a2 = a2  shop = shop  r1 = r1
  Product = {p1, p2}
  Slug = {s1, s2}
  Sku = {k1, k2}
  Tag = {t1}
  Form <- Forms
  Image = {i1}
  MaxImages = 1
  MaxLimit = 2
  MaxForms = 3
  Admin = {a1, a2}
  Reader = {r1}
  Shop = shop
  Proc <- Sessions
  MayCrash = {a1, a2}
SYMMETRY Symmetry
INVARIANTS PartsOfOneForm PagesMoveForward
