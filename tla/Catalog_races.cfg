SPECIFICATION Spec
CONSTANTS
  p1 = p1  p2 = p2  shop = shop  o1 = o1  o2 = o2  i1 = i1
  Shop = shop
  Proc <- Sessions
  Variant = {1, 2, 3}
  FormSize = {1, 2}
  Order = {o1, o2}
  Image = {i1}
  Renditions <- Thumb
  Amount = {1}
  MaxVersion = 2
  Handler = {p1, p2}
  MayCrash = {p1, p2}
SYMMETRY Handlers
INVARIANTS HeldUnitsKept ReferencesLive EditsDoNotMix ImagesComplete FailedUploadIsClean
PROPERTIES SetStockSawTheRow
