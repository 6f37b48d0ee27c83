SPECIFICATION Spec
CONSTANTS
  a1 = a1  a2 = a2  a3 = a3  p1 = p1  p2 = p2
  Proc = {p1, p2}
  Address = {a1, a2, a3}
  Field = {"where"}
  Value = {1, 0}
  Blank = 0
  Handler = {p1, p2}
  MayCrash = {p1, p2}
SYMMETRY Handlers
INVARIANTS TypeOK OneDefault
PROPERTIES DefaultKept
