SPECIFICATION Spec
CONSTANTS
  u1 = u1  p1 = p1  p2 = p2  s1 = s1  s2 = s2  t1 = t1  w1 = w1
  User = {u1}
  Session = {s1, s2}
  Remembering = {TRUE}
  TtlDefault = 2
  TtlRememberMe = 3
  RefreshAfter = 1
  Handler = {p1, p2}
  MayCrash = {p1}
  Token = {t1}
  Password = {w1}
  NoPassword = NoPassword
  Serves <- Racing
SYMMETRY SessionIds
INVARIANTS TypeOK SessionsOfVerifiedUsers ConsumedMeansVerified KeyOutlivesCookie
