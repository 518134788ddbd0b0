SPECIFICATION Spec
CONSTANTS
  t1 = t1
  t2 = t2
  s1 = s1
  s2 = s2
  a = a
  b = b
  c0 = c0
  c1 = c1
  Empty = Empty
  NoDoc = NoDoc
  Operators = {t1, t2}
  EventSenders = {t1, t2}
  PoasSenders = {t1}
  Subs = {s1}
  Scenarios = {a}
  Contents = {c0, c1}
  Content0 = c0
  RedisMayFail = TRUE
  MaxReq = 3
  MaxRestarts = 1
  MaxStops = 1
INVARIANTS StaleIsExplained
PROPERTY EventuallyInSync
