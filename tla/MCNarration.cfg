SPECIFICATION MCSpec

CONSTANTS
  e1 = e1
  e2 = e2
  e3 = e3
  e4 = e4
  Events = {e1, e2, e3, e4}
  Type <- MCType
  Test <- MCTest
  Sessions <- MCSessions
  ObserveLimit = 2
  MaxActs = 2
  msg = msg
  edit1 = edit1
  w1 = w1
  Tokens = {t1, t2, t3, t4, t5, t6}
  NoToken = NoToken
  NoRow = NoRow

INVARIANTS
  NarrationHolds

PROPERTIES
  AllSettles

\* members stop acting, and what there was to say has been said
CHECK_DEADLOCK FALSE
