SPECIFICATION Spec
CONSTANTS
  m1 = m1
  m2 = m2
  m3 = m3
  m4 = m4
  Message = {m1, m2, m3, m4, m5}
  Capacities = {1}
  SeenFactor = 4
  MaxClaims = 6
INVARIANT NoMessageTwice
CHECK_DEADLOCK FALSE
