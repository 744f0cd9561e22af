SPECIFICATION Spec
CONSTANTS
  m1 = m1
  m2 = m2
  m3 = m3
  m4 = m4
  Message <- MCMessage
  Capacities = {1, 3}
  SeenFactor = 4
  MaxClaims = 4
INVARIANT RestartAlwaysPossible
CHECK_DEADLOCK FALSE
