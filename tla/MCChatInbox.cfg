SPECIFICATION Spec
CONSTANTS
  m1 = m1
  m2 = m2
  m3 = m3
  m4 = m4
  Message <- MCMessage
  Capacities = {1, 3}
  SeenFactor = 1
  MaxClaims = 5
SYMMETRY MCSymmetry
INVARIANTS
  TypeOK
  EveryMessageAccounted
  RestartPossible
  LatestClaimRemembered
PROPERTIES
  OnAirMovesOnlyByOperator
  ImplementsDisplayQueue
CHECK_DEADLOCK FALSE
