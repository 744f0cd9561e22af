CONSTANTS
  Request = {r1, r2}
  Name = {n1, n2}
  v1 = v1
  v2 = v2
  bad = bad
  Value = {v1, v2, bad}
  Refused = {bad}
  Flag <- MCFlag
  Forms <- MCForms
  Stored <- MCStored
  MaxTargets = 2
  MaxRequests = 3
  MaxFaults = 1
SYMMETRY Symmetry
SPECIFICATION Spec
INVARIANTS
  TypeOK
  UpdateAllOrNothing
  ExportStaleOnlyByOverlap
  KickFlagTrue
PROPERTIES
  UpdatesSerialised
  SecretsKept
CHECK_DEADLOCK FALSE
