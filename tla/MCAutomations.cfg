CONSTANTS
  Message = {m1, m2}
  Identified = {m1}
  Rule = {1, 2}
  Uploader = {u1, u2}
  File = {f1, f2, f3}
  MediaLimit = 1
  RuleLimit = 2
  MaxDeliveries = 3
  MaxEdits = 4
  MaxFaults = 1
SYMMETRY Symmetry
SPECIFICATION Spec
INVARIANTS
  TypeOK
  ExecutedOnce
  DataMatchesRuns
  EffectsCommitted
  ScriptsEndWithStream
  LibraryOvershoot
CHECK_DEADLOCK FALSE
