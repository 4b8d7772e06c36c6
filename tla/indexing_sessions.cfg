CONSTANTS
  s1 = s1
  s2 = s2
  f1 = f1
  f2 = f2
  Services <- OneService
  Features <- NoFeatures
  Calls = {c1, c2}
  MaxSessions = 2
SPECIFICATION Spec
SYMMETRY CallSymmetry
CHECK_DEADLOCK FALSE
INVARIANTS TypeOK CompletedMeetsBar RecordedEntitiesExist DoneIsPrefix
PROPERTY NeverBack
