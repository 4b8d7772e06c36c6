CONSTANTS
  s1 = s1
  s2 = s2
  f1 = f1
  f2 = f2
  Services <- TwoServices
  Features <- NoFeatures
  Calls = {c1}
  MaxSessions = 1
SPECIFICATION DiligentSpec
CHECK_DEADLOCK FALSE
PROPERTY IndexingCompletes
