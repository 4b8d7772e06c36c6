CONSTANTS
  Slots = {s1, s2}
  MaxRuns = 2
  MaxExports = 1
SPECIFICATION Spec
CHECK_DEADLOCK FALSE
INVARIANT OneRunAtATime
