CONSTANTS
  q = q
  d1 = d1
  d2 = d2
  Slots = {c1, c2}
  MaxGenerations = 2
  MaxExports = 0
  Questions <- MCQuestions
  TaskDefs <- MCTaskDefs
  Policies <- MCPolicies
  Severity <- MCSeverity
SPECIFICATION Spec
CHECK_DEADLOCK FALSE
INVARIANT EveryTaskAttested
