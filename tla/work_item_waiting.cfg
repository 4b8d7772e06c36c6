CONSTANTS
  Slots = {s1, s2}
  MaxRuns = 4
  MaxExports = 2
SPECIFICATION CalmSpec
CHECK_DEADLOCK FALSE
INVARIANTS CompletedIsAcknowledged TasksMatchAnswers
PROPERTIES AnswersAreFinal RunSettles
