SPECIFICATION PolicySpec
CONSTANTS
    Types <- OneType
    Factory <- FactoryQuestions
    QuestionIds <- AllQuestions
    Editors = {"e1", "e2"}
    Slots = {"s1", "s2"}
    MaxRequests = 4
INVARIANT ResetRestores
CHECK_DEADLOCK FALSE
