SPECIFICATION PolicySpec
CONSTANTS
    Types <- TwoTypes
    Factory <- FactoryQuestions
    QuestionIds <- AllQuestions
    Editors = {"e1"}
    Slots = {s1, s2}
    MaxRequests = 3
SYMMETRY AnySlot
INVARIANTS OneTemplateOfEachType RulesHaveQuestions
CHECK_DEADLOCK FALSE
