SPECIFICATION Spec
CONSTANTS
    Callers = {"q1", "other"}
    Questions = {"q1"}
    Clients = 2
    MaxRetries = 1
    MaxIterations = 2
    Histories = {4}
    MaxMessages = 5
    KeptMessages = 2
    Views = {"graph"}
INVARIANTS EveryEndpointTried CompletionsBounded
PROPERTIES QuestionSettles
