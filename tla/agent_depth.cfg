SPECIFICATION Spec
CONSTANTS
  Tools = {"read", "write", "message"}
  SafeTools = {"read"}
  InteractionTools = {"message"}
  AgentTypes = {"general", "explore"}
  Allowed <- TwoDefinitions
  Replies <- Delegation
  MAX_AGENT_DEPTH = 3
  MaxNesting = 4
  MaxIterations = 4
  SubIterations = 2
  RootMaxMessages = 5
  PreserveLast = 1
  TokenErrorThreshold = 9
  Seeds <- FreshOnly
  ErrorListened = FALSE
CHECK_DEADLOCK FALSE
INVARIANTS DepthIsLimited
