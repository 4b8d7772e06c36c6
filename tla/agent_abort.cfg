SPECIFICATION Spec
CONSTANTS
  Tools = {"read", "write", "message"}
  SafeTools = {"read"}
  InteractionTools = {"message"}
  AgentTypes = {"general", "explore"}
  Allowed <- TwoDefinitions
  Replies <- EveryReply
  MAX_AGENT_DEPTH = 2
  MaxNesting = 2
  MaxIterations = 4
  SubIterations = 2
  RootMaxMessages = 5
  PreserveLast = 1
  TokenErrorThreshold = 9
  Seeds <- FreshOrChat
  ErrorListened = FALSE
CHECK_DEADLOCK FALSE
PROPERTIES AbortStopsCompletions
