SPECIFICATION ConversationSpec
CONSTANTS
  None = None
  Configs <- MCConfigs
  GuardFns <- MCGuardFns
  ActionFns <- MCActionFns
  Data <- MCData
  Sessions <- MCSessions
  StartStates <- MCStartStates
  Inputs <- MCInputs
  Streaming <- MCRun
  Accessors <- MCAccessors
  MaxDepth = 10
  Talks <- MCTalks
  Payload <- MCPayload
INVARIANTS
  PostedWasAllowed
  StateTellsTheOrder
  NothingTwice
