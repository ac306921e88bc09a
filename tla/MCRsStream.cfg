SPECIFICATION FairStreamSpec
CONSTANTS
  None = None
  Configs <- MCNamed
  GuardFns <- MCGuardFns
  ActionFns <- MCActionFns
  Data <- MCData
  Sessions <- MCSessions
  StartStates <- MCStartStates
  Inputs <- MCTwoSignals
  Streaming <- MCStream
  Accessors <- MCAccessors
  MaxDepth = 2
INVARIANTS
  EverythingDelivered
  ContextAfterEvents
PROPERTIES
  StreamEnds
