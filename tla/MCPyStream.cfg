SPECIFICATION FairStreamSpec
CONSTANTS
  None = None
  Configs <- MCNamed
  GuardFns <- MCGuardFns
  ActionFns <- MCActionFns
  Data <- MCData
  Sessions <- MCSessions
  StartStates <- MCStartStates
  Inputs <- MCTwoSignals
  Streaming <- MCStream
  Accessors <- MCAnyAccessors
  MaxDepth = 2
INVARIANTS
  ReaderSeesTheCall
  SilenceMeansWhole
  FailureReachesConsumer
PROPERTIES
  EngineOutlivesConsumer
  ConsumerAnswered
