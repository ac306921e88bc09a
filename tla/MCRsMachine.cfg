SPECIFICATION FairSpec
CONSTANTS
  None = None
  Configs <- MCConfigs
  GuardFns <- MCGuardFns
  ActionFns <- MCActionFns
  Data <- MCData
  Sessions <- MCSessions
  StartStates <- MCStartStates
  Inputs <- MCInputs
  Streaming <- MCRunOrStream
  Accessors <- MCAccessors
  MaxDepth = 2
INVARIANTS
  TypeOK
  FirstPassingCandidate
  SettledBetweenSignals
  LifecycleFollowsHistory
  ErrorsRouted
  StepsBracketed
  ClientInSync
  ActivitiesReportResults
PROPERTIES
  RefinesStatechart
  Termination
