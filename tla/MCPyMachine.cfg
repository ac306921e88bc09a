SPECIFICATION FairSpec
CONSTANTS
  None = None
  Configs <- MCConfigs
  GuardFns <- MCGuardFns
  ActionFns <- MCActionFns
  Data <- MCData
  Sessions <- MCSessions
  StartStates <- MCStartStates
  Inputs <- MCInputs
  Streaming <- MCRun
  Accessors <- MCAccessors
  MaxDepth = 3
INVARIANTS
  TypeOK
  BoundedHops
  ControlOK
  FirstPassingCandidate
  SettledBetweenSignals
  LifecycleFollowsHistory
  NoFailureSwallowed
  ErrorStateHonoured
  ValidatedNeverUnregistered
  TraceTellsTheCall
PROPERTIES
  RefinesStatechart
  Termination
