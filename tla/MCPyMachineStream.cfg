SPECIFICATION Spec
CONSTANTS
  None = None
  Configs <- MCConfigs
  GuardFns <- MCGuardFns
  ActionFns <- MCActionFns
  Data <- MCData
  Sessions <- MCSessions
  StartStates <- MCStartStates
  Inputs <- MCInputs
  Streaming <- MCStream
  Accessors <- MCAnyAccessors
  MaxDepth = 2
INVARIANTS
  StepsBracketed
  ClientInSync
  ActivitiesReportResults
