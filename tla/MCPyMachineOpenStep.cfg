SPECIFICATION Spec
CONSTANTS
  None = None
  Configs <- MCNamed
  GuardFns <- MCGuardFns
  ActionFns <- MCActionFns
  Data <- MCData
  Sessions <- MCSessions
  StartStates <- MCStartStates
  Inputs <- MCInputs
  Streaming <- MCStream
  Accessors <- MCAccessors
  MaxDepth = 2
INVARIANTS
  StepsSelfContained
