SPECIFICATION Spec
CONSTANTS
  None = None
  Configs <- MCConfigs
  StartStates <- MCStarts
  Inputs <- MCInputs
  MaxDepth = 2
INVARIANTS
  WithinBudget
