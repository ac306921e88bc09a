SPECIFICATION Spec
CONSTANTS
  None = None
  Sources <- MCSources
  ActionDicts <- MCActionDicts
  GuardDicts <- MCGuardDicts
  LateNames <- MCLateNames
  Sanitised <- MCSanitised
INVARIANTS
  CheckedMeansComplete
  GraphAsWritten
  DiagramTellsTheGraph
