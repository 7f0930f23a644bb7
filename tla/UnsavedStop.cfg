SPECIFICATION Spec
CONSTANTS
  MaxGens = 1
  MaxWork = 1
  MaxCrashes = 0
INVARIANTS
  ReadyWorkspaceIsSaved
CHECK_DEADLOCK FALSE
