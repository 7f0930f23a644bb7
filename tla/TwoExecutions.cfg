SPECIFICATION Spec
CONSTANTS
  MaxGens = 2
  MaxWork = 0
  MaxCrashes = 1
INVARIANTS
  SavedMeansStopped
CHECK_DEADLOCK FALSE
