SPECIFICATION Spec
CONSTANTS
  MaxGens = 2
  MaxWork = 1
  MaxCrashes = 1
INVARIANTS
  CleanContinuation
  InterruptedWaits
  CheckpointIsExclusive
  RetirementIsTrue
PROPERTY SavesNeverGoBack
CHECK_DEADLOCK FALSE
