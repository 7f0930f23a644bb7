SPECIFICATION FairSpec
CONSTANTS
  MaxGens = 1
  MaxWork = 1
  MaxCrashes = 1
PROPERTIES
  ShutdownsSettle
CHECK_DEADLOCK FALSE
