SPECIFICATION FairSpec
CONSTANTS
  s1 = s1
  s2 = s2
  s3 = s3
  Sessions = {s1, s2, s3}
  MaxConcurrent = 2
INVARIANTS
  OneHandlerPerSession
  DeliveriesWithinBound
  WakesForArmedWork
PROPERTIES
  DueIsClaimed
