SPECIFICATION FairSpec
CONSTANTS
  s1 = s1
  s2 = s2
  Sessions = {s1}
  MaxDeadline = 3
INVARIANTS
  OwedIsPersisted
  NothingOutOfReach
  ArmedInTime
PROPERTIES
  WakeUpIsAttempted
