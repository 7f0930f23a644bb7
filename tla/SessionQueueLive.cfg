SPECIFICATION FairSpec
CONSTANTS
  MaxMessages = 2
  MaxUnfinished = 2
  MaxSockets = 2
  MaxGenerations = 2
  UserCancels = TRUE
  w1 = w1
  w2 = w2
  Workers = {w1}
PROPERTIES
  FenceIsReleased
  ServingDrainsQueue
