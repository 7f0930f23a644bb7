SPECIFICATION Spec
CONSTANTS
  MaxMessages = 2
  MaxUnfinished = 2
  MaxSockets = 3
  MaxGenerations = 3
  UserCancels = TRUE
  w1 = w1
  w2 = w2
  Workers = {w1, w2}
SYMMETRY Handlers
INVARIANTS
  NoClaimUnderStopFence
  InOrder
  PickIsStillHead
  OneOwnerPerClaim
  ExhaustedRunsNothing
  WorkKeepsSessionActive
PROPERTIES
  OutcomesAreFinal
  KeepsPromise
