SPECIFICATION FairSpec
CONSTANTS
  w1 = w1
  w2 = w2
  MaxBuilds = 1
  Workers = {w1, w2}
  LeaseCovers = TRUE
  MaxFaults = 1
  Before = {"ready"}
INVARIANTS
  ReadyImageExists
  NoArtifactLost
  NoSourceLost
  OneCapturePerBuild
  NoRevokedImage
PROPERTIES
  AcceptedIsSettled
  DebtsAreSettled
CHECK_DEADLOCK FALSE
