SPECIFICATION Spec
CONSTANTS
  MaxEvents = 5
  Critical = {1, 2}
  Unbuffered = {5}
  MaxBuffer = 2
INVARIANTS
  CriticalsAreKept
  SentOnce
  NothingStranded
