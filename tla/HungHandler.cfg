SPECIFICATION ClockSpec
CONSTANTS
  s1 = s1
  s2 = s2
  s3 = s3
  Sessions = {s1, s2}
  MaxConcurrent = 1
PROPERTY HungHandlerLeavesOthers
