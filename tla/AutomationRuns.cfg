SPECIFICATION FairSpec
CONSTANTS
  a1 = a1
  t1 = t1
  MaxInvocations = 1
  Scheduled = {1}
  Targets = {a1}
  MaxConcurrent = 1
  MaxRetries = 2
  Threshold = 1
  Ticks = {t1}
  MaxPauses = 1
  MaxFaults = 1
INVARIANTS
  OnePromptPerRun
  OneStrikePerInvocation
PROPERTIES
  OutcomesAreFinal
  RunsSettle
  FailuresAreCounted
  StreakIsReset
CHECK_DEADLOCK FALSE
