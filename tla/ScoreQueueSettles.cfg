\* One hit, a fault, a caller of manual_rescore.
SPECIFICATION FairSpec
CONSTANTS
  Rid = {1}
  QueueMax = 1
  FailThreshold = 2
  MaxFaults = 1
  MaxManual = 1
INVARIANTS
  AttemptNosGrow
  PermanentHasFailures
PROPERTIES
  ScoringSettles
CHECK_DEADLOCK FALSE
