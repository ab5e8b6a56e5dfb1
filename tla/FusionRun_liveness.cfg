SPECIFICATION FairSpec
CONSTANTS
  MaxAttempts = 2
  MaxStarts = 2
  MaxPolls = 2
  MaxFix = 1
  q1 = q1
  q2 = q2
  Requests <- OneRequest
  PlanModes <- Direct
  Autonomies <- TwoDials
PROPERTIES
  RunImplementsLifecycle
  ImplementsContract
  ExecutionSettles
CHECK_DEADLOCK FALSE
