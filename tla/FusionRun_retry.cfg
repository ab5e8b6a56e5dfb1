SPECIFICATION Spec
CONSTANTS
  MaxAttempts = 3
  MaxStarts = 3
  MaxPolls = 2
  MaxFix = 1
  q1 = q1
  q2 = q2
  Requests <- OneRequest
  PlanModes <- Direct
  Autonomies <- HoldOrMerge
INVARIANTS
  SinglePusher
  LandsGreenAndLicensed
  EventLogSound
  AccountedOnce
  OutcomeRecorded
CHECK_DEADLOCK FALSE
