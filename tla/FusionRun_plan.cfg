SPECIFICATION Spec
CONSTANTS
  MaxAttempts = 2
  MaxStarts = 3
  MaxPolls = 1
  MaxFix = 0
  q1 = q1
  q2 = q2
  Requests <- TwoRequests
  PlanModes <- BothModes
  Autonomies <- TwoDials
SYMMETRY Symmetric
INVARIANTS
  NoEditsBeforeApproval
  IInv
CHECK_DEADLOCK FALSE
