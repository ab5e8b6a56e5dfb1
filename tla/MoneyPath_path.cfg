SPECIFICATION Spec
CONSTANTS
  Requests = {r1, r2}
  Budgets <- Mixed
  MaxIntents = 2
  MaxSessions = 2
  MaxFaults = 1
INVARIANTS
  UndecidedBooksNothing
  ApprovalTakesEffect
  DoneMeansBooked
PROPERTIES
  AuditImplementsChain
  PaidIsServed
CHECK_DEADLOCK FALSE
