SPECIFICATION Spec
CONSTANTS
  Requests = {r1}
  Budgets <- StripeFirst
  MaxIntents = 1
  MaxSessions = 1
  MaxFaults = 0
INVARIANTS
  PaymentBookedOnce
CHECK_DEADLOCK FALSE
