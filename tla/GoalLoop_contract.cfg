SPECIFICATION FairSpec
CONSTANTS
  code = code
  shop = shop
  site = site
  p1 = p1
  p2 = p2
  a1 = a1
  t1 = t1
  Clock = clock
  Roots = {code, shop}
  RealWorld = {shop}
  LiveUrl = {}
  Planners = {p1}
  Advances = {}
  Ticks = {}
  MAX_ITERATIONS = 1
  budgetMax = 1
  maxIterations = 5
  repeatWindow = 3
  Outcomes = {"merged", "failed"}
  EditStates = {}
  CanDeploy = FALSE
  MaxTasks = 4
  MaxFaults = 0
  MaxEdits = 2
PROPERTIES
  KeepsContract
  AutonomyStops
CHECK_DEADLOCK FALSE
