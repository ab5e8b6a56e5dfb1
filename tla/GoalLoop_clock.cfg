SPECIFICATION Spec
CONSTANTS
  code = code
  shop = shop
  site = site
  p1 = p1
  p2 = p2
  a1 = a1
  t1 = t1
  Clock = clock
  Roots = {site}
  RealWorld = {site}
  LiveUrl = {site}
  Planners = {p1}
  Advances = {}
  Ticks = {}
  MAX_ITERATIONS = 1
  budgetMax = 2
  maxIterations = 3
  repeatWindow = 2
  Outcomes = {"held"}
  EditStates = {"open"}
  CanDeploy = TRUE
  MaxTasks = 5
  MaxFaults = 1
  MaxEdits = 1
INVARIANTS
  OneActiveRun
  
  RealWorldVerified
  StallIsCaught
CHECK_DEADLOCK FALSE
