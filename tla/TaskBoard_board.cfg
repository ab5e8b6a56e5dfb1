SPECIFICATION TeamSpec
CONSTANTS
  Reqs = {q1, q2, q3}
  alice = alice
  bob = bob
  Agents <- Both
  Members <- Both
  Permits <- Permitted
  Unknown = unknown
  Team = team
  web = web
  api = api
  Repos = {web, api}
  Tokens = {web}
  Threads = {t1, t2}
  Board = t1
  Bodies <- Mentions
  MaxDepth = 2
  MaxTasks = 4
  MaxRuns = 3
  BulkCreateMax = 2
  Outcomes = {"running", "merged", "held_for_human"}
  q1 = q1
  q2 = q2
  q3 = q3
  Plans <- Thread
  MaxMoves = 2
  MaxFaults = 1
  Graphs <- TheGraphs
  MaxPolls = 2
INVARIANTS
  OneWinner
  MentionsBounded
  StrandedExplained
  
  TeamSound
CHECK_DEADLOCK FALSE
