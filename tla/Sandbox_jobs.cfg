SPECIFICATION Spec
CONSTANTS
  Reqs = {q1, q2, q3}
  q1 = q1
  q2 = q2
  q3 = q3
  Plans <- Jobs
  Inputs <- Some
  MaxConcurrent = 2
  AllowExec = TRUE
  AllowFileRepo = FALSE
  AllowedAdapters = {"claude-code"}
  Registered = {"fake", "claude-code"}
  AllowedMcp = {}
  Branches = {"b", "-flag"}
  MaxCommits = 3
INVARIANTS
  RepoConfigQuarantined
  ReportedIsPushed
CHECK_DEADLOCK FALSE
