SPECIFICATION Spec
CONSTANTS
  Reqs = {q1, q2, q3}
  Plans <- Everything
  Members = {m1, m2, m3}
  Founder = m1
  SeatLimit = 3
  LoginLimit = 2
  MaxTokens = 5
  MaxUpsets = 1
  Users = {m1, m2}
  Peers = {m2, bot}
  Sizes = {1, 2}
  MaxRows = 5
  Durable = FALSE
  Workspaces = {w1, w2}
  AgentLimit = 1
  Issues = {i1, i2}
  MaxMade = 4
  Terms = {t1, t2}
  MaxPerTerm = 2
  MaxNodes = 3
  m1 = m1
  m2 = m2
  m3 = m3
  q1 = q1
  q2 = q2
  q3 = q3
  bot = bot
  w1 = w1
  w2 = w2
  i1 = i1
  i2 = i2
  t1 = t1
  t2 = t2
  Old = old
  Audience <- Mailing
  Amounts = {1, 2}
  ann = ann
  ben = ben
  old = old
INVARIANTS
  DoorsHold
  RoomsSound
  
  
  

  
CHECK_DEADLOCK FALSE
