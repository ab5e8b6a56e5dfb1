SPECIFICATION Spec
CONSTANTS
  Threads = {t1, t2}
  First = t1
  t1 = t1
  t2 = t2
  Words = {w1}
  Page = 1
  PerMs = 2
  Gaps = {3}
  MaxMessages = 2
  MaxCalls = 2
  MaxMoves = 2
  MaxUpsets = 1

  
PROPERTIES
  EventuallyShown
CHECK_DEADLOCK FALSE
