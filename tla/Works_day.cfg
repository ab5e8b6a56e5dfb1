SPECIFICATION Spec
CONSTANTS
  q1 = q1
  q2 = q2
  q3 = q3
  r1 = r1
  i1 = i1
  i2 = i2
  c1 = c1
  u1 = u1
  u2 = u2
  ads = ads
  story = story
  Reqs = {q1, q2, q3}
  Plans <- Days
  Fates <- TheFates
  CiFixThreshold = 2
  Reports = {r1}
  Issues = {i1, i2}
  Comments = {c1}
  Every = 2
  MaxPerTick = 1
  MaxMinutes = 2
  Urls = {u1, u2}
  Playbooks = {ads, story}
  Paid = {ads}
  MaxDeaths = 1
INVARIANTS
  IncidentsSound
  FiresOncePerPeriod
  SeedLandsWithTask
  GrowthSound
CHECK_DEADLOCK FALSE
