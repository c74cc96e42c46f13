\* As many uploads in flight as connections.
SPECIFICATION FairSpec
CONSTANTS
  t1 = t1
  t2 = t2
  u1 = u1
  u2 = u2
  n1 = n1
  n2 = n2
  l1 = l1
  c1 = c1
  c2 = c2
  d1 = d1
  d2 = d2
  Team = {t1}
  User = {u1}
  Node = {n1, n2}
  Local = {l1}
  Content = {c1, c2}
  NoContent = NoContent
  Day = {d1, d2}
  DayOf <- MCDayOf
  NoOwner = NoOwner
  NotLoaded = NotLoaded
  NoRequest = NoRequest
  Req = {r1, r2}
  Request <- CrossedRequests
  MaxDevices = 2
  PoolSize = 2
CHECK_DEADLOCK FALSE
PROPERTIES
  Answered
