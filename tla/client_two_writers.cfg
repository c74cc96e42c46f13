\* Two provider refreshes inside upsertMany at once.
SPECIFICATION Spec
CONSTANTS
  e1 = e1
  e2 = e2
  e3 = e3
  w1 = w1
  w2 = w2
  t1 = t1
  t2 = t2
  s1 = s1
  s2 = s2
  Event = {e1, e2}
  NoEvent = NoEvent
  Writer = {w1, w2}
  EventsOf <- TwoWriters
  Target = {t1}
  NoTarget = NoTarget
  Url = {s1}
  NoUrl = NoUrl
  Choice <- OneTarget
  Queue = {q1}
  NoQueue = NoQueue
  MaxBatch = 2
  Interval = 1
  MaxSeq = 2
  MaxLate = 0
  MaxCrash = 0
INVARIANTS
  CursorSkipsNothing
