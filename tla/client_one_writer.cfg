\* One provider refresh at a time: nothing is left behind.
SPECIFICATION Spec
CONSTANTS
  e1 = e1
  e2 = e2
  e3 = e3
  w1 = w1
  w2 = w2
  t1 = t1
  t2 = t2
  s1 = s1
  s2 = s2
  Event = {e1, e2, e3}
  NoEvent = NoEvent
  Writer = {w1}
  EventsOf <- OneWriter
  Target = {t1}
  NoTarget = NoTarget
  Url = {s1}
  NoUrl = NoUrl
  Choice <- OneAggregate
  Queue = {q1, q2}
  NoQueue = NoQueue
  MaxBatch = 2
  Interval = 1
  MaxSeq = 3
  MaxLate = 1
  MaxCrash = 1
SYMMETRY QueueSymmetry
INVARIANTS
  SentReachedServer
  CursorSkipsNothing
PROPERTIES
  CursorMonotone
