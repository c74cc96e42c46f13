\* Sync switched on and off: uploads stay apart, and all is uploaded in the end.
SPECIFICATION FairSpec
CONSTANTS
  e1 = e1
  e2 = e2
  e3 = e3
  w1 = w1
  w2 = w2
  t1 = t1
  t2 = t2
  s1 = s1
  s2 = s2
  Event = {e1, e2}
  NoEvent = NoEvent
  Writer = {w1}
  EventsOf <- OneWriter2
  Target = {t1}
  NoTarget = NoTarget
  Url = {s1}
  NoUrl = NoUrl
  Choice <- OnAndOff
  Queue = {q1, q2}
  NoQueue = NoQueue
  MaxBatch = 1
  Interval = 2
  MaxSeq = 2
  MaxLate = 0
  MaxCrash = 1
INVARIANTS
  TypeOK
  CadenceKept
PROPERTIES
  EventuallyUploaded
