SPECIFICATION Spec
CONSTANTS
  t1 = t1
  t2 = t2
  every = every
  once = once
  Tasks = {t1, t2}
  Entries = {every, once}
  Periodic = {every}
  Delays = {0, 6}
  Intervals = {2}
  IntervalMin = 1
  IntervalMax = 5
  Slack = 0
  Busy = 1
  Horizon = 7
INVARIANTS
  TypeOK
  QueueSound
  NeverLate
  CancelSticks
  NoDrift
SYMMETRY TaskSymmetry
CHECK_DEADLOCK FALSE
