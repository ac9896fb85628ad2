SPECIFICATION Spec
CONSTANTS
  c1 = c1
  timed = timed
  plain = plain
  Items = {timed, plain}
  Timed = {timed}
  Callers = {c1}
  Worker = Worker
  Timer = Timer
  Nil = Nil
INVARIANTS
  TypeOK
  QueueSound
  NoLostWakeup
  ClearSticks
  DeadIsUnreachable
  ExitSafe
PROPERTIES
  ImplementsWorkList
  Served
CHECK_DEADLOCK FALSE
