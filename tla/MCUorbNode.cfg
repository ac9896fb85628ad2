SPECIFICATION Spec
CONSTANTS
  p1 = p1
  p2 = p2
  s1 = s1
  None = None
  Publishers = {p1, p2}
  Subscribers = {s1}
  Requirements = {0, 2}
  Depths = {1, 2}
  GenMod = 4
  MaxPublished = 7
INVARIANTS
  TypeOK
  NoMissedWakeup
PROPERTIES
  ImplementsTopic
  Delivered
CHECK_DEADLOCK FALSE
