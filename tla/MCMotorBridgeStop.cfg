SPECIFICATION Spec
CONSTANTS
  m1 = m1
  m2 = m2
  NaN = NaN
  Motors <- MCMotors
  Samples <- MCSamples
  ArmStates <- MCArmStates
  LoopPeriod = 1
  LoopJitter = 0
  PassPeriod = 1
  PassSlack = 1
  MaxAge = 3
  Horizon = 7
  Present = {m1}
INVARIANT ZeroMeansStop
CHECK_DEADLOCK FALSE
