SPECIFICATION Spec
CONSTANTS
  Word = 16
  Lead = 2
  MaxDelay = 1
  MaxGap = 2
  Slack = 1
  ReadSlack = 2
  Start = 12
  Horizon = 18
INVARIANTS
  TypeOK
  StampsFollowSimulator
  ReadBounded
CHECK_DEADLOCK FALSE
