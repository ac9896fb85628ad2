SPECIFICATION Spec
CONSTANTS
  core1 = core1
  logger = logger
  Readers = {core1, logger}
  Words = {w1, w2}
  SeqMod = 4
  Cap <- MCCap
  MaxWrites = 2
INVARIANTS
  TypeOK
  NoTornRead
  FreshRead
PROPERTIES
  DeadWriterRejected
  CappedReadReturns
  QuiescentReadReturns
  ImplementsCell
