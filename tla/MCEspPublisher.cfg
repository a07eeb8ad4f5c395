SPECIFICATION FairSpec
CONSTANTS
  t1 = t1
  t2 = t2
  i1 = i1
  i2 = i2
  Topics = {t1, t2}
  Ids = {i1, i2}
  Crc <- DistinctCrc
  Byte = 4
  Half = 8
  Base = 1
  RawActions <- SomeRawActions
  TypedActions <- SomeTypedActions
  MaxCalls = 2
  MaxTries = 3
CHECK_DEADLOCK FALSE
INVARIANTS TypeOK ChainArmed ChainIsLatest ExactCount
PROPERTIES SupersededIsSilent FiniteCompletes ChainPersists
