SPECIFICATION FairSpec
CONSTANTS
  Topics = {t1, t2}
  Bases <- SomeBases
  Delays = {0, 1000}
  MaxMessages = 2
  MaxSent = 3
CHECK_DEADLOCK FALSE
INVARIANTS TypeOK JobIsChain FiniteBounded
PROPERTIES CancelledStops ShutdownCompletes
