SPECIFICATION Spec
CONSTANTS
  Topics = {t1}
  Bases <- SomeBases
  Delays = {0, 1000}
  MaxMessages = 2
  MaxSent = 3
CHECK_DEADLOCK FALSE
INVARIANT IndefiniteIsSpaced
