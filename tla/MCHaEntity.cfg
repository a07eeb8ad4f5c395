SPECIFICATION Spec
CONSTANTS
  Delays = {0, 1, 3}
  MaxAge = 4
INVARIANTS TypeOK RemovedIsQuiet KnownIsRecent OnIsBrief
