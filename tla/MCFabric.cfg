SPECIFICATION FairSpec
CONSTANTS
  Topics = {"a"}
  Windows = {0, 1}
  MaxEntries = 1
  Nonces = {1, 2}
  MinTime = 2
  MaxTime = 3
  MaxSetBack = 0
  MaxBoots = 1
  MaxAccepted = 99
  Counts <- SomeCounts
  MaxPublished = 2
INVARIANT TypeOK
PROPERTIES ImplementsDelivery ChainPrevails
CHECK_DEADLOCK FALSE
VIEW Memory
