SPECIFICATION FairSpec
CONSTANTS
  Topics = {a, b}
  Crcs = {x, y}
  MaxSubscribed = 3
  Bases = {1}
  MaxStarts = 2
  MaxPublished = 2
  MaxCalls = 3
  MaxSent = 3
INVARIANTS TypeOK TablesAgree GroupsFollowSubs TimersTracked ChainIsLatest FiniteAccounted NobodySkipped
PROPERTY TransmissionsComplete
