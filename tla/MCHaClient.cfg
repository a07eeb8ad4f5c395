SPECIFICATION Spec
CONSTANTS
  Topics = {"a", "b"}
  EntityTopic = "a"
  Counts <- SomeCounts
  Delays = {0, 1}
  Windows = {0, 1}
  Listens = {"listen"}
  MaxClients = 3
INVARIANTS TypeOK NothingLeaks GroupsHaveListeners OptionsInForce ChainsAreSpaced
