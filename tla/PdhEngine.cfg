\* Four cadences; any poll may fail to collect, to fetch, or to read an instance.
SPECIFICATION Spec
CONSTANTS
  Adapters <- TwoCards
  EnginesOf <- CardEngines
  Processes = {"game", "llm"}
  Full = 60
  MaxClock = 4
INVARIANTS
  TypeOK
PROPERTIES
  NeverOverstated
  ExactWhenSettled
CHECK_DEADLOCK FALSE
