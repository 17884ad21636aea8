\* A card whose non-local commit stays above its limit while the rest moves.
SPECIFICATION Spec
CONSTANTS
  Cards <- TwoCards
  HealthyCard = "card0"
  Rigs <- OnlyMemoryRig
  Sides <- LowHigh
  Levels <- SomeLevels
  Start = 0
  MaxTicks = 4
  Window = 2
  MaxHost = 26
  MinLocal = 1
  MaxRatio = 2
  MaxNonlocal = 2
  MinWatts = 2
  MinActivity = 50
INVARIANTS
  HealthyMeansNoSpill
CHECK_DEADLOCK FALSE
