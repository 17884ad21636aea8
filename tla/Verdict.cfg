\* Four ticks of two rigs, a verdict read at any two moments of them.
SPECIFICATION Spec
CONSTANTS
  Cards <- TwoCards
  HealthyCard = "card0"
  Rigs <- BothRigs
  Sides <- LowHigh
  Levels <- SomeLevels
  Start = 0
  MaxTicks = 4
  Window = 2
  MaxHost = 26
  MinLocal = 1
  MaxRatio = 2
  MaxNonlocal = 2
  MinWatts = 2
  MinActivity = 50
INVARIANTS
  TypeOK
  BreachIsReal
  HealthyIsWarranted
  BusyRigIsJudged
CHECK_DEADLOCK FALSE
