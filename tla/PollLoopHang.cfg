\* The watchdog of the plan against the watchdog of the code.
SPECIFICATION Spec
CONSTANTS
  NumSlots = 3
  Period <- MixedPeriods
  TickChoices <- UnlimitedOrFour
  TickBound = 4
  TimeoutNs = 200
  Elapsed <- AroundTimeout
PROPERTIES
  StalledPollIsLeft
