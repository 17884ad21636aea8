\* Three collectors under every combination of options: --ticks 0 (ended by
\* Ctrl-C) or 4, with and without --flush-every-tick and --no-sleep.
SPECIFICATION Spec
CONSTANTS
  NumSlots = 3
  Period <- MixedPeriods
  TickChoices <- UnlimitedOrFour
  TickBound = 4
  TimeoutNs = 200
  Elapsed <- AroundTimeout
INVARIANTS
  TypeOK
  StrikesMatchHistory
  OneRecordPerDisabled
  NoPollMissed
  OneLatePollAtMost
  QuietMeansFlushed
PROPERTIES
  RetirementSpec
  RunEnds
