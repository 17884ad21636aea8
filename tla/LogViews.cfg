\* A header with a report and a binding note, three events, and any cut.
SPECIFICATION Spec
CONSTANTS
  Cards = {"card0"}
  Counters = {"activity"}
  Gauges = {"gauge"}
  HeaderMetrics = {"cpu_visible"}
  Sources = {"D3DKMT", "IGCL"}
  CounterValues <- CounterNumbers
  GaugeValues <- GaugeNumbers
  NaN = NaN
  Missing = Missing
  Rules = {"percent", "silent"}
  Header <- Headers
  Boot = 30
  MaxTime = 32
  MaxBody = 3
  Halves <- SomeHalves
  Null = Null
  Absent = Absent
INVARIANTS
  TypeOK
  ReplayFaithful
  GroupsAreReal
  UnusableIsReal
  SummaryIsReal
  LedgerShowsInit
  DurationNotShort
CHECK_DEADLOCK FALSE
