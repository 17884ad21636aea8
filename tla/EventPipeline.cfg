\* Every order of four polled samples after the fingerprint's.
SPECIFICATION Spec
CONSTANTS
  Streams <- SharedTemperature
  HeaderStreams <- Fingerprint
  HostAdapter = ""
  Readings <- SomeReadings
  Finite <- FiniteReadings
  Implausible <- AbsurdReadings
  NaN = "nan"
  Infinity = "inf"
  Unset = "unset"
  EvidenceMetrics <- Evidence
  EnvelopeMetrics <- Envelopes
  CapacityMetrics <- Capacities
  JudgedMetrics <- Judged
  MaxPublish = 4
  HeartbeatAfter = 30
INVARIANTS
  TypeOK
  LogShowsCurrent
  NoRepeatedLine
  ReportsExplained
  TransitionOnEvidence
CHECK_DEADLOCK FALSE
