\* Every adapter's first evidence is the fingerprint's, whatever the polls do.
SPECIFICATION Spec
CONSTANTS
  Streams <- SharedTemperature
  HeaderStreams <- Fingerprint
  HostAdapter = ""
  Readings <- SomeReadings
  Finite <- FiniteReadings
  Implausible <- AbsurdReadings
  NaN = "nan"
  Infinity = "inf"
  Unset = "unset"
  EvidenceMetrics <- Evidence
  EnvelopeMetrics <- Envelopes
  CapacityMetrics <- Capacities
  JudgedMetrics <- Judged
  MaxPublish = 2
  HeartbeatAfter = 30
INVARIANTS
  IdleOnPolledEvidence
CHECK_DEADLOCK FALSE
