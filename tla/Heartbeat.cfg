\* A metric that keeps its value for 31 polls, one second apart.
SPECIFICATION Spec
CONSTANTS
  Streams <- OneStream
  HeaderStreams <- Fingerprint
  HostAdapter = ""
  Readings <- OneReading
  Finite <- OneReading
  Implausible <- NoReading
  NaN = "nan"
  Infinity = "inf"
  Unset = "unset"
  EvidenceMetrics <- Evidence
  EnvelopeMetrics <- Envelopes
  CapacityMetrics <- Capacities
  JudgedMetrics <- Judged
  MaxPublish = 31
  HeartbeatAfter = 30
INVARIANTS
  RepeatedAtHeartbeat
CHECK_DEADLOCK FALSE
