\* Two IGCL sources at the default cadence with its jitter.
SPECIFICATION Spec
CONSTANTS
  KeySeq <- TwoSources
  Gaps <- JitteredSecond
  Threshold = 60
  BeforeIgcl = TRUE
  AfterIgcl = TRUE
  MissedCap = 4
INVARIANTS
  TypeOK
  OneReportPerEpisode
  NotTooEarly
  NotTooLate
PROPERTIES
  MissIsSettled
