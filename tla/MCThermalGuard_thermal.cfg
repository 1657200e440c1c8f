SPECIFICATION FairGuardSpec
CONSTANTS
  MaxRetries = 3
  TelemetryFailures = 3
INVARIANTS
  CooldownRespected
PROPERTIES
  HotScanEnds
  VerdictTrue
