SPECIFICATION Spec
CONSTANTS
  a = a
  x = x
  Endpoints = {a}
  External = {}
  Contents <- KeepA
  Invalid = invalid
  NoOne = nobody
  SkipInvalidConfigUpdate = TRUE
  DisableMonitoringLock = FALSE
  Persistent = TRUE
  QuietLoads = TRUE
  Signals = FALSE
  MaxEdits = 1
  MaxTime = 1
CHECK_DEADLOCK FALSE
INVARIANTS OldConfigurationIsUsed
